---- MODULE BuyerProofs ----
(***************************************************************************)
(* Proofs about the pages a buyer uses, for every set of rows, requests,   *)
(* keys, items and queries, and every number of visits.  The account keeps *)
(* a linked row its owner's; a checkout makes no more payments than there  *)
(* were visits; the catalogue, a class and an invitation end up showing    *)
(* what they are about.                                                    *)
(***************************************************************************)
EXTENDS Identity, CheckoutPage, BuyerPages, FiniteSetTheorems, TLAPS

-----------------------------------------------------------------------------
(* Identity *)

USE IdentityAssumption

\* A request that found a row goes on with one that exists; what it read of a
\* row it is about to link had no owner.
CallsAreTrue ==
    \A c \in Calls :
        /\ calls[c].pc \in {"refresh", "link", "save"} => users[calls[c].row] # NoUser
        /\ calls[c].pc = "link" => calls[c].was.sub = Null

IdentityInv == IdentityTypeOK /\ CallsAreTrue

-----------------------------------------------------------------------------
LEMMA RowFields ==
    ASSUME NEW row \in Users \cup {NoUser}
    PROVE  /\ row # NoUser <=> row \in Users
           /\ row.verified \in BOOLEAN
           /\ row.sub \in Subs \cup {Null}
<1>1. CASE row \in Users
    BY <1>1 DEF Users, NoUser
<1>2. CASE row = NoUser
    BY <1>2 DEF Users, NoUser
<1> QED
    BY <1>1, <1>2

LEMMA UnaskedStep == Unasked \in Steps /\ Unasked.pc = "idle"
BY DEF Unasked, Steps

LEMMA StepFields ==
    ASSUME NEW t \in Steps
    PROVE  /\ t.pc \in {"sub", "email", "create"} =>
                  /\ t.sub \in Subs /\ t.email \in Emails /\ t.verified \in BOOLEAN
                  /\ [t EXCEPT !.pc = "email"] \in Steps /\ [t EXCEPT !.pc = "create"] \in Steps
           /\ t.pc \in {"refresh", "link"} =>
                  /\ t.sub \in Subs /\ t.email \in Emails /\ t.verified \in BOOLEAN
                  /\ t.row \in Rows /\ t.was \in Users
           /\ t.pc = "profile" => t.sub \in Subs
           /\ t.pc = "save" => t.row \in Rows
<1> DEFINE A == [pc : {"sub", "email", "create"}, sub : Subs, email : Emails, verified : BOOLEAN]
           B == [pc : {"refresh", "link"}, sub : Subs, email : Emails, verified : BOOLEAN,
                 row : Rows, was : Users]
<1>1. CASE t \in A
    <2>1. [t EXCEPT !.pc = "email"] \in A /\ [t EXCEPT !.pc = "create"] \in A
        BY <1>1
    <2> QED
        BY <1>1, <2>1 DEF Steps
<1>2. CASE t \in B
    BY <1>2
<1>3. CASE t \notin A \cup B
    BY <1>3 DEF Steps, Unasked
<1> QED
    BY <1>1, <1>2, <1>3

\* What is read of a row that exists makes a step.
LEMMA ReadStep ==
    ASSUME IdentityTypeOK, NEW c \in Calls, calls[c].pc \in {"sub", "email"},
           NEW i \in Rows, users[i] # NoUser, NEW pc \in {"refresh", "link"}
    PROVE  /\ Read(c, pc, i) \in Steps
           /\ Read(c, pc, i).pc = pc /\ Read(c, pc, i).row = i /\ Read(c, pc, i).was = users[i]
<1>1. calls[c] \in Steps /\ users[i] \in Users
    BY RowFields DEF IdentityTypeOK
<1>2. calls[c].sub \in Subs /\ calls[c].email \in Emails /\ calls[c].verified \in BOOLEAN
    BY <1>1, StepFields
<1> QED
    BY <1>1, <1>2 DEF Read, Steps

\* A request takes a step that is true, and rows stay.
LEMMA CallStep ==
    ASSUME IdentityInv, NEW c \in Calls, NEW t \in Steps, Goes(c, t),
           \A i \in Rows : users[i] # NoUser => users'[i] # NoUser,
           t.pc \in {"refresh", "link", "save"} => users[t.row] # NoUser,
           t.pc = "link" => t.was.sub = Null
    PROVE  calls' \in [Calls -> Steps] /\ CallsAreTrue'
<1>1. \A d \in Calls : calls[d] \in Steps
    BY DEF IdentityInv, IdentityTypeOK
<1>2. \A d \in Calls : calls'[d] = IF d = c THEN t ELSE calls[d]
    BY DEF Goes, IdentityInv, IdentityTypeOK
<1>3. calls' \in [Calls -> Steps]
    BY DEF Goes, IdentityInv, IdentityTypeOK
<1>4. ASSUME NEW d \in Calls
      PROVE  /\ calls'[d].pc \in {"refresh", "link", "save"} => users'[calls'[d].row] # NoUser
             /\ calls'[d].pc = "link" => calls'[d].was.sub = Null
    <2>1. CASE d = c
        BY <1>2, <2>1, StepFields
    <2>2. CASE d # c
        <3>1. calls'[d] = calls[d]
            BY <1>2, <2>2
        <3> QED
            BY <1>1, <3>1, StepFields DEF IdentityInv, CallsAreTrue
    <2> QED
        BY <2>1, <2>2
<1> QED
    BY <1>3, <1>4 DEF CallsAreTrue

LEMMA PageAfter ==
    ASSUME IdentityTypeOK, NEW c \in Calls, NEW reply \in {"synced", "saved", "failed"},
           Ends(c, reply)
    PROVE  account' \in Pages
BY DEF Ends, IdentityTypeOK, Pages

-----------------------------------------------------------------------------
LEMMA InvInitial == IdentityInit => IdentityInv
<1> SUFFICES ASSUME IdentityInit PROVE IdentityInv
    OBVIOUS
<1>1. ASSUME NEW i \in Rows PROVE users[i] \in Users \cup {NoUser}
    <2>1. CASE i \in DOMAIN Seeded
        BY <2>1 DEF IdentityInit, Users, NoUser
    <2>2. CASE i \notin DOMAIN Seeded
        BY <2>2 DEF IdentityInit
    <2> QED
        BY <2>1, <2>2
<1>2. users \in [Rows -> Users \cup {NoUser}]
    BY <1>1 DEF IdentityInit
<1>3. account \in Pages
    BY DEF IdentityInit, NewPage, Pages
<1>4. CallsAreTrue
    BY UnaskedStep DEF IdentityInit, CallsAreTrue
<1> QED
    BY <1>2, <1>3, <1>4, UnaskedStep DEF IdentityInit, IdentityInv, IdentityTypeOK

\* A write by id keeps the table's type, and the row.
LEMMA WriteStep ==
    ASSUME IdentityInv, NEW c \in Calls, calls[c].pc \in {"refresh", "link"},
           NEW row \in Users, Write(c, row)
    PROVE  IdentityInv'
<1>1. calls[c].row \in Rows
    BY StepFields DEF IdentityInv, IdentityTypeOK
<1>2. users' = [users EXCEPT ![calls[c].row] = row]
    BY DEF Write, IdentityInv, IdentityTypeOK
<1>3. users' \in [Rows -> Users \cup {NoUser}]
    BY <1>1, <1>2 DEF IdentityInv, IdentityTypeOK
<1>4. \A i \in Rows : users[i] # NoUser => users'[i] # NoUser
    BY <1>1, <1>2, RowFields DEF IdentityInv, IdentityTypeOK
<1>5. calls' \in [Calls -> Steps] /\ CallsAreTrue'
    BY <1>4, UnaskedStep, CallStep DEF Write, Ends
<1>6. account' \in Pages
    BY PageAfter DEF Write, IdentityInv
<1> QED
    BY <1>2, <1>3, <1>5, <1>6 DEF IdentityInv, IdentityTypeOK

LEMMA InvInductive == IdentityInv /\ [IdentityNext]_identityVars => IdentityInv'
<1> SUFFICES ASSUME IdentityInv, [IdentityNext]_identityVars PROVE IdentityInv'
    OBVIOUS
<1>0. /\ IdentityTypeOK
      /\ \A c \in Calls : calls[c] \in Steps
      /\ \A i \in Rows : users[i] \in Users \cup {NoUser}
    BY DEF IdentityInv, IdentityTypeOK
\* A request takes a step and writes nothing.
<1>1. ASSUME NEW c \in Calls, NEW t \in Steps, Goes(c, t), UNCHANGED users,
             account' \in Pages,
             t.pc \in {"refresh", "link", "save"} => users[t.row] # NoUser,
             t.pc = "link" => t.was.sub = Null
      PROVE  IdentityInv'
    BY <1>0, <1>1, CallStep DEF IdentityInv, IdentityTypeOK
<1>2. ASSUME NEW c \in Calls, UNCHANGED users, Ends(c, "failed") PROVE IdentityInv'
    BY <1>0, <1>1, <1>2, UnaskedStep, PageAfter DEF Ends
\* The page alone changes.
<1>3. ASSUME UNCHANGED <<users, calls>>, account' \in Pages PROVE IdentityInv'
    BY <1>0, <1>3 DEF IdentityInv, IdentityTypeOK, CallsAreTrue
<1>4. ASSUME NEW c \in Calls, NEW sub \in Subs, NEW email \in Emails, NEW verified \in BOOLEAN,
             Sync(c, sub, email, verified), account' \in Pages
      PROVE  IdentityInv'
    <2>1. [pc |-> "sub", sub |-> sub, email |-> email, verified |-> verified] \in Steps
        BY DEF Steps
    <2> QED
        BY <1>1, <1>4, <2>1 DEF Sync
<1>5. ASSUME NEW c \in Calls, FindBySub(c) PROVE IdentityInv'
    <2>1. CASE \E i \in BySub(calls[c].sub) : Goes(c, Read(c, "refresh", i))
        <3>1. PICK i \in Rows : users[i] # NoUser /\ Goes(c, Read(c, "refresh", i))
            BY <2>1 DEF BySub
        <3>2. /\ Read(c, "refresh", i) \in Steps /\ Read(c, "refresh", i).pc = "refresh"
              /\ Read(c, "refresh", i).row = i
            BY <1>0, <1>5, <3>1, ReadStep DEF FindBySub
        <3> QED
            BY <1>0, <1>1, <1>5, <3>1, <3>2 DEF FindBySub, IdentityTypeOK
    <2>2. CASE Goes(c, [calls[c] EXCEPT !.pc = "email"])
        <3>1. /\ [calls[c] EXCEPT !.pc = "email"] \in Steps
              /\ [calls[c] EXCEPT !.pc = "email"].pc \notin {"refresh", "link", "save"}
            BY <1>0, <1>5, StepFields DEF FindBySub, Steps, Unasked
        <3> QED
            BY <1>0, <1>1, <1>5, <2>2, <3>1 DEF FindBySub, IdentityTypeOK
    <2> QED
        BY <1>5, <2>1, <2>2 DEF FindBySub
<1>6. ASSUME NEW c \in Calls, FindByEmail(c) PROVE IdentityInv'
    <2>1. CASE Ends(c, "failed")
        BY <1>2, <1>6, <2>1 DEF FindByEmail
    <2>2. CASE \E i \in ByEmail(calls[c].email) :
                   MayLink(i) /\ Goes(c, Read(c, "link", i)) /\ UNCHANGED account
        <3>1. PICK i \in Rows : /\ users[i] # NoUser /\ MayLink(i)
                                /\ Goes(c, Read(c, "link", i)) /\ UNCHANGED account
            BY <2>2 DEF ByEmail
        <3>2. /\ Read(c, "link", i) \in Steps
              /\ Read(c, "link", i).row = i /\ Read(c, "link", i).was = users[i]
            BY <1>0, <1>6, <3>1, ReadStep DEF FindByEmail
        <3> QED
            BY <1>0, <1>1, <1>6, <3>1, <3>2 DEF FindByEmail, IdentityTypeOK, MayLink
    <2>3. CASE Goes(c, [calls[c] EXCEPT !.pc = "create"]) /\ UNCHANGED account
        <3>1. /\ [calls[c] EXCEPT !.pc = "create"] \in Steps
              /\ [calls[c] EXCEPT !.pc = "create"].pc \notin {"refresh", "link", "save"}
            BY <1>0, <1>6, StepFields DEF FindByEmail, Steps, Unasked
        <3> QED
            BY <1>0, <1>1, <1>6, <2>3, <3>1 DEF FindByEmail, IdentityTypeOK
    <2> QED
        BY <1>6, <2>1, <2>2, <2>3 DEF FindByEmail
<1>7. ASSUME NEW c \in Calls, Refresh(c) PROVE IdentityInv'
    <2> DEFINE i == calls[c].row
               row == [users[i] EXCEPT
                !.email = calls[c].email, !.name = "claimed",
                !.verified = resolveEmailVerifiedAt(calls[c].verified, calls[c].was.verified)]
    <2>1. users[i] \in Users /\ calls[c].email \in Emails /\ calls[c].verified \in BOOLEAN
          /\ calls[c].was.verified \in BOOLEAN
        BY <1>0, <1>7, StepFields, RowFields DEF Refresh, IdentityInv, CallsAreTrue
    <2>2. row \in Users
        BY <2>1 DEF Users, resolveEmailVerifiedAt
    <2>3. CASE Write(c, row)
        BY <1>7, <2>2, <2>3, WriteStep DEF Refresh
    <2>4. CASE Ends(c, "failed") /\ UNCHANGED users
        BY <1>2, <2>4
    <2> QED
        BY <1>7, <2>3, <2>4 DEF Refresh
<1>8. ASSUME NEW c \in Calls, Link(c) PROVE IdentityInv'
    <2> DEFINE i == calls[c].row
               row == [users[i] EXCEPT
                !.sub = calls[c].sub, !.name = "claimed",
                !.verified = resolveEmailVerifiedAt(calls[c].verified, calls[c].was.verified)]
    <2>1. users[i] \in Users /\ calls[c].sub \in Subs /\ calls[c].verified \in BOOLEAN
          /\ calls[c].was.verified \in BOOLEAN
        BY <1>0, <1>8, StepFields, RowFields DEF Link, IdentityInv, CallsAreTrue
    <2>2. row \in Users
        BY <2>1 DEF Users, resolveEmailVerifiedAt
    <2>3. CASE Write(c, row)
        BY <1>8, <2>2, <2>3, WriteStep DEF Link
    <2>4. CASE Ends(c, "failed") /\ UNCHANGED users
        BY <1>2, <2>4
    <2> QED
        BY <1>8, <2>3, <2>4 DEF Link
<1>9. ASSUME NEW c \in Calls, Create(c) PROVE IdentityInv'
    <2>1. CASE Ends(c, "failed") /\ UNCHANGED users
        BY <1>2, <1>9, <2>1 DEF Create
    <2>2. CASE /\ \E i \in Rows :
                      /\ users[i] = NoUser
                      /\ users' = [users EXCEPT ![i] =
                             [sub |-> calls[c].sub, email |-> calls[c].email, name |-> "claimed",
                              verified |-> calls[c].verified]]
               /\ Ends(c, "synced")
        <3> DEFINE row == [sub |-> calls[c].sub, email |-> calls[c].email, name |-> "claimed",
                           verified |-> calls[c].verified]
        <3>1. row \in Users
            BY <1>0, <1>9, StepFields DEF Create, Users
        <3>2. row # NoUser
            BY <3>1, RowFields
        <3>3. users' \in [Rows -> Users \cup {NoUser}]
            BY <1>0, <2>2, <3>1 DEF IdentityTypeOK
        <3>4. \A j \in Rows : users[j] # NoUser => users'[j] # NoUser
            BY <1>0, <2>2, <3>2 DEF IdentityTypeOK
        <3>5. calls' \in [Calls -> Steps] /\ CallsAreTrue'
            BY <2>2, <3>4, UnaskedStep, CallStep DEF Ends
        <3> QED
            BY <1>0, <1>9, <2>2, <3>3, <3>5, PageAfter DEF Create, IdentityInv, IdentityTypeOK
    <2> QED
        BY <1>9, <2>1, <2>2 DEF Create
<1>10. ASSUME NEW c \in Calls, FindProfile(c) PROVE IdentityInv'
    <2>1. CASE \E i \in BySub(calls[c].sub) :
                   Goes(c, [pc |-> "save", row |-> i]) /\ UNCHANGED account
        <3>1. PICK i \in Rows : /\ users[i] # NoUser
                                /\ Goes(c, [pc |-> "save", row |-> i]) /\ UNCHANGED account
            BY <2>1 DEF BySub
        <3>2. [pc |-> "save", row |-> i] \in Steps
            BY DEF Steps
        <3> QED
            BY <1>0, <1>1, <1>10, <3>1, <3>2 DEF FindProfile, IdentityTypeOK
    <2>2. CASE Ends(c, "failed")
        BY <1>2, <1>10, <2>2 DEF FindProfile
    <2> QED
        BY <1>10, <2>1, <2>2 DEF FindProfile
<1>11. ASSUME NEW c \in Calls, SaveProfile(c) PROVE IdentityInv'
    <2>1. calls[c].row \in Rows /\ users[calls[c].row] \in Users
        BY <1>0, <1>11, StepFields, RowFields DEF SaveProfile, IdentityInv, CallsAreTrue
    <2> DEFINE row == [users[calls[c].row] EXCEPT !.name = "chosen"]
    <2>2. row \in Users
        BY <2>1 DEF Users
    <2>3. users' = [users EXCEPT ![calls[c].row] = row]
        BY <1>11 DEF SaveProfile
    <2>4. users' \in [Rows -> Users \cup {NoUser}]
        BY <1>0, <2>2, <2>3 DEF IdentityTypeOK
    <2>5. \A i \in Rows : users[i] # NoUser => users'[i] # NoUser
        BY <1>0, <2>1, <2>2, <2>3, RowFields DEF IdentityTypeOK
    <2>6. calls' \in [Calls -> Steps] /\ CallsAreTrue'
        BY <1>11, <2>5, UnaskedStep, CallStep DEF SaveProfile, Ends
    <2> QED
        BY <1>0, <1>11, <2>4, <2>6, PageAfter DEF SaveProfile, IdentityInv, IdentityTypeOK
<1>12. ASSUME NEW c \in Calls, Fails(c) PROVE IdentityInv'
    BY <1>2, <1>12 DEF Fails
<1>13. CASE SignedIn
    <2>1. account' \in Pages
        BY <1>0, <1>13 DEF SignedIn, IdentityTypeOK, Pages
    <2> QED
        BY <1>4, <1>13, <2>1 DEF SignedIn
<1>14. CASE LoseReply \/ ProfileArrives \/ Type \/ Saved \/ Failed \/ Reload
    <2>1. account \in Pages /\ NewPage \in Pages
        BY <1>0 DEF IdentityTypeOK, NewPage, Pages
    <2>2. Filled \in {"empty", "filled", "typed"}
        BY <2>1 DEF Filled, Pages
    <2>3. CASE LoseReply \/ Type \/ Failed
        BY <1>3, <2>1, <2>3 DEF LoseReply, Type, Failed, Pages
    <2>4. CASE ProfileArrives \/ Saved
        BY <1>3, <2>1, <2>2, <2>4 DEF ProfileArrives, Saved, Pages
    <2>5. CASE Reload
        BY <1>3, <2>1, <2>5 DEF Reload
    <2> QED
        BY <1>14, <2>3, <2>4, <2>5
<1>15. CASE Save
    <2>1. account' \in Pages
        BY <1>0, <1>15 DEF Save, IdentityTypeOK, Pages
    <2>2. [pc |-> "profile", sub |-> Me] \in Steps
        BY DEF Steps
    <2> QED
        BY <1>1, <1>15, <2>1, <2>2 DEF Save
<1>16. CASE UNCHANGED identityVars
    BY <1>0, <1>3, <1>16 DEF identityVars, IdentityTypeOK
<1> QED
    BY <1>0, <1>4, <1>5, <1>6, <1>7, <1>8, <1>9, <1>10, <1>11, <1>12, <1>13, <1>14, <1>15, <1>16
    DEF IdentityNext, SyncElsewhere, IdentityTypeOK

\* Every variable stays in its set, whatever identities claim.
THEOREM IdentityTypeCorrect == IdentitySpec => []IdentityTypeOK
<1>1. IdentityInv => IdentityTypeOK
    BY DEF IdentityInv
<1> QED
    BY InvInitial, InvInductive, <1>1, PTL DEF IdentitySpec

-----------------------------------------------------------------------------
Kept ==
    \A i \in Rows :
        /\ IsOwned(i) => IsOwned(i)' /\ users'[i].sub = users[i].sub
        /\ IsVerified(i) => IsVerified(i)'

\* A request takes a step and writes nothing: what it has read is as it is.
LEMMA ReadKeeps ==
    ASSUME IdentityInv, NEW c \in Calls, NEW t, Goes(c, t), UNCHANGED users,
           t.pc \in {"refresh", "link"} => t.was = users[t.row],
           t.pc = "link" => users[t.row].sub = Null
    PROVE  Kept
<1>1. \A d \in Calls : calls'[d] = IF d = c THEN t ELSE calls[d]
    BY DEF Goes, IdentityInv, IdentityTypeOK
<1>2. ASSUME NEW i \in Rows, IsOwned(i) PROVE IsOwned(i)' /\ users'[i].sub = users[i].sub
    <2>1. ASSUME NEW d \in Calls, calls'[d].pc = "link", calls'[d].row = i PROVE FALSE
        BY <1>1, <1>2, <2>1 DEF IsOwned
    <2> QED
        BY <1>2, <2>1 DEF IsOwned
<1>3. ASSUME NEW i \in Rows, IsVerified(i) PROVE IsVerified(i)'
    <2>1. ASSUME NEW d \in Calls, calls'[d].pc \in {"refresh", "link"}, calls'[d].row = i,
                 ~calls'[d].was.verified
          PROVE  FALSE
        BY <1>1, <1>3, <2>1 DEF IsVerified
    <2> QED
        BY <1>3, <2>1 DEF IsVerified
<1> QED
    BY <1>2, <1>3 DEF Kept

\* A request ends, and writes one row: its owner stays unless nobody has it, and it
\* stays verified unless the request read it unverified.
LEMMA WriteKeeps ==
    ASSUME IdentityInv, NEW c \in Calls, Goes(c, Unasked), NEW i \in Rows, NEW row \in Users,
           users' = [users EXCEPT ![i] = row],
           IsOwned(i) => row.sub = users[i].sub,
           IsVerified(i) => row.verified
    PROVE  Kept
<1>1. \A d \in Calls : calls'[d] = IF d = c THEN Unasked ELSE calls[d]
    BY DEF Goes, IdentityInv, IdentityTypeOK
<1>2. \A j \in Rows : users'[j] = IF j = i THEN row ELSE users[j]
    BY DEF IdentityInv, IdentityTypeOK
<1>3. ASSUME NEW j \in Rows, IsOwned(j) PROVE IsOwned(j)' /\ users'[j].sub = users[j].sub
    <2>1. users'[j].sub = users[j].sub
        BY <1>2, <1>3
    <2>2. ASSUME NEW d \in Calls, calls'[d].pc = "link", calls'[d].row = j PROVE FALSE
        BY <1>1, <1>3, <2>2, UnaskedStep DEF IsOwned
    <2> QED
        BY <1>3, <2>1, <2>2 DEF IsOwned
<1>4. ASSUME NEW j \in Rows, IsVerified(j) PROVE IsVerified(j)'
    <2>1. users'[j].verified
        BY <1>2, <1>4 DEF IsVerified
    <2>2. ASSUME NEW d \in Calls, calls'[d].pc \in {"refresh", "link"}, calls'[d].row = j,
                 ~calls'[d].was.verified
          PROVE  FALSE
        BY <1>1, <1>4, <2>2, UnaskedStep DEF IsVerified
    <2> QED
        BY <2>1, <2>2 DEF IsVerified
<1> QED
    BY <1>3, <1>4 DEF Kept

LEMMA StepKeeps == IdentityInv /\ [IdentityNext]_identityVars => Kept
<1> SUFFICES ASSUME IdentityInv, [IdentityNext]_identityVars PROVE Kept
    OBVIOUS
<1>0. /\ IdentityTypeOK
      /\ \A c \in Calls : calls[c] \in Steps
      /\ \A i \in Rows : users[i] \in Users \cup {NoUser}
    BY DEF IdentityInv, IdentityTypeOK
<1>1. ASSUME NEW c \in Calls, NEW t, Goes(c, t), UNCHANGED users, t.pc \notin {"refresh", "link"}
      PROVE  Kept
    BY <1>1, ReadKeeps
<1>2. ASSUME NEW c \in Calls, Goes(c, Unasked), UNCHANGED users PROVE Kept
    BY <1>1, <1>2, UnaskedStep
<1>3. ASSUME NEW c \in Calls, NEW sub, NEW email, NEW verified, Sync(c, sub, email, verified)
      PROVE  Kept
    BY <1>1, <1>3 DEF Sync
<1>4. ASSUME NEW c \in Calls, FindBySub(c) PROVE Kept
    <2>1. CASE \E i \in BySub(calls[c].sub) : Goes(c, Read(c, "refresh", i))
        <3>1. PICK i \in Rows : users[i] # NoUser /\ Goes(c, Read(c, "refresh", i))
            BY <2>1 DEF BySub
        <3>2. /\ Read(c, "refresh", i).pc = "refresh" /\ Read(c, "refresh", i).row = i
              /\ Read(c, "refresh", i).was = users[i]
            BY DEF Read
        <3> QED
            BY <1>4, <3>1, <3>2, ReadKeeps DEF FindBySub
    <2>2. CASE Goes(c, [calls[c] EXCEPT !.pc = "email"])
        <3>1. [calls[c] EXCEPT !.pc = "email"].pc \notin {"refresh", "link"}
            BY <1>0, <1>4, StepFields DEF FindBySub, Steps, Unasked
        <3> QED
            BY <1>1, <1>4, <2>2, <3>1 DEF FindBySub
    <2> QED
        BY <1>4, <2>1, <2>2 DEF FindBySub
<1>5. ASSUME NEW c \in Calls, FindByEmail(c) PROVE Kept
    <2>1. CASE Ends(c, "failed")
        BY <1>2, <1>5, <2>1 DEF FindByEmail, Ends
    <2>2. CASE \E i \in ByEmail(calls[c].email) : MayLink(i) /\ Goes(c, Read(c, "link", i))
        <3>1. PICK i \in Rows : MayLink(i) /\ Goes(c, Read(c, "link", i))
            BY <2>2 DEF ByEmail
        <3>2. /\ Read(c, "link", i).pc = "link" /\ Read(c, "link", i).row = i
              /\ Read(c, "link", i).was = users[i]
            BY DEF Read
        <3> QED
            BY <1>5, <3>1, <3>2, ReadKeeps DEF FindByEmail, MayLink
    <2>3. CASE Goes(c, [calls[c] EXCEPT !.pc = "create"])
        <3>1. [calls[c] EXCEPT !.pc = "create"].pc \notin {"refresh", "link"}
            BY <1>0, <1>5, StepFields DEF FindByEmail, Steps, Unasked
        <3> QED
            BY <1>1, <1>5, <2>3, <3>1 DEF FindByEmail
    <2> QED
        BY <1>5, <2>1, <2>2, <2>3 DEF FindByEmail
<1>6. ASSUME NEW c \in Calls, Refresh(c) PROVE Kept
    <2>1. PICK i \in Rows : i = calls[c].row
        BY <1>0, <1>6, StepFields DEF Refresh
    <2>2. users[i] \in Users /\ calls[c].email \in Emails /\ calls[c].verified \in BOOLEAN
          /\ calls[c].was.verified \in BOOLEAN
        BY <1>0, <1>6, <2>1, StepFields, RowFields DEF Refresh, IdentityInv, CallsAreTrue
    <2> DEFINE row == [users[i] EXCEPT
                !.email = calls[c].email, !.name = "claimed",
                !.verified = resolveEmailVerifiedAt(calls[c].verified, calls[c].was.verified)]
    <2>3. CASE Ends(c, "failed") /\ UNCHANGED users
        BY <1>2, <2>3 DEF Ends
    <2>4. CASE Write(c, row)
        <3>1. row \in Users /\ row.sub = users[i].sub /\ (calls[c].was.verified => row.verified)
            BY <2>2 DEF Users, resolveEmailVerifiedAt
        <3>2. users' = [users EXCEPT ![i] = row] /\ Goes(c, Unasked)
            BY <2>1, <2>4 DEF Write, Ends
        <3>3. IsVerified(i) => calls[c].was.verified
            BY <1>6, <2>1 DEF IsVerified, Refresh
        <3> HIDE DEF row
        <3> QED
            BY <3>1, <3>2, <3>3, WriteKeeps
    <2> QED
        BY <1>6, <2>1, <2>3, <2>4 DEF Refresh
<1>7. ASSUME NEW c \in Calls, Link(c) PROVE Kept
    <2>1. PICK i \in Rows : i = calls[c].row
        BY <1>0, <1>7, StepFields DEF Link
    <2>2. users[i] \in Users /\ calls[c].sub \in Subs /\ calls[c].verified \in BOOLEAN
          /\ calls[c].was.verified \in BOOLEAN
        BY <1>0, <1>7, <2>1, StepFields, RowFields DEF Link, IdentityInv, CallsAreTrue
    <2> DEFINE row == [users[i] EXCEPT
                !.sub = calls[c].sub, !.name = "claimed",
                !.verified = resolveEmailVerifiedAt(calls[c].verified, calls[c].was.verified)]
    <2>3. CASE Ends(c, "failed") /\ UNCHANGED users
        BY <1>2, <2>3 DEF Ends
    <2>4. CASE Write(c, row)
        <3>1. row \in Users /\ (calls[c].was.verified => row.verified)
            BY <2>2 DEF Users, resolveEmailVerifiedAt
        <3>2. users' = [users EXCEPT ![i] = row] /\ Goes(c, Unasked)
            BY <2>1, <2>4 DEF Write, Ends
        <3>3. ~IsOwned(i)
            BY <1>7, <2>1 DEF IsOwned, Link
        <3>4. IsVerified(i) => calls[c].was.verified
            BY <1>7, <2>1 DEF IsVerified, Link
        <3> HIDE DEF row
        <3> QED
            BY <3>1, <3>2, <3>3, <3>4, WriteKeeps
    <2> QED
        BY <1>7, <2>1, <2>3, <2>4 DEF Link
<1>8. ASSUME NEW c \in Calls, Create(c) PROVE Kept
    <2>1. CASE Ends(c, "failed") /\ UNCHANGED users
        BY <1>2, <2>1 DEF Ends
    <2> DEFINE row == [sub |-> calls[c].sub, email |-> calls[c].email, name |-> "claimed",
                       verified |-> calls[c].verified]
    <2>2. ASSUME NEW i \in Rows, users[i] = NoUser, users' = [users EXCEPT ![i] = row],
                 Ends(c, "synced")
          PROVE  Kept
        <3>1. row \in Users
            BY <1>0, <1>8, StepFields DEF Create, Users
        <3>2. ~IsOwned(i) /\ ~IsVerified(i)
            BY <2>2 DEF IsOwned, IsVerified, NoUser
        <3> HIDE DEF row
        <3> QED
            BY <2>2, <3>1, <3>2, WriteKeeps DEF Ends
    <2> QED
        BY <1>8, <2>1, <2>2 DEF Create
<1>9. ASSUME NEW c \in Calls, FindProfile(c) PROVE Kept
    <2>1. CASE \E i \in BySub(calls[c].sub) : Goes(c, [pc |-> "save", row |-> i])
        BY <1>1, <1>9, <2>1 DEF FindProfile
    <2>2. CASE Ends(c, "failed")
        BY <1>2, <1>9, <2>2 DEF FindProfile, Ends
    <2> QED
        BY <1>9, <2>1, <2>2 DEF FindProfile
<1>10. ASSUME NEW c \in Calls, SaveProfile(c) PROVE Kept
    <2>1. PICK i \in Rows : i = calls[c].row
        BY <1>0, <1>10, StepFields DEF SaveProfile
    <2>2. users[i] \in Users
        BY <1>0, <1>10, <2>1, RowFields DEF SaveProfile, IdentityInv, CallsAreTrue
    <2> DEFINE row == [users[i] EXCEPT !.name = "chosen"]
    <2>3. row \in Users /\ row.sub = users[i].sub /\ row.verified = users[i].verified
        BY <2>2 DEF Users
    <2>4. users' = [users EXCEPT ![i] = row] /\ Goes(c, Unasked)
        BY <1>10, <2>1 DEF SaveProfile, Ends
    <2>5. IsVerified(i) => row.verified
        BY <2>3 DEF IsVerified
    <2> HIDE DEF row
    <2> QED
        BY <2>3, <2>4, <2>5, WriteKeeps
<1>11. ASSUME NEW c \in Calls, Fails(c) PROVE Kept
    BY <1>2, <1>11 DEF Fails, Ends
<1>12. CASE Save
    BY <1>1, <1>12, IdentityAssumption DEF Save
<1>13. CASE UNCHANGED <<users, calls>>
    BY <1>13 DEF Kept, IsOwned, IsVerified
<1>14. CASE SignedIn
    BY <1>3, <1>14, IdentityAssumption DEF SignedIn
<1> QED
    BY <1>3, <1>4, <1>5, <1>6, <1>7, <1>8, <1>9, <1>10, <1>11, <1>12, <1>13, <1>14
    DEF IdentityNext, identityVars, SyncElsewhere, LoseReply, ProfileArrives, Type, Saved, Failed,
        Reload

\* A row that has an owner is never given to another identity, and an address that is
\* verified stays so, whatever comes and overlaps from then on
\* (auth.service.ts:31-35 and 140-145).
THEOREM LinkedRowsAreKept == IdentitySpec => IdentityIsKept
<1>1. IdentityInv /\ [IdentityNext]_identityVars => [Kept]_identityVars
    BY StepKeeps
<1> QED
    BY InvInitial, InvInductive, <1>1, PTL DEF IdentitySpec, IdentityIsKept, Kept

-----------------------------------------------------------------------------
(* CheckoutPage *)

HIDE IdentityAssumption
USE CheckoutAssumption

Dead == {"FAILED", "TIMEOUT"}

\* Keys of earlier attempts whose payment is, or may yet be, worth something.
Rivals == {k \in checkout.drawn \ {checkout.key} : payments[k] \notin Dead}

\* Whatever is under way is about the attempt the page shows.
AboutThis ==
    /\ checkout.key \in checkout.drawn
    /\ checkout.shown # None => checkout.shown.key = checkout.key
    /\ checkout.polled # None => checkout.polled = checkout.key /\ checkout.shown # None
    /\ post # None => post.key = checkout.key /\ checkout.shown = None
    /\ poll # None => poll.key = checkout.key /\ checkout.shown # None

\* A failure that is shown, or on its way, has happened, and failures are final.
FailuresAreTrue ==
    /\ checkout.shown # None /\ checkout.shown.status \in Dead =>
           payments[checkout.key] \in Dead
    /\ post # None /\ post.answer \in Dead => payments[checkout.key] \in Dead
    /\ poll # None /\ poll.answer \in Dead => payments[checkout.key] \in Dead

\* Payments are made under keys that were drawn.
PaidAreDrawn == \A k \in Keys : payments[k] # None => k \in checkout.drawn

\* Every attempt but the current one failed, or was left behind by a visit.
OneForAVisit == Cardinality(Rivals) <= visits - 1

CheckoutInv ==
    CheckoutTypeOK /\ AboutThis /\ FailuresAreTrue /\ PaidAreDrawn /\ OneForAVisit

-----------------------------------------------------------------------------
LEMMA OneMore ==
    ASSUME NEW S, IsFiniteSet(S), NEW x
    PROVE  /\ IsFiniteSet(S \cup {x})
           /\ Cardinality(S) \in Nat /\ Cardinality(S \cup {x}) \in Nat
           /\ Cardinality(S \cup {x}) <= Cardinality(S) + 1
<1>1. Cardinality(S) \in Nat
    BY FS_CardinalityType
<1>2. CASE x \in S
    <2>1. S \cup {x} = S
        BY <1>2
    <2> QED
        BY <1>1, <2>1
<1>3. CASE x \notin S
    <2>1. IsFiniteSet(S \cup {x}) /\ Cardinality(S \cup {x}) = Cardinality(S) + 1
        BY <1>3, FS_AddElement
    <2> QED
        BY <1>1, <2>1
<1> QED
    BY <1>2, <1>3

LEMMA OthersAreFinite ==
    ASSUME CheckoutTypeOK
    PROVE  IsFiniteSet(Rivals) /\ Cardinality(Rivals) \in Nat
<1>1. Rivals \subseteq Keys
    BY DEF CheckoutTypeOK, Checkouts, Rivals
<1> QED
    BY <1>1, FS_Subset, FS_CardinalityType

\* An attempt that goes on, while payments that failed stay so.
LEMMA AttemptGoesOn ==
    ASSUME CheckoutInv, CheckoutTypeOK', visits' = visits,
           checkout'.key = checkout.key, checkout'.drawn = checkout.drawn,
           \A k \in Keys : payments[k] \in Dead => payments'[k] \in Dead
    PROVE  OneForAVisit'
<1>1. Rivals' \subseteq Rivals
    BY DEF CheckoutInv, CheckoutTypeOK, Checkouts, Rivals
<1>2. CheckoutTypeOK /\ IsFiniteSet(Rivals) /\ Cardinality(Rivals) \in Nat
    BY OthersAreFinite DEF CheckoutInv
<1>3. IsFiniteSet(Rivals') /\ Cardinality(Rivals') <= Cardinality(Rivals)
    BY <1>1, <1>2, FS_Subset
<1>4. Cardinality(Rivals') \in Nat /\ visits \in Nat
    BY <1>2, <1>3, FS_CardinalityType DEF CheckoutTypeOK
<1> QED
    BY <1>2, <1>3, <1>4 DEF CheckoutInv, OneForAVisit

LEMMA CheckoutInitial == CheckoutInit => CheckoutInv
<1> SUFFICES ASSUME CheckoutInit PROVE CheckoutInv
    OBVIOUS
<1>1. PICK k \in Keys : checkout = Fresh(k, {})
    BY DEF CheckoutInit
<1>2. checkout \in Checkouts /\ checkout.drawn = {k} /\ checkout.key = k
    BY <1>1 DEF Fresh, Checkouts
<1>3. checkout.shown = None /\ checkout.polled = None
    BY <1>1 DEF Fresh
<1>4. Rivals = {}
    BY <1>2 DEF Rivals
<1>5. Cardinality(Rivals) = 0
    BY <1>4, FS_EmptySet
<1> QED
    BY <1>2, <1>3, <1>5
    DEF CheckoutInit, CheckoutInv, CheckoutTypeOK, AboutThis, FailuresAreTrue, PaidAreDrawn,
        OneForAVisit

LEMMA CheckoutInductive == CheckoutInv /\ [CheckoutNext]_checkoutVars => CheckoutInv'
<1> SUFFICES ASSUME CheckoutInv, [CheckoutNext]_checkoutVars PROVE CheckoutInv'
    OBVIOUS
<1>0. CheckoutTypeOK /\ checkout \in Checkouts /\ checkout.key \in Keys
    BY DEF CheckoutInv, CheckoutTypeOK, Checkouts
<1>1. CASE Pay
    <2>1. checkout.shown = None
        BY <1>0, <1>1 DEF Pay, Phase
    <2>2. CheckoutTypeOK' /\ AboutThis' /\ FailuresAreTrue' /\ PaidAreDrawn'
        BY <1>0, <1>1, <2>1
        DEF Pay, CheckoutInv, CheckoutTypeOK, Checkouts, Asked, AboutThis, FailuresAreTrue,
            PaidAreDrawn, Dead, Status
    <2>3. OneForAVisit'
        BY <1>0, <1>1, <2>2, AttemptGoesOn DEF Pay, Checkouts
    <2> QED
        BY <2>2, <2>3 DEF CheckoutInv
<1>2. ASSUME NEW k \in Keys \ checkout.drawn, checkout' = Fresh(k, checkout.drawn),
             poll' = None, post' = None, payments' = payments, visits' \in 1..MaxVisits,
             Cardinality(Rivals') <= visits' - 1
      PROVE  CheckoutInv'
    <2>1. /\ checkout' \in Checkouts /\ checkout'.key = k
          /\ checkout'.drawn = checkout.drawn \cup {k}
          /\ checkout'.shown = None /\ checkout'.polled = None
        BY <1>0, <1>2 DEF Fresh, Checkouts
    <2> QED
        BY <1>0, <1>2, <2>1
        DEF CheckoutInv, CheckoutTypeOK, AboutThis, FailuresAreTrue, PaidAreDrawn, OneForAVisit
<1>3. ASSUME NEW k \in Keys \ checkout.drawn, checkout' = Fresh(k, checkout.drawn),
             payments' = payments
      PROVE  Rivals' \subseteq Rivals \cup ({checkout.key} \ {d \in Keys : payments[d] \in Dead})
    BY <1>0, <1>3 DEF Fresh, Checkouts, Rivals
<1>4. CASE TryAgain
    <2>1. PICK k \in Keys \ checkout.drawn : checkout' = Fresh(k, checkout.drawn)
        BY <1>4 DEF TryAgain
    <2>2. checkout.shown # None /\ checkout.shown.status \in Dead
        BY <1>4 DEF TryAgain, MayTryAgain, Phase, Dead
    <2>3. payments[checkout.key] \in Dead /\ post = None
        BY <2>2 DEF CheckoutInv, FailuresAreTrue, AboutThis
    <2>4. Rivals' \subseteq Rivals
        BY <1>0, <1>3, <1>4, <2>1, <2>3 DEF TryAgain
    <2>5. Cardinality(Rivals') <= Cardinality(Rivals)
        BY <1>0, <2>4, OthersAreFinite, FS_Subset
    <2>6. IsFiniteSet(Rivals')
        BY <1>0, <2>4, OthersAreFinite, FS_Subset
    <2>7. Cardinality(Rivals') <= visits' - 1 /\ visits' \in 1..MaxVisits
        BY <1>0, <1>4, <2>5, <2>6, OthersAreFinite, FS_CardinalityType
        DEF TryAgain, CheckoutInv, OneForAVisit, CheckoutTypeOK
    <2> QED
        BY <1>2, <1>4, <2>1, <2>3, <2>7 DEF TryAgain
<1>5. CASE Return
    <2>1. PICK k \in Keys \ checkout.drawn : checkout' = Fresh(k, checkout.drawn)
        BY <1>5 DEF Return
    <2>2. Rivals' \subseteq Rivals \cup {checkout.key}
        BY <1>3, <1>5, <2>1 DEF Return
    <2>3. /\ IsFiniteSet(Rivals \cup {checkout.key})
          /\ Cardinality(Rivals \cup {checkout.key}) <= Cardinality(Rivals) + 1
        BY <1>0, OthersAreFinite, OneMore
    <2>4. IsFiniteSet(Rivals') /\ Cardinality(Rivals') <= Cardinality(Rivals \cup {checkout.key})
        BY <2>2, <2>3, FS_Subset
    <2>5. /\ Cardinality(Rivals') \in Nat /\ Cardinality(Rivals) \in Nat
          /\ Cardinality(Rivals \cup {checkout.key}) \in Nat
        BY <1>0, <2>3, <2>4, OthersAreFinite, FS_CardinalityType
    <2>6. Cardinality(Rivals') <= visits' - 1 /\ visits' \in 1..MaxVisits
        BY <1>0, <1>5, <2>3, <2>4, <2>5 DEF Return, CheckoutInv, OneForAVisit, CheckoutTypeOK
    <2> QED
        BY <1>2, <1>5, <2>1, <2>6 DEF Return
<1>6. CASE Leave
    <2>1. CheckoutTypeOK' /\ AboutThis' /\ FailuresAreTrue' /\ PaidAreDrawn'
        BY <1>0, <1>6
        DEF Leave, CheckoutInv, CheckoutTypeOK, Checkouts, AboutThis, FailuresAreTrue, PaidAreDrawn
    <2>2. OneForAVisit'
        BY <1>0, <1>6, <2>1, AttemptGoesOn DEF Leave, Checkouts
    <2> QED
        BY <2>1, <2>2 DEF CheckoutInv
<1>7. CASE HandlePost
    <2>1. post \in Asked /\ post.key = checkout.key /\ checkout.shown = None /\ post.answer = None
          /\ poll = None
        BY <1>0, <1>7 DEF HandlePost, CheckoutInv, AboutThis, CheckoutTypeOK
    <2>2. CASE /\ payments[post.key] # None /\ payments' = payments
               /\ post' = [post EXCEPT !.answer = payments[post.key]]
        <3>1. payments[post.key] \in Status
            BY <1>0, <2>1, <2>2 DEF CheckoutTypeOK, Asked
        <3>2. post' \in Asked /\ post'.key = checkout.key /\ post'.answer = payments[checkout.key]
            BY <2>1, <2>2, <3>1 DEF Asked
        <3>3. CheckoutTypeOK' /\ AboutThis' /\ FailuresAreTrue' /\ PaidAreDrawn'
            BY <1>0, <1>7, <2>1, <2>2, <3>2
            DEF HandlePost, CheckoutInv, CheckoutTypeOK, AboutThis, FailuresAreTrue, PaidAreDrawn
        <3>4. OneForAVisit'
            BY <1>7, <2>2, <3>3, AttemptGoesOn DEF HandlePost
        <3> QED
            BY <3>3, <3>4 DEF CheckoutInv
    <2>3. ASSUME NEW s \in {"INITIATED", "PENDING", "FAILED"}, payments[post.key] = None,
                 payments' = [payments EXCEPT ![post.key] = s],
                 post' = [post EXCEPT !.answer = s]
          PROVE  CheckoutInv'
        <3>1. post' \in Asked /\ post'.key = checkout.key /\ post'.answer = s
            BY <2>1, <2>3 DEF Asked, Status
        <3>2. payments' \in [Keys -> Status \cup {None}] /\ payments'[checkout.key] = s
            BY <1>0, <2>1, <2>3 DEF CheckoutTypeOK, Status
        <3>3. CheckoutTypeOK' /\ AboutThis' /\ FailuresAreTrue'
            BY <1>0, <1>7, <2>1, <3>1, <3>2
            DEF HandlePost, CheckoutInv, CheckoutTypeOK, AboutThis, FailuresAreTrue
        <3>4. PaidAreDrawn'
            BY <1>0, <1>7, <2>1, <2>3
            DEF HandlePost, CheckoutInv, CheckoutTypeOK, AboutThis, PaidAreDrawn
        <3>5. \A k \in Keys : payments[k] \in Dead => payments'[k] \in Dead
            BY <1>0, <2>1, <2>3 DEF CheckoutTypeOK, Dead, Status
        <3>6. OneForAVisit'
            BY <1>7, <3>3, <3>5, AttemptGoesOn DEF HandlePost
        <3> QED
            BY <3>3, <3>4, <3>6 DEF CheckoutInv
    <2>4. CASE post' = [post EXCEPT !.answer = "refused"] /\ payments' = payments
        <3>1. post' \in Asked /\ post'.key = checkout.key /\ post'.answer \notin Dead
            BY <2>1, <2>4 DEF Asked, Dead
        <3>2. CheckoutTypeOK' /\ AboutThis' /\ FailuresAreTrue' /\ PaidAreDrawn'
            BY <1>0, <1>7, <2>1, <2>4, <3>1
            DEF HandlePost, CheckoutInv, CheckoutTypeOK, AboutThis, FailuresAreTrue, PaidAreDrawn
        <3>3. OneForAVisit'
            BY <1>7, <2>4, <3>2, AttemptGoesOn DEF HandlePost
        <3> QED
            BY <3>2, <3>3 DEF CheckoutInv
    <2> QED
        BY <1>7, <2>2, <2>3, <2>4 DEF HandlePost
<1>8. CASE HandlePoll
    <2>1. poll \in Asked /\ poll.key = checkout.key /\ checkout.shown # None /\ post = None
        BY <1>0, <1>8 DEF HandlePoll, CheckoutInv, AboutThis, CheckoutTypeOK
    <2>2. poll' \in Asked /\ poll'.key = checkout.key /\ poll'.answer = payments[checkout.key]
        BY <1>0, <1>8, <2>1 DEF HandlePoll, CheckoutTypeOK, Asked
    <2>3. CheckoutTypeOK' /\ AboutThis' /\ FailuresAreTrue' /\ PaidAreDrawn'
        BY <1>0, <1>8, <2>1, <2>2
        DEF HandlePoll, CheckoutInv, CheckoutTypeOK, AboutThis, FailuresAreTrue, PaidAreDrawn
    <2>4. OneForAVisit'
        BY <1>8, <2>3, AttemptGoesOn DEF HandlePoll
    <2> QED
        BY <2>3, <2>4 DEF CheckoutInv
<1>9. ASSUME NEW k \in Keys, Moves(k) PROVE CheckoutInv'
    <2>1. PICK s \in Status : /\ payments[k] \in {"INITIATED", "PENDING"}
                              /\ payments' = [payments EXCEPT ![k] = s]
        BY <1>9 DEF Moves, Status, Settled
    <2>2. \A d \in Keys : payments[d] \in Dead => payments'[d] \in Dead
        BY <1>0, <2>1 DEF CheckoutTypeOK, Dead
    <2>3. CheckoutTypeOK'
        BY <1>0, <1>9, <2>1 DEF Moves, CheckoutTypeOK
    <2>4. AboutThis' /\ FailuresAreTrue'
        BY <1>0, <1>9, <2>2 DEF Moves, CheckoutInv, AboutThis, FailuresAreTrue
    <2>5. PaidAreDrawn'
        BY <1>0, <1>9, <2>1 DEF Moves, CheckoutInv, PaidAreDrawn, CheckoutTypeOK, Status
    <2>6. OneForAVisit'
        BY <1>9, <2>2, <2>3, AttemptGoesOn DEF Moves
    <2> QED
        BY <2>3, <2>4, <2>5, <2>6 DEF CheckoutInv
\* What the page hears: the attempt goes on, and nothing is paid.
<1>10. ASSUME UNCHANGED <<payments, visits>>, checkout' \in Checkouts,
              checkout'.key = checkout.key, checkout'.drawn = checkout.drawn,
              post' \in Asked \cup {None}, poll' \in Asked \cup {None},
              AboutThis', FailuresAreTrue'
       PROVE  CheckoutInv'
    <2>1. CheckoutTypeOK' /\ PaidAreDrawn'
        BY <1>0, <1>10 DEF CheckoutInv, CheckoutTypeOK, PaidAreDrawn
    <2>2. OneForAVisit'
        BY <1>10, <2>1, AttemptGoesOn
    <2> QED
        BY <1>10, <2>1, <2>2 DEF CheckoutInv
<1>11. CASE PostAnswered
    <2>1. post \in Asked /\ post.key = checkout.key /\ post.key \in Keys /\ post.answer \in Status
        BY <1>0, <1>11 DEF PostAnswered, CheckoutInv, AboutThis, CheckoutTypeOK, Asked
    <2> DEFINE known == [key |-> post.key, status |-> post.answer]
    <2>2. known \in Known /\ known # None
        BY <2>1 DEF Known
    <2>3. /\ checkout' \in Checkouts /\ checkout'.shown = known /\ checkout'.polled = post.key
          /\ checkout'.key = checkout.key /\ checkout'.drawn = checkout.drawn
        BY <1>0, <1>11, <2>1, <2>2 DEF PostAnswered, Checkouts
    <2>4. AboutThis' /\ FailuresAreTrue'
        BY <1>0, <1>11, <2>1, <2>2, <2>3
        DEF PostAnswered, CheckoutInv, AboutThis, FailuresAreTrue
    <2> QED
        BY <1>10, <1>11, <2>3, <2>4 DEF PostAnswered
<1>12. CASE PostFails
    <2>1. /\ checkout' \in Checkouts /\ checkout'.shown = checkout.shown
          /\ checkout'.polled = checkout.polled
          /\ checkout'.key = checkout.key /\ checkout'.drawn = checkout.drawn
        BY <1>0, <1>12 DEF PostFails, Checkouts
    <2>2. AboutThis' /\ FailuresAreTrue'
        BY <1>0, <1>12, <2>1 DEF PostFails, CheckoutInv, AboutThis, FailuresAreTrue
    <2> QED
        BY <1>0, <1>10, <1>12, <2>1, <2>2 DEF PostFails, CheckoutTypeOK
<1>13. CASE Tick
    <2>1. checkout.polled = checkout.key /\ checkout.shown # None /\ post = None
        BY <1>13 DEF Tick, CheckoutInv, AboutThis
    <2>2. poll' \in Asked /\ poll'.key = checkout.key /\ poll'.answer = None
        BY <1>0, <1>13, <2>1 DEF Tick, Asked
    <2>3. AboutThis' /\ FailuresAreTrue'
        BY <1>0, <1>13, <2>1, <2>2
        DEF Tick, CheckoutInv, AboutThis, FailuresAreTrue, Dead, Status
    <2> QED
        BY <1>0, <1>10, <1>13, <2>2, <2>3 DEF Tick, CheckoutTypeOK
<1>14. CASE PollAnswered
    <2>1. /\ poll \in Asked /\ poll.key = checkout.key /\ poll.key \in Keys /\ post = None
          /\ poll.answer \in Status
        BY <1>0, <1>14 DEF PollAnswered, CheckoutInv, AboutThis, CheckoutTypeOK, Asked
    <2> DEFINE known == [key |-> poll.key, status |-> poll.answer]
    <2>2. known \in Known /\ known # None
        BY <2>1 DEF Known
    <2>3. /\ checkout' \in Checkouts /\ checkout'.shown = known
          /\ checkout'.polled \in {checkout.polled, None}
          /\ checkout'.key = checkout.key /\ checkout'.drawn = checkout.drawn
        BY <1>0, <1>14, <2>1, <2>2 DEF PollAnswered, Checkouts
    <2>4. AboutThis' /\ FailuresAreTrue'
        BY <1>0, <1>14, <2>1, <2>2, <2>3
        DEF PollAnswered, CheckoutInv, AboutThis, FailuresAreTrue
    <2> QED
        BY <1>0, <1>10, <1>14, <2>3, <2>4 DEF PollAnswered, CheckoutTypeOK
<1>15. CASE PollFails
    <2>1. /\ checkout' \in Checkouts /\ checkout'.shown = checkout.shown
          /\ checkout'.polled = None
          /\ checkout'.key = checkout.key /\ checkout'.drawn = checkout.drawn
        BY <1>0, <1>15 DEF PollFails, Checkouts
    <2>2. AboutThis' /\ FailuresAreTrue'
        BY <1>0, <1>15, <2>1 DEF PollFails, CheckoutInv, AboutThis, FailuresAreTrue
    <2> QED
        BY <1>0, <1>10, <1>15, <2>1, <2>2 DEF PollFails, CheckoutTypeOK
<1>16. CASE UNCHANGED checkoutVars
    BY <1>16
    DEF checkoutVars, CheckoutInv, CheckoutTypeOK, AboutThis, FailuresAreTrue, PaidAreDrawn,
        OneForAVisit, Rivals
<1> QED
    BY <1>1, <1>4, <1>5, <1>6, <1>7, <1>8, <1>9, <1>11, <1>12, <1>13, <1>14, <1>15, <1>16
    DEF CheckoutNext

\* Every variable stays in its set, whatever is lost and however often the page
\* is opened.
THEOREM CheckoutTypeCorrect == CheckoutSpec => []CheckoutTypeOK
<1>1. CheckoutInv => CheckoutTypeOK
    BY DEF CheckoutInv
<1> QED
    BY CheckoutInitial, CheckoutInductive, <1>1, PTL DEF CheckoutSpec

\* No more payments are under way or settled than the page was opened, however
\* often the buyer presses, answers are lost and attempts fail
\* (checkout.page.ts:264-268 and payments.service.ts:40-46).
THEOREM OnePaymentPerVisit == CheckoutSpec => []PaysOncePerVisit
<1>1. CheckoutInv => PaysOncePerVisit
    <2> SUFFICES ASSUME CheckoutInv PROVE PaysOncePerVisit
        OBVIOUS
    <2> DEFINE Worth == {k \in Keys : payments[k] \in {"INITIATED", "PENDING", "SUCCESSFUL"}}
    <2>1. Worth \subseteq Rivals \cup {checkout.key}
        BY DEF CheckoutInv, PaidAreDrawn, Rivals, Dead, Status
    <2>2. /\ IsFiniteSet(Rivals \cup {checkout.key})
          /\ Cardinality(Rivals \cup {checkout.key}) <= Cardinality(Rivals) + 1
        BY OthersAreFinite, OneMore DEF CheckoutInv
    <2>3. IsFiniteSet(Worth) /\ Cardinality(Worth) <= Cardinality(Rivals \cup {checkout.key})
        BY <2>1, <2>2, FS_Subset
    <2>4. /\ Cardinality(Worth) \in Nat /\ Cardinality(Rivals) \in Nat
          /\ Cardinality(Rivals \cup {checkout.key}) \in Nat
        BY <2>2, <2>3, OthersAreFinite, FS_CardinalityType DEF CheckoutInv
    <2> QED
        BY <2>2, <2>3, <2>4 DEF CheckoutInv, OneForAVisit, PaysOncePerVisit, CheckoutTypeOK
<1> QED
    BY CheckoutInitial, CheckoutInductive, <1>1, PTL DEF CheckoutSpec

-----------------------------------------------------------------------------
(* BuyerPages *)

HIDE CheckoutAssumption
USE BuyerAssumption

\* The search that is wanted is the last one.
CatalogTruth ==
    /\ searches \subseteq {catalog.searched}
    /\ ~catalog.loading /\ ~catalog.error => catalog.shown = catalog.searched

\* An invitation is redeemed once, by a visitor the server knows.
LandingTruth ==
    /\ visitor = "known" => member
    /\ landing.asked # "no" => visitor = "known"
    /\ ~landing.attempted => landing.asked = "no" /\ landing.result = "none"
    /\ ~landing.attempted \/ landing.asked = "asked" => token # "spent"
    /\ landing.asked = "refused" => token = "bad"
    /\ landing.result = "error" /\ ~landing.lost => token = "bad"

\* Questions have numbers of their own, and the newest is about the item of the page.
LoadsInOrder ==
    /\ view.last <= view.asked
    /\ view.loading => loads # {}
    /\ \A load \in loads : /\ load.n <= view.asked /\ load.n # view.last
                           /\ load.n = view.asked => load.id = view.id
                           /\ \A other \in loads : other.n = load.n => other = load

\* The newest is answered, or will be, or a message says that it was not.
NewestIsComing ==
    view.failed \/ view.last = view.asked \/ \E load \in loads : load.n = view.asked

\* What is said of the item is true, but for an enrolment that is to be told of yet.
Fits(said) ==
    /\ said.id = view.id
    /\ said.offer = "seat" => view.id \in seats
    /\ (/\ said.sure /\ view.id \in seats
        /\ enrolling = Nothing /\ ~view.actionError) => said.offer = "seat"

NewestIsTrue ==
    /\ \A load \in loads : load.n = view.asked /\ load.answer # Nothing => Fits(load.answer)
    /\ view.last = view.asked /\ ~view.overtaken => view.shown # Nothing /\ Fits(view.shown)

BuyerInv ==
    /\ BuyerTypeOK
    /\ CatalogTruth
    /\ LandingTruth
    /\ LoadsInOrder /\ NewestIsComing /\ NewestIsTrue

-----------------------------------------------------------------------------
\* A page that was just opened has asked one question.
LEMMA NewViewAsks ==
    ASSUME NEW kind \in {"class", "replay"}, NEW i \in Items, NEW mine \in BOOLEAN,
           view' = NewView(kind, i), loads' = {FirstLoad(i, mine)}
    PROVE  /\ view' \in Views /\ loads' \subseteq Loads
           /\ LoadsInOrder' /\ NewestIsComing' /\ NewestIsTrue'
<1>1. view' \in Views /\ FirstLoad(i, mine) \in Loads
    BY DEF NewView, Views, FirstLoad, Loads
<1>2. LoadsInOrder' /\ NewestIsComing'
    BY DEF NewView, FirstLoad, LoadsInOrder, NewestIsComing
<1>3. NewestIsTrue'
    BY DEF NewView, FirstLoad, NewestIsTrue
<1> QED
    BY <1>1, <1>2, <1>3

LEMMA BuyerInitial == BuyerInit => BuyerInv
<1> SUFFICES ASSUME BuyerInit PROVE BuyerInv
    OBVIOUS
<1>1. PICK kind \in {"class", "replay"}, i \in Items :
          view = NewView(kind, i) /\ loads = {FirstLoad(i, IsAuthenticated)}
    BY DEF BuyerInit
<1>2. view \in Views /\ loads \subseteq Loads
    BY <1>1 DEF NewView, Views, FirstLoad, Loads, IsAuthenticated
<1>3. LoadsInOrder /\ NewestIsComing
    BY <1>1 DEF NewView, FirstLoad, LoadsInOrder, NewestIsComing
<1>4. NewestIsTrue
    BY <1>1 DEF NewView, FirstLoad, NewestIsTrue
<1>5. catalog \in Catalogs /\ CatalogTruth
    BY DEF BuyerInit, Catalogs, CatalogTruth
<1>6. landing \in Landings /\ LandingTruth
    BY DEF BuyerInit, Landings, LandingTruth
<1>7. BuyerTypeOK
    BY <1>2, <1>5, <1>6 DEF BuyerInit, BuyerTypeOK
<1> QED
    BY <1>3, <1>4, <1>5, <1>6, <1>7 DEF BuyerInv

LEMMA CatalogStep == BuyerInv /\ CatalogNext => BuyerInv'
<1> SUFFICES ASSUME BuyerInv, CatalogNext PROVE BuyerInv'
    OBVIOUS
<1>0. catalog \in Catalogs /\ searches \subseteq Queries
    BY DEF BuyerInv, BuyerTypeOK
<1>1. catalog' \in Catalogs /\ searches' \subseteq Queries /\ CatalogTruth'
    <2>1. ASSUME NEW q \in Queries, Search(q)
          PROVE  catalog' \in Catalogs /\ searches' \subseteq Queries /\ CatalogTruth'
        BY <1>0, <2>1 DEF Search, Catalogs, CatalogTruth, BuyerInv
    <2>2. ASSUME NEW q \in Queries, Found(q)
          PROVE  catalog' \in Catalogs /\ searches' \subseteq Queries /\ CatalogTruth'
        BY <1>0, <2>2 DEF Found, Catalogs, CatalogTruth, BuyerInv
    <2>3. ASSUME NEW q \in Queries, SearchFails(q)
          PROVE  catalog' \in Catalogs /\ searches' \subseteq Queries /\ CatalogTruth'
        BY <1>0, <2>3 DEF SearchFails, Catalogs, CatalogTruth, BuyerInv
    <2>4. ASSUME Pause
          PROVE  catalog' \in Catalogs /\ searches' \subseteq Queries /\ CatalogTruth'
        BY <1>0, <2>4 DEF Pause, Wanted, Catalogs, CatalogTruth, BuyerInv
    <2> QED
        BY <2>1, <2>2, <2>3, <2>4 DEF CatalogNext
<1>2. UNCHANGED <<visitor, member, viewVars, landingVars>>
    BY DEF CatalogNext, Search, Found, SearchFails, Pause
<1>3. BuyerTypeOK'
    BY <1>1, <1>2 DEF BuyerInv, BuyerTypeOK, viewVars, landingVars
<1>4. LandingTruth'
    BY <1>2 DEF BuyerInv, LandingTruth, landingVars
<1>5. LoadsInOrder' /\ NewestIsComing' /\ NewestIsTrue'
    BY <1>2 DEF BuyerInv, LoadsInOrder, NewestIsComing, NewestIsTrue, Fits, viewVars
<1> QED
    BY <1>1, <1>3, <1>4, <1>5 DEF BuyerInv

LEMMA LandingStep == BuyerInv /\ LandingNext => BuyerInv'
<1> SUFFICES ASSUME BuyerInv, LandingNext PROVE BuyerInv'
    OBVIOUS
<1>0. landing \in Landings /\ token \in {"valid", "spent", "bad"} /\ LandingTruth
    BY DEF BuyerInv, BuyerTypeOK
<1>1. UNCHANGED <<visitor, member, catalogVars, viewVars>>
    BY DEF LandingNext, Redeem, HandleRedeem, Redeemed, RedeemFails
<1>2. landing' \in Landings /\ token' \in {"valid", "spent", "bad"} /\ LandingTruth'
    <2>1. ASSUME Redeem
          PROVE  landing' \in Landings /\ token' \in {"valid", "spent", "bad"} /\ LandingTruth'
        BY <1>0, <2>1 DEF Redeem, MayRedeem, Landings, LandingTruth
    <2>2. ASSUME HandleRedeem
          PROVE  landing' \in Landings /\ token' \in {"valid", "spent", "bad"} /\ LandingTruth'
        BY <1>0, <2>2 DEF HandleRedeem, Landings, LandingTruth
    <2>3. ASSUME Redeemed
          PROVE  landing' \in Landings /\ token' \in {"valid", "spent", "bad"} /\ LandingTruth'
        BY <1>0, <2>3 DEF Redeemed, Landings, LandingTruth
    <2>4. ASSUME RedeemFails
          PROVE  landing' \in Landings /\ token' \in {"valid", "spent", "bad"} /\ LandingTruth'
        BY <1>0, <2>4 DEF RedeemFails, Landings, LandingTruth
    <2> QED
        BY <2>1, <2>2, <2>3, <2>4 DEF LandingNext
<1>3. BuyerTypeOK'
    BY <1>1, <1>2 DEF BuyerInv, BuyerTypeOK, viewVars, catalogVars
<1>4. CatalogTruth'
    BY <1>1 DEF BuyerInv, CatalogTruth, catalogVars
<1>5. LoadsInOrder' /\ NewestIsComing' /\ NewestIsTrue'
    BY <1>1 DEF BuyerInv, LoadsInOrder, NewestIsComing, NewestIsTrue, Fits, viewVars
<1> QED
    BY <1>2, <1>3, <1>4, <1>5 DEF BuyerInv

\* A page that asks again has the answer to come.
LEMMA AskedAgain ==
    ASSUME BuyerInv, NEW page \in Views, NEW i \in Items, NEW mine \in BOOLEAN,
           page.asked = view.asked, page.last = view.last, Asks(page, i, mine)
    PROVE  /\ view' \in Views /\ loads' \subseteq Loads
           /\ LoadsInOrder' /\ NewestIsComing' /\ NewestIsTrue'
<1> DEFINE n == page.asked + 1
           new == [n |-> n, id |-> i, mine |-> mine, answer |-> Nothing]
<1>1. /\ view.asked \in Nat /\ view.last \in Nat /\ view.last <= view.asked
      /\ page.asked < MaxLoads /\ loads \subseteq Loads
      /\ \A load \in loads : load.n \in Nat
    BY DEF BuyerInv, BuyerTypeOK, Views, Loads, LoadsInOrder, Asks
<1>2. n \in 1..MaxLoads /\ n > view.asked
    BY <1>1
<1>3. new \in Loads /\ new.n = n /\ new.id = i /\ new.answer = Nothing /\ loads' = loads \cup {new}
    BY <1>2 DEF Asks, Loads
<1>4. /\ view' \in Views /\ view'.asked = n /\ view'.id = i /\ view'.last = view.last
    <2>1. view' = [page EXCEPT !.id = i, !.asked = n, !.loading = TRUE]
        BY DEF Asks
    <2>2. n \in 0..MaxLoads
        BY <1>2
    <2> HIDE DEF n
    <2> QED
        BY <2>1, <2>2 DEF Views
<1> HIDE DEF n, new
<1>5. \A load \in loads : load.n < n
    BY <1>1, <1>2 DEF BuyerInv, LoadsInOrder
<1>6. LoadsInOrder'
    <2>1. n \in Nat
        BY <1>2
    <2>2. view'.last <= view'.asked /\ loads' # {}
        BY <1>1, <1>2, <1>3, <1>4, <2>1
    <2>3. ASSUME NEW load \in loads'
          PROVE  /\ load.n <= view'.asked /\ load.n # view'.last
                 /\ load.n = view'.asked => load.id = view'.id
                 /\ \A other \in loads' : other.n = load.n => other = load
        <3>1. CASE load = new
            BY <1>1, <1>2, <1>3, <1>4, <1>5, <2>1, <3>1
        <3>2. CASE load \in loads
            BY <1>1, <1>2, <1>3, <1>4, <1>5, <2>1, <3>2 DEF BuyerInv, LoadsInOrder
        <3> QED
            BY <1>3, <3>1, <3>2
    <2> QED
        BY <2>2, <2>3 DEF LoadsInOrder
<1>7. NewestIsComing'
    BY <1>3, <1>4 DEF NewestIsComing
<1>8. NewestIsTrue'
    BY <1>1, <1>2, <1>3, <1>4, <1>5 DEF NewestIsTrue
<1> QED
    BY <1>1, <1>3, <1>4, <1>6, <1>7, <1>8


LEMMA ViewStep == BuyerInv /\ ViewNext => BuyerInv'
<1> SUFFICES ASSUME BuyerInv, ViewNext PROVE BuyerInv'
    OBVIOUS
<1>0. /\ view \in Views /\ loads \subseteq Loads /\ seats \subseteq Items
      /\ enrolling \in Enrolments \cup {Nothing} /\ IsAuthenticated \in BOOLEAN
      /\ view.asked \in Nat /\ view.last \in Nat /\ view.id \in Items
      /\ \A load \in loads : load.n \in 1..MaxLoads /\ load.n \in Nat
    BY DEF BuyerInv, BuyerTypeOK, IsAuthenticated, Views, Loads
<1>1. UNCHANGED <<visitor, member, catalogVars, landingVars>>
    BY DEF ViewNext, Turn, HandleLoad, Loaded, LoadFails, Enroll, HandleEnroll, EnrollAnswered,
           EnrollFails
<1>2. ASSUME view' \in Views, loads' \subseteq Loads, seats' \subseteq Items,
             enrolling' \in Enrolments \cup {Nothing},
             LoadsInOrder', NewestIsComing', NewestIsTrue'
      PROVE  BuyerInv'
    <2>1. BuyerTypeOK'
        BY <1>1, <1>2 DEF BuyerInv, BuyerTypeOK, catalogVars, landingVars
    <2>2. CatalogTruth' /\ LandingTruth'
        BY <1>1 DEF BuyerInv, CatalogTruth, LandingTruth, catalogVars, landingVars
    <2> QED
        BY <1>2, <2>1, <2>2 DEF BuyerInv
<1>3. ASSUME NEW i \in Items, Turn(i) PROVE BuyerInv'
    <2>1. Asks(view, i, IsAuthenticated) /\ UNCHANGED <<seats, enrolling>>
        BY <1>3 DEF Turn
    <2>2. /\ view' \in Views /\ loads' \subseteq Loads
          /\ LoadsInOrder' /\ NewestIsComing' /\ NewestIsTrue'
        BY <1>0, <2>1, AskedAgain
    <2> QED
        BY <1>0, <1>2, <2>1, <2>2
<1>4. ASSUME NEW load \in loads, HandleLoad(load) PROVE BuyerInv'
    <2>1. PICK said \in Truths(load) :
              loads' = (loads \ {load}) \cup {[load EXCEPT !.answer = said]}
        BY <1>4 DEF HandleLoad
    <2> DEFINE told == [load EXCEPT !.answer = said]
    <2>2. /\ told \in Loads /\ told.n = load.n /\ told.id = load.id /\ told.answer = said
        BY <1>0, <2>1 DEF Loads, Truths
    <2>3. UNCHANGED <<view, seats, enrolling>> /\ loads' = (loads \ {load}) \cup {told}
        BY <1>4, <2>1 DEF HandleLoad
    <2> HIDE DEF told
    <2>4. LoadsInOrder'
        BY <2>2, <2>3 DEF BuyerInv, LoadsInOrder
    <2>5. NewestIsComing'
        BY <2>2, <2>3 DEF BuyerInv, NewestIsComing
    <2>6. load.n = view.asked => Fits(said)
        BY <1>0, <2>1 DEF BuyerInv, LoadsInOrder, Truths, Fits
    <2>7. NewestIsTrue'
        BY <2>2, <2>3, <2>6 DEF BuyerInv, NewestIsTrue, Fits
    <2> QED
        BY <1>0, <1>2, <2>2, <2>3, <2>4, <2>5, <2>7
<1>5. ASSUME NEW load \in loads, Loaded(load) PROVE BuyerInv'
    <2>1. /\ load.answer # Nothing /\ load.answer \in Said /\ loads' = loads \ {load}
          /\ load.n \in Nat /\ load.n \in 0..MaxLoads
          /\ load.n <= view.asked /\ load.n # view.last
        BY <1>0, <1>5 DEF Loaded, Loads, BuyerInv, LoadsInOrder
    <2>2. UNCHANGED <<seats, enrolling>>
        BY <1>5 DEF Loaded
    <2>3. /\ view' \in Views /\ view'.shown = load.answer /\ view'.loading = FALSE
          /\ view'.last = (IF load.n > view.last THEN load.n ELSE view.last)
          /\ view'.overtaken = (load.n < view.last)
          /\ view'.id = view.id /\ view'.asked = view.asked /\ view'.failed = view.failed
          /\ view'.actionError = view.actionError
        <3> DEFINE late == load.n < view.last
        <3>1. late \in BOOLEAN
            OBVIOUS
        <3>2. view' = [view EXCEPT !.shown = load.answer, !.loading = FALSE,
                                   !.last = IF load.n > @ THEN load.n ELSE @,
                                   !.overtaken = late]
            BY <1>5 DEF Loaded
        <3> HIDE DEF late
        <3>3. /\ view' \in Views /\ view'.shown = load.answer /\ view'.loading = FALSE
              /\ view'.last = (IF load.n > view.last THEN load.n ELSE view.last)
              /\ view'.overtaken = late
              /\ view'.id = view.id /\ view'.asked = view.asked /\ view'.failed = view.failed
              /\ view'.actionError = view.actionError
            BY <1>0, <2>1, <3>1, <3>2 DEF Views
        <3> QED
            BY <3>3 DEF late
    <2>4. view.last <= view.asked
        BY DEF BuyerInv, LoadsInOrder
    <2>5. LoadsInOrder'
        <3>1. view'.last <= view'.asked
            BY <1>0, <2>1, <2>3, <2>4
        <3>2. ASSUME NEW k \in loads'
              PROVE  /\ k.n <= view'.asked /\ k.n # view'.last
                     /\ k.n = view'.asked => k.id = view'.id
                     /\ \A other \in loads' : other.n = k.n => other = k
            <4>1. k \in loads /\ k # load /\ view'.asked = view.asked /\ view'.id = view.id
                BY <2>1, <2>3, <3>2
            <4>2. k.n # load.n /\ k.n # view.last
                BY <4>1 DEF BuyerInv, LoadsInOrder
            <4>3. k.n # view'.last
                BY <2>3, <4>2
            <4>4. k.n <= view.asked /\ (k.n = view.asked => k.id = view.id)
                BY <4>1 DEF BuyerInv, LoadsInOrder
            <4>5. \A other \in loads' : other.n = k.n => other = k
                BY <2>1, <4>1 DEF BuyerInv, LoadsInOrder
            <4> QED
                BY <4>1, <4>3, <4>4, <4>5
        <3>3. ~view'.loading
            BY <2>3
        <3> QED
            BY <3>1, <3>2, <3>3 DEF LoadsInOrder
    <2>6. NewestIsComing'
        <3>1. CASE load.n = view.asked
            BY <1>0, <2>1, <2>3, <2>4, <3>1 DEF NewestIsComing
        <3>2. CASE load.n # view.asked
            <4>1. view.last = view.asked => view'.last = view'.asked
                BY <1>0, <2>1, <2>3, <2>4
            <4> QED
                BY <2>1, <2>3, <3>2, <4>1 DEF BuyerInv, NewestIsComing
        <3> QED
            BY <3>1, <3>2
    <2>7. NewestIsTrue'
        <3>1. \A k \in loads' : k.n = view'.asked /\ k.answer # Nothing => Fits(k.answer)'
            BY <2>1, <2>2, <2>3 DEF BuyerInv, NewestIsTrue, Fits
        <3>2. ASSUME view'.last = view'.asked, ~view'.overtaken
              PROVE  load.n = view.asked
            <4>1. ~(load.n < view.last)
                BY <2>3, <3>2
            <4>2. load.n > view.last
                BY <1>0, <2>1, <4>1
            <4> QED
                BY <2>3, <3>2, <4>2
        <3>3. ASSUME load.n = view.asked PROVE Fits(view.shown)'
            BY <2>1, <2>2, <2>3, <3>3 DEF BuyerInv, NewestIsTrue, Fits
        <3>4. view'.shown # Nothing
            BY <2>1, <2>3
        <3> QED
            BY <3>1, <3>2, <3>3, <3>4 DEF NewestIsTrue
    <2> QED
        BY <1>0, <1>2, <2>1, <2>2, <2>3, <2>5, <2>6, <2>7
<1>6. ASSUME NEW load \in loads, LoadFails(load) PROVE BuyerInv'
    <2>1. loads' = loads \ {load} /\ UNCHANGED <<seats, enrolling>>
        BY <1>6 DEF LoadFails
    <2>2. /\ view' \in Views /\ view'.failed /\ ~view'.loading
          /\ view'.id = view.id /\ view'.asked = view.asked /\ view'.last = view.last
          /\ view'.shown = view.shown /\ view'.overtaken = view.overtaken
          /\ view'.actionError = view.actionError
        BY <1>0, <1>6 DEF LoadFails, Views
    <2>3. LoadsInOrder' /\ NewestIsComing'
        BY <2>1, <2>2 DEF BuyerInv, LoadsInOrder, NewestIsComing
    <2>4. NewestIsTrue'
        BY <2>1, <2>2 DEF BuyerInv, NewestIsTrue, Fits
    <2> QED
        BY <1>0, <1>2, <2>1, <2>2, <2>3, <2>4
\* What was true of the item stays so while an enrolment is under way, or failed.
<1>7. ASSUME view' \in Views, UNCHANGED loads, seats \subseteq seats',
             view'.id = view.id, view'.asked = view.asked, view'.last = view.last,
             view'.shown = view.shown, view'.overtaken = view.overtaken,
             view'.failed = view.failed, view'.loading = view.loading,
             enrolling' # Nothing \/ view'.actionError
      PROVE  LoadsInOrder' /\ NewestIsComing' /\ NewestIsTrue'
    <2>1. LoadsInOrder' /\ NewestIsComing'
        BY <1>7 DEF BuyerInv, LoadsInOrder, NewestIsComing
    <2>2. NewestIsTrue'
        BY <1>7 DEF BuyerInv, NewestIsTrue, Fits
    <2> QED
        BY <2>1, <2>2
<1>8. CASE Enroll
    <2>1. /\ enrolling' = [id |-> view.id, answer |-> "asked"] /\ UNCHANGED <<seats, loads>>
          /\ view' = [view EXCEPT !.working = TRUE, !.actionError = FALSE]
        BY <1>8 DEF Enroll
    <2>2. enrolling' \in Enrolments /\ enrolling' # Nothing
        <3>1. enrolling' \in Enrolments
            BY <1>0, <2>1 DEF Enrolments
        <3> QED
            BY <3>1
    <2>3. /\ view' \in Views /\ view'.id = view.id /\ view'.asked = view.asked
          /\ view'.last = view.last /\ view'.shown = view.shown
          /\ view'.overtaken = view.overtaken /\ view'.failed = view.failed
          /\ view'.loading = view.loading
        BY <1>0, <2>1 DEF Views
    <2> QED
        BY <1>0, <1>2, <1>7, <2>1, <2>2, <2>3
<1>9. CASE HandleEnroll
    <2>1. /\ enrolling \in Enrolments /\ UNCHANGED <<view, loads>>
          /\ seats \subseteq seats' /\ seats' \subseteq seats \cup {enrolling.id}
          /\ \E a \in {"enrolled", "refused"} : enrolling' = [enrolling EXCEPT !.answer = a]
        BY <1>0, <1>9 DEF HandleEnroll
    <2>2. enrolling' \in Enrolments /\ enrolling' # Nothing /\ seats' \subseteq Items
        <3>1. enrolling' \in Enrolments /\ enrolling.id \in Items
            BY <2>1 DEF Enrolments
        <3> QED
            BY <1>0, <2>1, <3>1
    <2> QED
        BY <1>0, <1>2, <1>7, <2>1, <2>2
<1>10. CASE EnrollAnswered
    <2>1. /\ Asks([view EXCEPT !.working = FALSE], view.id, IsAuthenticated)
          /\ enrolling' = Nothing /\ UNCHANGED seats
        BY <1>10 DEF EnrollAnswered, Enrolled
    <2>2. /\ [view EXCEPT !.working = FALSE] \in Views
          /\ [view EXCEPT !.working = FALSE].asked = view.asked
          /\ [view EXCEPT !.working = FALSE].last = view.last
        BY <1>0 DEF Views
    <2>3. /\ view' \in Views /\ loads' \subseteq Loads
          /\ LoadsInOrder' /\ NewestIsComing' /\ NewestIsTrue'
        BY <1>0, <2>1, <2>2, AskedAgain
    <2> QED
        BY <1>0, <1>2, <2>1, <2>3
<1>11. CASE EnrollFails
    <2>1. /\ enrolling' = Nothing /\ UNCHANGED <<seats, loads>>
          /\ view' = [view EXCEPT !.working = FALSE, !.actionError = TRUE]
        BY <1>11 DEF EnrollFails
    <2>2. /\ view' \in Views /\ view'.id = view.id /\ view'.asked = view.asked
          /\ view'.last = view.last /\ view'.shown = view.shown
          /\ view'.overtaken = view.overtaken /\ view'.failed = view.failed
          /\ view'.loading = view.loading /\ view'.actionError
        BY <1>0, <2>1 DEF Views
    <2> QED
        BY <1>0, <1>2, <1>7, <2>1, <2>2
<1> QED
    BY <1>3, <1>4, <1>5, <1>6, <1>8, <1>9, <1>10, <1>11 DEF ViewNext

LEMMA VisitorStep == BuyerInv /\ VisitorNext => BuyerInv'
<1> SUFFICES ASSUME BuyerInv, VisitorNext PROVE BuyerInv'
    OBVIOUS
<1>0. view \in Views /\ view.id \in Items /\ view.kind \in {"class", "replay"} /\ LandingTruth
    BY DEF BuyerInv, BuyerTypeOK, Views
<1>1. UNCHANGED <<catalogVars, landingVars, enrolling, seats>>
    BY DEF VisitorNext, IsOut, IsIn, SignIn, HandleSync, Synced, viewVars
<1>2. visitor' \in Visitors /\ member' \in BOOLEAN /\ LandingTruth'
    BY <1>0, <1>1
    DEF VisitorNext, IsOut, IsIn, SignIn, HandleSync, Synced, LandingTruth, Visitors, BuyerInv,
        BuyerTypeOK, landingVars
<1>3. /\ view' \in Views /\ loads' \subseteq Loads
      /\ LoadsInOrder' /\ NewestIsComing' /\ NewestIsTrue'
    <2>1. CASE IsIn
        BY <1>0, <2>1, AskedAgain DEF IsIn
    <2>2. CASE SignIn
        BY <1>0, <2>2, NewViewAsks DEF SignIn
    <2>3. CASE UNCHANGED viewVars
        BY <2>3 DEF viewVars, BuyerInv, BuyerTypeOK, LoadsInOrder, NewestIsComing, NewestIsTrue,
                    Fits
    <2> QED
        BY <2>1, <2>2, <2>3 DEF VisitorNext, IsOut, HandleSync, Synced
<1>4. BuyerTypeOK'
    BY <1>1, <1>2, <1>3 DEF BuyerInv, BuyerTypeOK, catalogVars, landingVars
<1>5. CatalogTruth'
    BY <1>1 DEF BuyerInv, CatalogTruth, catalogVars
<1> QED
    BY <1>2, <1>3, <1>4, <1>5 DEF BuyerInv

LEMMA BuyerInductive == BuyerInv /\ [BuyerNext]_buyerVars => BuyerInv'
<1> SUFFICES ASSUME BuyerInv, [BuyerNext]_buyerVars PROVE BuyerInv'
    OBVIOUS
<1>1. CASE UNCHANGED buyerVars
    BY <1>1
    DEF buyerVars, BuyerInv, BuyerTypeOK, CatalogTruth, LandingTruth, LoadsInOrder,
        NewestIsComing, NewestIsTrue, Fits
<1> QED
    BY <1>1, CatalogStep, ViewStep, LandingStep, VisitorStep DEF BuyerNext

\* With no question open and no answer overtaken or in error, a page shows the item
\* and the search it is about, and its viewer's seat, however the route, the sign-in,
\* an enrolment and their answers interleave (catalog.page.ts:173-175,
\* classroom-detail.page.ts:16-20).
THEOREM PagesShowTheLatest == BuyerSpec => []LatestIsShown
<1>1. BuyerInv => LatestIsShown
    <2> SUFFICES ASSUME BuyerInv PROVE LatestIsShown
        OBVIOUS
    <2>1. ~catalog.loading /\ ~catalog.error => catalog.shown = catalog.searched
        BY DEF BuyerInv, CatalogTruth
    <2>2. ASSUME loads = {}, enrolling = Nothing, ~view.overtaken, ~view.failed,
                 ~view.actionError
          PROVE  /\ view.shown.id = view.id
                 /\ view.shown.offer = "seat" => view.id \in seats
                 /\ IsAuthenticated /\ view.shown.sure /\ view.id \in seats => Offered = "seat"
        <3>1. view.shown # Nothing /\ Fits(view.shown) /\ ~view.loading
            BY <2>2 DEF BuyerInv, NewestIsComing, NewestIsTrue, LoadsInOrder
        <3> QED
            BY <2>2, <3>1 DEF Fits, Offered
    <2> QED
        BY <2>1, <2>2 DEF LatestIsShown
<1> QED
    BY BuyerInitial, BuyerInductive, <1>1, PTL DEF BuyerSpec

\* A good invitation is answered with an error only if its answer is lost, however
\* signing in and its sync interleave with redeeming it
\* (invitation-landing.page.ts:111-124).
THEOREM InvitationsAreNotWasted == BuyerSpec => []InvitationIsNotWasted
<1>1. BuyerInv => InvitationIsNotWasted
    BY DEF BuyerInv, LandingTruth, InvitationIsNotWasted
<1> QED
    BY BuyerInitial, BuyerInductive, <1>1, PTL DEF BuyerSpec

\* The pages a buyer reads keep their types (classroom-detail.page.ts:226-245).
THEOREM BuyerTypeCorrect == BuyerSpec => []BuyerTypeOK
<1>1. BuyerInv => BuyerTypeOK
    BY DEF BuyerInv
<1> QED
    BY BuyerInitial, BuyerInductive, <1>1, PTL DEF BuyerSpec

====
