---- MODULE Identity ----
(***************************************************************************)
(* Who a signed-in visitor is: the User table, provisioned from Auth0's    *)
(* identities by AuthService (apps/api/src/auth/auth.service.ts), and the  *)
(* account page of one of them, with the AuthStore behind it               *)
(* (core/auth/auth-store.ts, features/account/account.page.ts).  Handlers  *)
(* interleave at every await; identities may claim the same address.       *)
(***************************************************************************)
EXTENDS FiniteSets

CONSTANTS
    Rows,       \* ids a User row may get
    Subs,       \* Auth0 identities
    Emails,
    Seeded,     \* rows that exist before anyone signs in, with their address
    Calls,      \* HTTP requests
    Tab,        \* the request of the page that is looked at
    Me,         \* and the identity signed in there
    Null        \* no value

ASSUME IdentityAssumption ==
    /\ Tab \in Calls
    /\ Me \in Subs
    /\ DOMAIN Seeded \subseteq Rows
    /\ \A i \in DOMAIN Seeded : Seeded[i] \in Emails
    /\ Null \notin Rows \cup Subs

VARIABLES
    users,      \* the User table
    calls,      \* what each request is doing
    account     \* the account page and the AuthStore

identityVars == <<users, calls, account>>

\* A row that does not exist.
NoUser == [sub |-> Null, email |-> Null, name |-> "none", verified |-> FALSE]

\* name: as Auth0 claims it, or as the user chose it
Users == [sub : Subs \cup {Null}, email : Emails, name : {"claimed", "chosen"}, verified : BOOLEAN]

Unasked == [pc |-> "idle"]

\* verified: the claim of the token; was: what the row held when it was read
Steps == {Unasked}
    \cup [pc : {"sub", "email", "create"}, sub : Subs, email : Emails, verified : BOOLEAN]
    \cup [pc : {"refresh", "link"}, sub : Subs, email : Emails, verified : BOOLEAN,
          row : Rows, was : Users]
    \cup [pc : {"profile"}, sub : Subs]
    \cup [pc : {"save"}, row : Rows]

\* profile: currentUser is there; form: untouched, filled from the profile, or
\* typed into; reply: what came back to the page and was not taken up yet.
Pages == [asked : BOOLEAN, profile : BOOLEAN, form : {"empty", "filled", "typed"},
          saving : BOOLEAN, reply : {"none", "synced", "saved", "failed"}]

NewPage == [asked |-> FALSE, profile |-> FALSE, form |-> "empty", saving |-> FALSE,
            reply |-> "none"]

IdentityTypeOK ==
    /\ users \in [Rows -> Users \cup {NoUser}]
    /\ calls \in [Calls -> Steps]
    /\ account \in Pages

IdentityInit ==
    /\ users = [i \in Rows |-> IF i \in DOMAIN Seeded
                               THEN [NoUser EXCEPT !.email = Seeded[i], !.name = "claimed",
                                                    !.verified = TRUE]
                               ELSE NoUser]
    /\ calls = [c \in Calls |-> Unasked]
    /\ account = NewPage

-----------------------------------------------------------------------------
(* Helpers *)

\* findUnique by the identity, and by the address.
BySub(sub) == {i \in Rows : users[i] # NoUser /\ users[i].sub = sub}

ByEmail(email) == {i \in Rows : users[i] # NoUser /\ users[i].email = email}

Goes(c, step) == calls' = [calls EXCEPT ![c] = step]

\* The request is over: the page hears of it if it was its own.
Ends(c, reply) ==
    /\ Goes(c, Unasked)
    /\ account' = IF c = Tab THEN [account EXCEPT !.reply = reply] ELSE account

resolveEmailVerifiedAt(claim, was) == was \/ claim

-----------------------------------------------------------------------------
(* syncUser *)

Sync(c, sub, email, verified) ==
    /\ calls[c] = Unasked
    /\ Goes(c, [pc |-> "sub", sub |-> sub, email |-> email, verified |-> verified])
    /\ UNCHANGED users

\* A request of another page, or of nobody's.
SyncElsewhere(c, sub, email, verified) ==
    c # Tab /\ Sync(c, sub, email, verified) /\ UNCHANGED account

Read(c, pc, i) ==
    [pc |-> pc, sub |-> calls[c].sub, email |-> calls[c].email, verified |-> calls[c].verified,
     row |-> i, was |-> users[i]]

FindBySub(c) ==
    /\ calls[c].pc = "sub"
    /\ \/ \E i \in BySub(calls[c].sub) : Goes(c, Read(c, "refresh", i))
       \/ BySub(calls[c].sub) = {} /\ Goes(c, [calls[c] EXCEPT !.pc = "email"])
    /\ UNCHANGED <<users, account>>

\* Mutant of MayLink: the address decides, whoever owns the row.
MayLinkAny(i) == users[i].email # Null

\* Only a row that belongs to nobody may be claimed.
MayLink(i) == users[i].sub = Null

FindByEmail(c) ==
    /\ calls[c].pc = "email"
    /\ \/ \E i \in ByEmail(calls[c].email) :
              IF MayLink(i) THEN Goes(c, Read(c, "link", i)) /\ UNCHANGED account
                            ELSE Ends(c, "failed")
       \/ /\ ByEmail(calls[c].email) = {}
          /\ Goes(c, [calls[c] EXCEPT !.pc = "create"])
          /\ UNCHANGED account
    /\ UNCHANGED users

\* update by id: what is not written keeps its value of now.
Write(c, row) ==
    /\ users' = [users EXCEPT ![calls[c].row] = row]
    /\ Ends(c, "synced")

\* email is unique: another row's address is refused.
Refresh(c) ==
    LET i == calls[c].row IN
    /\ calls[c].pc = "refresh"
    /\ IF ByEmail(calls[c].email) \subseteq {i}
       THEN Write(c, [users[i] EXCEPT
                !.email = calls[c].email, !.name = "claimed",
                !.verified = resolveEmailVerifiedAt(calls[c].verified, calls[c].was.verified)])
       ELSE Ends(c, "failed") /\ UNCHANGED users

\* auth0Sub is unique: an identity that got a row meanwhile is refused.
Link(c) ==
    LET i == calls[c].row IN
    /\ calls[c].pc = "link"
    /\ IF BySub(calls[c].sub) \subseteq {i}
       THEN Write(c, [users[i] EXCEPT
                !.sub = calls[c].sub, !.name = "claimed",
                !.verified = resolveEmailVerifiedAt(calls[c].verified, calls[c].was.verified)])
       ELSE Ends(c, "failed") /\ UNCHANGED users

Create(c) ==
    /\ calls[c].pc = "create"
    /\ IF BySub(calls[c].sub) = {} /\ ByEmail(calls[c].email) = {}
       THEN /\ \E i \in Rows :
                   /\ users[i] = NoUser
                   /\ users' = [users EXCEPT ![i] =
                          [sub |-> calls[c].sub, email |-> calls[c].email, name |-> "claimed",
                           verified |-> calls[c].verified]]
            /\ Ends(c, "synced")
       ELSE Ends(c, "failed") /\ UNCHANGED users

-----------------------------------------------------------------------------
(* updateProfile *)

FindProfile(c) ==
    /\ calls[c].pc = "profile"
    /\ \/ \E i \in BySub(calls[c].sub) :
              Goes(c, [pc |-> "save", row |-> i]) /\ UNCHANGED account
       \/ BySub(calls[c].sub) = {} /\ Ends(c, "failed")
    /\ UNCHANGED users

SaveProfile(c) ==
    /\ calls[c].pc = "save"
    /\ users' = [users EXCEPT ![calls[c].row].name = "chosen"]
    /\ Ends(c, "saved")

\* A request fails before its next statement.
Fails(c) ==
    /\ calls[c] # Unasked
    /\ Ends(c, "failed")
    /\ UNCHANGED users

\* The answer is lost on its way to the page.
LoseReply ==
    /\ account.reply \in {"synced", "saved"}
    /\ account' = [account EXCEPT !.reply = "failed"]
    /\ UNCHANGED <<users, calls>>

-----------------------------------------------------------------------------
(* The AuthStore and the account page *)

\* Auth0 says who is signed in: the effect syncs, once; a sync that fails is
\* not tried again.
SignedIn ==
    /\ ~account.asked
    /\ \E email \in Emails, verified \in BOOLEAN : Sync(Tab, Me, email, verified)
    /\ account' = [account EXCEPT !.asked = TRUE]

\* The form is filled when the profile first arrives, and never again.
Filled == IF account.form = "empty" THEN "filled" ELSE account.form

ProfileArrives ==
    /\ account.reply = "synced"
    /\ account' = [account EXCEPT !.profile = TRUE, !.form = Filled, !.reply = "none"]
    /\ UNCHANGED <<users, calls>>

\* The user types, while a save is under way too.
Type ==
    /\ account.form # "empty"
    /\ account' = [account EXCEPT !.form = "typed"]
    /\ UNCHANGED <<users, calls>>

Save ==
    /\ account.form = "typed"
    /\ ~account.saving
    /\ calls[Tab] = Unasked
    /\ Goes(Tab, [pc |-> "profile", sub |-> Me])
    /\ account' = [account EXCEPT !.saving = TRUE]
    /\ UNCHANGED users

\* The store takes the profile; the effect of the page runs again.
Saved ==
    /\ account.reply = "saved"
    /\ account' = [account EXCEPT !.saving = FALSE, !.form = Filled, !.reply = "none"]
    /\ UNCHANGED <<users, calls>>

Failed ==
    /\ account.reply = "failed"
    /\ account' = [account EXCEPT !.saving = FALSE, !.reply = "none"]
    /\ UNCHANGED <<users, calls>>

\* The page is loaded again, with nothing under way.
Reload ==
    /\ calls[Tab] = Unasked
    /\ account' = NewPage
    /\ UNCHANGED <<users, calls>>

IdentityNext ==
    \/ \E c \in Calls, sub \in Subs, email \in Emails, verified \in BOOLEAN :
           SyncElsewhere(c, sub, email, verified)
    \/ \E c \in Calls :
           \/ FindBySub(c) \/ FindByEmail(c) \/ Refresh(c) \/ Link(c) \/ Create(c)
           \/ FindProfile(c) \/ SaveProfile(c) \/ Fails(c)
    \/ SignedIn \/ ProfileArrives \/ Type \/ Save \/ Saved \/ Failed \/ LoseReply \/ Reload

IdentitySpec == IdentityInit /\ [][IdentityNext]_identityVars

-----------------------------------------------------------------------------
(* Properties *)

\* Linked, and no request that read the row without an owner is about to link it.
IsOwned(i) ==
    /\ users[i].sub # Null
    /\ ~\E c \in Calls : calls[c].pc = "link" /\ calls[c].row = i

\* Verified, and no request that read the row unverified is about to write it.
IsVerified(i) ==
    /\ users[i].verified
    /\ ~\E c \in Calls : /\ calls[c].pc \in {"refresh", "link"} /\ calls[c].row = i
                         /\ ~calls[c].was.verified

\* A row that has an owner is never given to another identity, and an address that is
\* verified stays so, for good, whatever comes and overlaps from then on
\* (auth.service.ts:31-35 and 140-145).
IdentityIsKept ==
    [][\A i \in Rows :
          /\ IsOwned(i) => IsOwned(i)' /\ users'[i].sub = users[i].sub
          /\ IsVerified(i) => IsVerified(i)']_identityVars

\* What the user types is never overwritten by a profile that arrives late
\* (account.page.ts:336-345).
TypedIsKept ==
    account.form = "typed" => account'.form = "typed" \/ account' = NewPage

\* Linking "only ever attaches an identity to a row whose auth0Sub is still null"
\* (README.md:181-182), whatever overlaps.
LinkIsKept == [][\A i \in Rows : users[i].sub # Null => users'[i].sub = users[i].sub]_identityVars

\* A sync never "unsets a verification that already happened"
\* (auth.service.ts:140-143), whatever overlaps.
VerificationIsKept == [][\A i \in Rows : users[i].verified => users'[i].verified]_identityVars

====
