------------------------------ MODULE Accounts ------------------------------
(***************************************************************************)
(* Accounts and how one signs in (internal/modules/auth, user and admin):  *)
(* registration, one-time codes, Google, and the administrators who turn   *)
(* accounts off.  A request is a sequence of statements, and any two run   *)
(* at once.  Passwords, wrong codes and expiry only refuse a request, or   *)
(* leave a challenge or an OAuth state unused, and are left out, as is the *)
(* password login, which is one read.                                      *)
(***************************************************************************)
EXTENDS RequestBase, Naturals, FiniteSets

CONSTANTS
  Emails,      \* addresses, unique among users: they stand for the accounts
  Seeded,      \* the administrators the installation starts with
  Subs,        \* Google accounts
  Tickets,     \* OAuth states and one-time code challenges (bound)
  Used         \* a ticket that is consumed

ASSUME AccountsAssumption == Seeded \subseteq Emails /\ None \notin Emails \cup Subs \cup Tickets \cup {Used}

VARIABLES
  user,       \* [Emails -> [role, active]], role "NONE" without a row
  identity,   \* [Subs -> Emails or None], auth_oauth_identities
  gmail,      \* [Subs -> Emails], external: the address Google reports
  ticket,     \* [Tickets -> Intent, Challenge, None or Used], auth_oauth_states and
              \* auth_otp_challenges: what a row asks for, until it is consumed
  request,    \* [Calls -> what a request has read]
  raced       \* history: two status changes of administrators overlapped

accountVars == <<user, identity, gmail, ticket, request, raced>>

Public == {"CUSTOMER", "VENDOR"}
Modes == {"login", "signup"}
Intent == [role : Public, mode : Modes]
Challenge == [purpose : {"login"}, email : Emails, role : {"NONE"}]
             \cup [purpose : {"signup"}, email : Emails, role : Public]

ASSUME TicketAssumption == {None, Used} \cap (Intent \cup Challenge) = {}

NoRequest ==
  [at |-> "idle", email |-> None, role |-> "NONE", seen |-> "NONE", on |-> FALSE,
   sub |-> None, mode |-> "login", ticket |-> None]

AccountsInit ==
  /\ user = [e \in Emails |-> [role |-> IF e \in Seeded THEN "ADMIN" ELSE "NONE", active |-> e \in Seeded]]
  /\ identity = [g \in Subs |-> None]
  /\ gmail \in [Subs -> Emails]
  /\ ticket = [t \in Tickets |-> None]
  /\ request = [c \in Calls |-> NoRequest]
  /\ raced = FALSE

Known(e) == user[e].role # "NONE"
Insert(e, role) == user' = [user EXCEPT ![e] = [role |-> role, active |-> TRUE]]
At(c, at) == request[c].at = at
Becomes(c, r) == request' = [request EXCEPT ![c] = r]
Done(c) == Becomes(c, NoRequest)

-----------------------------------------------------------------------------
(* Requests of one statement. *)

\* A duplicate is refused by users_email_key.
RegisterUser(e, role) ==
  /\ ~Known(e) /\ role \in Public
  /\ Insert(e, role)
  /\ UNCHANGED <<identity, gmail, ticket, request, raced>>

CreateAdministrator(e) ==
  /\ ~Known(e)
  /\ Insert(e, "ADMIN")
  /\ UNCHANGED <<identity, gmail, ticket, request, raced>>

GoogleAuthURL(t, intent) ==
  /\ ticket[t] = None
  /\ ticket' = [ticket EXCEPT ![t] = intent]
  /\ UNCHANGED <<user, identity, gmail, request, raced>>

\* A login code goes to an active account, a signup code to an address without one.
RequestOTP(t, asked) ==
  LET e == asked.email IN
  /\ ticket[t] = None
  /\ IF asked.purpose = "login" THEN Known(e) /\ user[e].active ELSE ~Known(e)
  /\ ticket' = [ticket EXCEPT ![t] = asked]
  /\ UNCHANGED <<user, identity, gmail, request, raced>>

\* External: the address of a Google account is changed.
RenameGoogle(g, e) ==
  /\ gmail' = [gmail EXCEPT ![g] = e]
  /\ UNCHANGED <<user, identity, ticket, request, raced>>

-----------------------------------------------------------------------------
(* HandleGoogleCallback. *)

\* ConsumeState lets one callback through; then Google is asked who it is.
HandleGoogleCallback(c, t, g) ==
  /\ At(c, "idle") /\ ticket[t] \in Intent
  /\ ticket' = [ticket EXCEPT ![t] = Used]
  /\ Becomes(c, [NoRequest EXCEPT !.at = "identity", !.sub = g, !.email = gmail[g],
                                  !.role = ticket[t].role, !.mode = ticket[t].mode])
  /\ UNCHANGED <<user, identity, gmail, raced>>

\* The user record is read once and carried along.
Read(r, e, at) == [r EXCEPT !.at = at, !.email = e, !.seen = user[e].role, !.on = user[e].active]

GetUserByIdentity(c) ==
  LET known == identity[request[c].sub] IN
  /\ At(c, "identity")
  /\ Becomes(c, IF known # None THEN Read(request[c], known, "known")
                ELSE [request[c] EXCEPT !.at = "email"])
  /\ UNCHANGED <<user, identity, gmail, ticket, raced>>

GetUserByEmail(c) ==
  LET e == request[c].email IN
  /\ At(c, "email")
  /\ Becomes(c, CASE Known(e) -> Read(request[c], e, "found")
                  [] ~Known(e) /\ request[c].mode = "signup" -> [request[c] EXCEPT !.at = "create"]
                  [] OTHER -> NoRequest)
  /\ UNCHANGED <<user, identity, gmail, ticket, raced>>

BugCreateOAuthUserUpserts(c) ==
  /\ At(c, "create")
  /\ Insert(request[c].email, request[c].role)
  /\ Becomes(c, [request[c] EXCEPT !.at = "link", !.seen = request[c].role, !.on = TRUE])
  /\ UNCHANGED <<identity, gmail, ticket, raced>>

\* Whoever lost the address meanwhile is refused.
CreateOAuthUser(c) ==
  LET new == request[c] IN
  /\ At(c, "create")
  /\ \/ /\ ~Known(new.email)
        /\ Insert(new.email, new.role)
        /\ Becomes(c, [new EXCEPT !.at = "link", !.seen = new.role, !.on = TRUE])
     \/ Known(new.email) /\ Done(c) /\ UNCHANGED user
  /\ UNCHANGED <<identity, gmail, ticket, raced>>

BugPromotesAnyone(r) == r.role = "VENDOR"

Promotes(r) == r.role = "VENDOR" /\ r.seen = "CUSTOMER"

\* applyOAuthRoleIntent, before the identity is linked or once it was known: UPDATE
\* ... WHERE role = 'CUSTOMER'.  A second call, after the link, finds nothing to do.
PromoteUserRole(c) ==
  LET r == request[c]
      next == IF r.at = "known" THEN "answer" ELSE "link" IN
  /\ r.at \in {"known", "found"}
  /\ Becomes(c, [r EXCEPT !.at = next, !.seen = IF Promotes(r) THEN "VENDOR" ELSE @])
  /\ user' = IF Promotes(r) /\ user[r.email].role = "CUSTOMER"
             THEN [user EXCEPT ![r.email].role = "VENDOR"] ELSE user
  /\ UNCHANGED <<identity, gmail, ticket, raced>>

\* ON CONFLICT keeps the account the identity is linked to.
LinkIdentity(c) ==
  /\ At(c, "link")
  /\ identity' = [identity EXCEPT ![request[c].sub] = IF @ = None THEN request[c].email ELSE @]
  /\ Becomes(c, [request[c] EXCEPT !.at = "answer"])
  /\ UNCHANGED <<user, gmail, ticket, raced>>

\* The token is issued, unless the account was inactive when it was read.
AnswerCallback(c) ==
  /\ At(c, "answer")
  /\ Done(c)
  /\ UNCHANGED <<user, identity, gmail, ticket, raced>>

-----------------------------------------------------------------------------
(* VerifyOTP: check the challenge, register or read the user, consume it. *)

VerifyOTP(c, t) ==
  /\ At(c, "idle") /\ ticket[t] \in Challenge
  /\ Becomes(c, [NoRequest EXCEPT !.at = ticket[t].purpose, !.email = ticket[t].email,
                                  !.role = ticket[t].role, !.ticket = t])
  /\ UNCHANGED <<user, identity, gmail, ticket, raced>>

\* RegisterUser again: after a crash before Consume, the retry is told that the
\* account exists.
SignUp(c) ==
  LET new == request[c] IN
  /\ At(c, "signup")
  /\ \/ /\ ~Known(new.email)
        /\ Insert(new.email, new.role)
        /\ Becomes(c, [new EXCEPT !.at = "consume", !.seen = new.role])
     \/ Known(new.email) /\ Done(c) /\ UNCHANGED user
  /\ UNCHANGED <<identity, gmail, ticket, raced>>

SignIn(c) ==
  /\ At(c, "login")
  /\ Becomes(c, Read(request[c], request[c].email, "consume"))
  /\ UNCHANGED <<user, identity, gmail, ticket, raced>>

\* The token is issued.
Consume(c) ==
  /\ At(c, "consume")
  /\ ticket' = [ticket EXCEPT ![request[c].ticket] = Used]
  /\ Done(c)
  /\ UNCHANGED <<user, identity, gmail, raced>>

-----------------------------------------------------------------------------
(* Turning accounts on and off. *)

ToSwitch(e, on, at) == [NoRequest EXCEPT !.at = at, !.email = e, !.on = on]

\* UpdateUser and, with on = FALSE, DeactivateUser refuse administrators.
UpdateUser(c, e, on) ==
  /\ At(c, "idle")
  /\ Known(e) /\ user[e].role # "ADMIN"
  /\ Becomes(c, ToSwitch(e, on, "status"))
  /\ UNCHANGED <<user, identity, gmail, ticket, raced>>

\* by is whom the token names, an administrator when it was issued.
UpdateAdministratorStatus(c, by, e, on) ==
  /\ At(c, "idle")
  /\ user[by].role = "ADMIN" /\ user[e].role = "ADMIN"
  /\ by = e => on
  /\ Becomes(c, ToSwitch(e, on, IF ~on /\ user[e].active THEN "count" ELSE "status"))
  /\ raced' = (raced \/ \E d \in Calls \ {c} : request[d].at \in {"count", "status"})
  /\ UNCHANGED <<user, identity, gmail, ticket>>

Active == {e \in Emails : user[e].role = "ADMIN" /\ user[e].active}

BugCountsNobody(c) ==
  /\ At(c, "count")
  /\ Becomes(c, IF Cardinality(Active) < 1 THEN NoRequest ELSE [request[c] EXCEPT !.at = "status"])
  /\ UNCHANGED <<user, identity, gmail, ticket, raced>>

CountActiveAdministrators(c) ==
  /\ At(c, "count")
  /\ Becomes(c, IF Cardinality(Active) <= 1 THEN NoRequest ELSE [request[c] EXCEPT !.at = "status"])
  /\ UNCHANGED <<user, identity, gmail, ticket, raced>>

\* UPDATE users SET is_active, by id.
WriteStatus(c) ==
  /\ At(c, "status")
  /\ user' = [user EXCEPT ![request[c].email].active = request[c].on]
  /\ Done(c)
  /\ UNCHANGED <<identity, gmail, ticket, raced>>

\* A statement fails, or the request dies.
RequestDies(c) ==
  /\ ~At(c, "idle")
  /\ Done(c)
  /\ UNCHANGED <<user, identity, gmail, ticket, raced>>

AccountsNext ==
  \/ \E e \in Emails : \/ \E role \in Public : RegisterUser(e, role)
                       \/ CreateAdministrator(e)
                       \/ \E g \in Subs : RenameGoogle(g, e)
  \/ \E t \in Tickets : \/ \E intent \in Intent : GoogleAuthURL(t, intent)
                        \/ \E asked \in Challenge : RequestOTP(t, asked)
  \/ \E c \in Calls :
       \/ \E t \in Tickets, g \in Subs : HandleGoogleCallback(c, t, g)
       \/ GetUserByIdentity(c) \/ GetUserByEmail(c) \/ CreateOAuthUser(c)
       \/ PromoteUserRole(c) \/ LinkIdentity(c) \/ AnswerCallback(c)
       \/ \E t \in Tickets : VerifyOTP(c, t)
       \/ SignUp(c) \/ SignIn(c) \/ Consume(c)
       \/ \E e \in Emails, on \in BOOLEAN :
            UpdateUser(c, e, on) \/ \E by \in Emails : UpdateAdministratorStatus(c, by, e, on)
       \/ CountActiveAdministrators(c) \/ WriteStatus(c) \/ RequestDies(c)

AccountsSpec == AccountsInit /\ [][AccountsNext]_accountVars

-----------------------------------------------------------------------------

Roles == Public \cup {"ADMIN", "NONE"}

\* Shape of the state.  An identity is linked to an account that exists.
AccountsTypeOK ==
  /\ user \in [Emails -> [role : Roles, active : BOOLEAN]]
  /\ identity \in [Subs -> {e \in Emails : Known(e)} \cup {None}]
  /\ gmail \in [Subs -> Emails]
  /\ \A t \in Tickets : ticket[t] \in {None, Used} \/ ticket[t] \in Intent \/ ticket[t] \in Challenge

\* The role a request is about to put into a token is the one its account has, or had
\* before it became a vendor, whatever two sign-ins with different intents, sign-ups
\* and administrators do between the read and the answer.
TokensNameTheRole ==
  \A c \in Calls : request[c].at \in {"answer", "consume"} =>
    LET r == request[c] IN \/ user[r.email].role = r.seen
                           \/ r.seen = "CUSTOMER" /\ user[r.email].role = "VENDOR"

\* One account per address, for good: whoever registers, signs up or is made an
\* administrator at once, an account changes its role from customer to vendor only,
\* and a Google account, once linked, stays with its account when its address changes.
AccountsAreStable ==
  [][/\ \A e \in Emails : Known(e) => \/ user'[e].role = user[e].role
                                      \/ user[e].role = "CUSTOMER" /\ user'[e].role = "VENDOR"
     /\ \A g \in Subs : identity[g] # None => identity'[g] = identity[g]]_accountVars

\* "At least one active administrator must remain" holds as long as no two changes of
\* an administrator's status overlap: the count and the update are two statements.
AdministratorRemains == raced \/ Active # {}
=============================================================================
