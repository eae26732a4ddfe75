-------------------------------- MODULE SignIn --------------------------------
(***************************************************************************)
(* Accounts and who may sign in to them: local registration and login      *)
(* (service/auth.service.ts, controllers/auth.controller.ts) and the       *)
(* Google callback (controllers/googleAuth.controller.ts), whose account   *)
(* resolution (service/googleAuth.service.ts) runs at READ COMMITTED and   *)
(* leans on three unique indexes, a conditional UPDATE and a bounded retry. *)
(*                                                                         *)
(* Usernames are numbers: a Google sign-up takes the least one that it     *)
(* reads as free, so that sign-ups of the same name collide.  A session    *)
(* is a signed cookie: it is never taken back.                             *)
(***************************************************************************)
EXTENDS Naturals, FiniteSets, Functions

CONSTANTS Accounts,       \* bound: pool of User rows
          Passwordless,   \* the accounts that exist from before, with neither
                          \* a password nor a Google identity
          Subjects,       \* Google's stable subjects
          Emails,         \* normalized e-mail addresses
          Authoritative,  \* <<subject, email>> where Google vouches for the address
          Names,          \* bound: usernames, 1..n
          States,         \* bound: pool of OAuth states
          Callbacks,      \* bound: pool of callback requests
          MaxAttempts,    \* MAX_ACCOUNT_RESOLUTION_ATTEMPTS
          None            \* SQL NULL

ASSUME SignInNoneAssumption == None \notin Accounts \cup Subjects \cup Emails \cup States
ASSUME PasswordlessAssumption == Passwordless \subseteq Accounts
ASSUME AuthoritativeAssumption == Authoritative \subseteq Subjects \X Emails
ASSUME NamesAssumption == Names \subseteq Nat \ {0}
ASSUME AttemptsAssumption == MaxAttempts \in Nat \ {0}

VARIABLES
  account,    \* User rows
  oauth,      \* GoogleOAuthState rows
  callback,   \* callback requests
  session     \* the sessions issued for Google identities so far

vars == <<account, oauth, callback, session>>

NoName == 0
AccountRow ==
  [email : Emails \cup {None}, name : Names \cup {NoName}, subject : Subjects \cup {None},
   password : BOOLEAN, active : BOOLEAN]
NoAccount == [email |-> None, name |-> NoName, subject |-> None,
              password |-> FALSE, active |-> FALSE]

\* exchanging: the state is consumed, Google is asked.  subject, email: before
\* the lookup by it.  link, create: before the write.  issue: resolved.
\* conflict: answered with account_conflict.  done: answered otherwise.
\* known is history: the accounts that were in use when its attempts began.
CallbackRow ==
  [stage : {"new", "exchanging", "subject", "email", "link", "create", "issue",
            "conflict", "done"},
   state : States \cup {None}, subject : Subjects \cup {None}, email : Emails \cup {None},
   target : Accounts \cup {None}, name : Names \cup {NoName}, attempt : 0..MaxAttempts,
   known : SUBSET Accounts]
NewCallback == [stage |-> "new", state |-> None, subject |-> None, email |-> None,
                target |-> None, name |-> NoName, attempt |-> 0, known |-> {}]

TypeOK ==
  /\ account \in [Accounts -> AccountRow]
  /\ oauth \in [States -> {"unused", "issued", "gone"}]
  /\ callback \in [Callbacks -> CallbackRow]
  /\ session \subseteq [account : Accounts, subject : Subjects]

Exists(a) == account[a].email # None
WithEmail(e) == {a \in Accounts : account[a].email = e}
WithSubject(s) == {a \in Accounts : account[a].subject = s}
FreeNames == {n \in Names : \A a \in Accounts : account[a].name # n}
Least(S) == CHOOSE n \in S : \A m \in S : n <= m

\* The accounts that a registration or a callback has made, or linked.
InUse == {a \in Accounts : account[a].password \/ account[a].subject # None}

\* The unique indexes on normalizedEmail and username.
IsFree(e, n) == WithEmail(e) = {} /\ n \in FreeNames

\* No code creates a passwordless account without an identity; the schema, the
\* linking branch and its tests know such rows, so some may be there already.
Init ==
  /\ \E email \in [Passwordless -> Emails], name \in [Passwordless -> Names] :
       /\ IsInjective(email) /\ IsInjective(name)
       /\ account = [a \in Accounts |->
            IF a \in Passwordless
              THEN [NoAccount EXCEPT !.email = email[a], !.name = name[a], !.active = TRUE]
              ELSE NoAccount]
  /\ oauth = [t \in States |-> "unused"]
  /\ callback = [c \in Callbacks |-> NewCallback]
  /\ session = {}

-----------------------------------------------------------------------------
(* Local accounts. *)

\* Anybody may register an address: nothing proves it is theirs.  (createUser:
\* one INSERT against the unique indexes; a session of no identity follows.)
Register(a, e, n) ==
  /\ ~Exists(a)
  /\ IsFree(e, n)
  /\ account' = [account EXCEPT ![a] = [NoAccount EXCEPT !.email = e, !.name = n,
                                          !.password = TRUE, !.active = TRUE]]
  /\ UNCHANGED <<oauth, callback, session>>

\* An Admin deactivates an account (transitionInsideTransaction); nothing
\* activates it again.
Deactivate(a) ==
  /\ account[a].active
  /\ account' = [account EXCEPT ![a].active = FALSE]
  /\ UNCHANGED <<oauth, callback, session>>

-----------------------------------------------------------------------------
(* The OAuth state of one sign-in. *)

StartGoogle(t) ==
  /\ oauth[t] = "unused"
  /\ oauth' = [oauth EXCEPT ![t] = "issued"]
  /\ UNCHANGED <<account, callback, session>>

Expire(t) ==
  /\ oauth[t] = "issued"
  /\ oauth' = [oauth EXCEPT ![t] = "gone"]
  /\ UNCHANGED <<account, callback, session>>

\* Mutant: the state is looked up, and deleted later if at all.
ConsumeLater(t) == oauth[t] = "issued" /\ UNCHANGED oauth

\* One DELETE that must remove one row: of two callbacks one wins.
Consume(t) == oauth[t] = "issued" /\ oauth' = [oauth EXCEPT ![t] = "gone"]

\* The browser comes back with the state of its cookie, perhaps twice.
BeginCallback(c, t) ==
  /\ callback[c].stage = "new"
  /\ Consume(t)
  /\ callback' = [callback EXCEPT ![c].stage = "exchanging", ![c].state = t]
  /\ UNCHANGED <<account, session>>

\* Google answers with a verified identity, and the first attempt begins.
Exchange(c, s, e) ==
  /\ callback[c].stage = "exchanging"
  /\ callback' = [callback EXCEPT ![c].stage = "subject", ![c].subject = s,
                                  ![c].email = e, ![c].attempt = 1, ![c].known = InUse]
  /\ UNCHANGED <<account, oauth, session>>

Ends(c, stage) == callback' = [callback EXCEPT ![c].stage = stage]

\* Google or the student breaks off, the identity is invalid, the server stops.
FailCallback(c) ==
  /\ callback[c].stage \notin {"new", "conflict", "done"}
  /\ Ends(c, "done")
  /\ UNCHANGED <<account, oauth, session>>

-----------------------------------------------------------------------------
(* resolveGoogleAccount: lookup by subject, lookup by e-mail, one write. *)

Resolves(c, a) == callback' = [callback EXCEPT ![c].stage = "issue", ![c].target = a]

FindBySubject(c) ==
  LET found == WithSubject(callback[c].subject) IN
  /\ callback[c].stage = "subject"
  /\ IF found = {}
       THEN callback' = [callback EXCEPT ![c].stage = "email"]
       ELSE \E a \in found : IF account[a].active THEN Resolves(c, a) ELSE Ends(c, "done")
  /\ UNCHANGED <<account, oauth, session>>

\* The account of that address may be linked to this identity.
IsLinkable(c, a) ==
  /\ account[a].subject = None
  /\ ~account[a].password
  /\ <<callback[c].subject, callback[c].email>> \in Authoritative

\* A match by address: the identity's own account, one to be linked, or a conflict.
MatchEmail(c) ==
  /\ callback[c].stage = "email"
  /\ \E a \in WithEmail(callback[c].email) :
       IF ~account[a].active THEN Ends(c, "done")
       ELSE IF account[a].subject = callback[c].subject THEN Resolves(c, a)
       ELSE IF IsLinkable(c, a)
         THEN callback' = [callback EXCEPT ![c].stage = "link", ![c].target = a]
       ELSE Ends(c, "conflict")
  /\ UNCHANGED <<account, oauth, session>>

\* No match: nextUsername picks the first name that no row has now.
PickUsername(c) ==
  /\ callback[c].stage = "email"
  /\ WithEmail(callback[c].email) = {}
  /\ IF FreeNames = {} THEN Ends(c, "conflict")
     ELSE callback' = [callback EXCEPT ![c].stage = "create", ![c].name = Least(FreeNames)]
  /\ UNCHANGED <<account, oauth, session>>

\* Mutant: there is no second attempt.
MayRetryNever(c) == callback[c].attempt < 1

MayRetry(c) == callback[c].attempt < MaxAttempts

\* A unique index or the conditional UPDATE refused the write: the transaction
\* is rolled back and starts over, or the callback ends with a conflict.
TryAgain(c) ==
  /\ IF MayRetry(c)
       THEN callback' = [callback EXCEPT ![c].stage = "subject", ![c].target = None,
                           ![c].name = NoName, ![c].attempt = @ + 1]
       ELSE Ends(c, "conflict")
  /\ UNCHANGED account

\* Mutant: the link is written over whatever the row has become.
StillLinkableAnyway(c, a) == account[a].active

\* The WHERE of the linking UPDATE, and the unique index on googleSubject.
StillLinkable(c, a) ==
  /\ account[a].subject = None /\ ~account[a].password /\ account[a].active
  /\ WithSubject(callback[c].subject) = {}

LinkAccount(c) ==
  LET a == callback[c].target IN
  /\ callback[c].stage = "link"
  /\ IF StillLinkable(c, a)
       THEN /\ account' = [account EXCEPT ![a].subject = callback[c].subject]
            /\ Resolves(c, a)
       ELSE TryAgain(c)
  /\ UNCHANGED <<oauth, session>>

CreateAccount(c, a) ==
  LET row == callback[c] IN
  /\ row.stage = "create"
  /\ ~Exists(a)
  /\ IF IsFree(row.email, row.name) /\ WithSubject(row.subject) = {}
       THEN /\ account' = [account EXCEPT ![a] =
                 [email |-> row.email, name |-> row.name, subject |-> row.subject,
                  password |-> FALSE, active |-> TRUE]]
            /\ Resolves(c, a)
       ELSE TryAgain(c)
  /\ UNCHANGED <<oauth, session>>

\* issueSession, in no transaction with the resolution: the account may have
\* been deactivated, and then every request that carries the cookie is refused.
IssueSession(c) ==
  LET row == callback[c] IN
  /\ row.stage = "issue"
  /\ session' = session \cup {[account |-> row.target, subject |-> row.subject]}
  /\ Ends(c, "done")
  /\ UNCHANGED <<account, oauth>>

CallbackNext(c) ==
  \/ \E t \in States : BeginCallback(c, t)
  \/ \E s \in Subjects, e \in Emails : Exchange(c, s, e)
  \/ FailCallback(c)
  \/ FindBySubject(c)
  \/ MatchEmail(c)
  \/ PickUsername(c)
  \/ LinkAccount(c)
  \/ \E a \in Accounts : CreateAccount(c, a)
  \/ IssueSession(c)

Next ==
  \/ \E a \in Accounts, e \in Emails, n \in Names : Register(a, e, n)
  \/ \E a \in Accounts : Deactivate(a)
  \/ \E t \in States : StartGoogle(t) \/ Expire(t)
  \/ \E c \in Callbacks : CallbackNext(c)

Spec == Init /\ [][Next]_vars

-----------------------------------------------------------------------------
(* Properties. *)

\* A Google identity has one account for ever: every session issued for it, by
\* whichever of several crossing callbacks, is for the account linked to it, and
\* that is never an account with a password somebody registered beforehand.
OneAccountPerIdentity ==
  \A x \in session :
    /\ account[x.account].subject = x.subject
    /\ ~account[x.account].password
    /\ WithSubject(x.subject) = {x.account}

\* One OAuth state carries at most one callback past the check of its state,
\* though the browser repeats the callback while the first is under way.
StateSignsInOnce ==
  \A c, d \in Callbacks : callback[c].state = callback[d].state =>
    c = d \/ callback[c].state = None

\* A callback is not turned away because others sign up at the same time: it
\* ends with account_conflict only if its address belongs to an account that it
\* must not have or that is deactivated, or no name is left, or as many sign-ups
\* as it has attempts won the race against it: each made an account, or linked
\* one, after its attempts began.
ConflictIsReal ==
  [][\A c \in Callbacks :
       callback[c].stage # "conflict" /\ callback'[c].stage = "conflict" =>
         \/ \E a \in WithEmail(callback[c].email) :
              \/ ~account[a].active
              \/ account[a].subject # callback[c].subject /\ ~IsLinkable(c, a)
         \/ FreeNames = {}
         \/ Cardinality(InUse \ callback[c].known) >= MaxAttempts]_vars
=============================================================================
