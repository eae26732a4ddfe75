---------------------------- MODULE SignInProofs ----------------------------
(***************************************************************************)
(* Google sign-in, for every value of the constants: any number of          *)
(* accounts, identities and crossing callbacks.                             *)
(*                                                                         *)
(* The argument: an identity, once on an account, stays on it (Grows); it   *)
(* gets there only by a write that finds it on no other account and finds   *)
(* no password; and from the resolution to the session a callback carries   *)
(* an account that has its identity already (Carried).                      *)
(*                                                                         *)
(* Conflicts: each attempt that loses its race does so to another account   *)
(* that has come into use since it looked, so that a callback that gives up *)
(* has met as many as it had attempts (RaceRow).                            *)
(***************************************************************************)
EXTENDS SignIn, FiniteSetTheorems, WellFoundedInduction, TLAPS

Resolving == {"subject", "email", "link", "create", "issue"}

\* Account rows: an identity has one account at most, and never one with a
\* password; a row that is not there has no identity.
RowsOK ==
  /\ \A a, b \in Accounts :
       account[a].subject = account[b].subject => a = b \/ account[a].subject = None
  /\ \A a \in Accounts :
       account[a].subject # None => Exists(a) /\ ~account[a].password

\* What a callback has found out, relative to the account rows acc.
RowCarried(acc, row) ==
  /\ row.stage \in Resolving => row.subject \in Subjects /\ row.email \in Emails
  /\ row.stage = "link" => row.target \in Accounts /\ acc[row.target].email # None
  /\ row.stage = "issue" => row.target \in Accounts /\ acc[row.target].subject = row.subject

Carried == \A c \in Callbacks : RowCarried(account, callback[c])

\* A state that a callback came with is used up.
StatesAreSpent ==
  \A c \in Callbacks : callback[c].state # None => oauth[callback[c].state] = "gone"

\* A session is for an account that has its identity.
Issued ==
  \A x \in session : account[x.account].subject = x.subject

SignInInv == TypeOK /\ RowsOK /\ Carried /\ Issued

\* What no step takes from an account.
Grows ==
  \A a \in Accounts :
    /\ Exists(a) => Exists(a)'
    /\ account[a].subject # None => account'[a].subject = account[a].subject

-----------------------------------------------------------------------------

\* Every nonempty set of names has a least one.
LEMMA LeastIsMember ==
  ASSUME NEW S \in SUBSET Nat, S # {}
  PROVE  Least(S) \in S
<1> DEFINE R == OpToRel(<, Nat)
<1>1. PICK n \in S : \A m \in S : ~(<<m, n>> \in R)
  <2>1. IsWellFoundedOn(R, Nat)
    BY NatLessThanWellFounded
  <2> HIDE DEF R
  <2> QED
    BY <2>1, WFMin
<1>2. \A m \in S : n <= m
  <2> SUFFICES ASSUME NEW m \in S PROVE n <= m
    OBVIOUS
  <2>1. <<m, n>> \notin R
    BY <1>1
  <2>2. R = {ss \in Nat \X Nat : ss[1] < ss[2]}
    BY Zenon DEF OpToRel
  <2> HIDE DEF R
  <2> QED
    BY <2>1, <2>2
<1> QED
  BY <1>2 DEF Least

LEMMA NamesArePicked == FreeNames # {} => Least(FreeNames) \in Names
  BY LeastIsMember, NamesAssumption DEF FreeNames

\* The attempts a callback may have made.
LEMMA AttemptsCount ==
  /\ 0 \in 0..MaxAttempts /\ 1 \in 0..MaxAttempts
  /\ \A n \in 0..MaxAttempts : n < MaxAttempts => n + 1 \in 0..MaxAttempts
  BY AttemptsAssumption

-----------------------------------------------------------------------------
(* The initial states. *)

LEMMA InitTyped == Init => TypeOK
<1> SUFFICES ASSUME Init PROVE TypeOK
  OBVIOUS
<1>1. account \in [Accounts -> AccountRow]
  <2>1. NoAccount \in AccountRow
    BY DEF NoAccount, AccountRow
  <2>2. PICK email \in [Passwordless -> Emails], name \in [Passwordless -> Names] :
          account = [a \in Accounts |->
            IF a \in Passwordless
              THEN [NoAccount EXCEPT !.email = email[a], !.name = name[a], !.active = TRUE]
              ELSE NoAccount]
    BY DEF Init
  <2>3. \A e \in Emails, n \in Names :
          [NoAccount EXCEPT !.email = e, !.name = n, !.active = TRUE] \in AccountRow
    BY DEF NoAccount, AccountRow
  <2> QED
    BY <2>1, <2>2, <2>3
<1>2. callback \in [Callbacks -> CallbackRow]
  <2>1. NewCallback \in CallbackRow
    BY AttemptsCount DEF CallbackRow, NewCallback, NoName
  <2> QED
    BY <2>1 DEF Init
<1> QED
  BY <1>1, <1>2 DEF Init, TypeOK

LEMMA InitHolds == Init => SignInInv
<1> SUFFICES ASSUME Init PROVE SignInInv
  OBVIOUS
<1>1. \A a \in Accounts : account[a].subject = None
  <2>1. PICK email \in [Passwordless -> Emails], name \in [Passwordless -> Names] :
          account = [a \in Accounts |->
            IF a \in Passwordless
              THEN [NoAccount EXCEPT !.email = email[a], !.name = name[a], !.active = TRUE]
              ELSE NoAccount]
    BY DEF Init
  <2>2. NoAccount.subject = None
        /\ \A e \in Emails, n \in Names :
             [NoAccount EXCEPT !.email = e, !.name = n, !.active = TRUE].subject = None
    BY DEF NoAccount
  <2> QED
    BY <2>1, <2>2
<1>2. Carried
  BY DEF Init, Carried, RowCarried, NewCallback, Resolving
<1> QED
  BY <1>1, <1>2, InitTyped DEF SignInInv, RowsOK, Issued, Init

-----------------------------------------------------------------------------
(* One account row is replaced, or none. *)

LEMMA AccountStep ==
  ASSUME TypeOK, RowsOK, NEW a \in Accounts, NEW row \in AccountRow,
         account' = [account EXCEPT ![a] = row],
         Exists(a) => row.email # None,
         account[a].subject # None => row.subject = account[a].subject,
         row.subject # None =>
           /\ row.email # None /\ ~row.password
           /\ row.subject = account[a].subject \/ WithSubject(row.subject) = {}
  PROVE  account' \in [Accounts -> AccountRow] /\ Grows /\ RowsOK'
<1>1. account' \in [Accounts -> AccountRow]
  BY DEF TypeOK
<1>2. account'[a] = row /\ \A b \in Accounts \ {a} : account'[b] = account[b]
  BY DEF TypeOK
<1>3. Grows
  BY <1>2 DEF Grows, Exists
<1>4. RowsOK'
  <2>1. \A b \in Accounts : account'[b].subject # None =>
          Exists(b)' /\ ~account'[b].password
    BY <1>2 DEF RowsOK, Exists
  <2>2. \A b \in Accounts \ {a} : account'[b].subject = row.subject => row.subject = None
    BY <1>2 DEF RowsOK, WithSubject
  <2> QED
    BY <1>2, <2>1, <2>2 DEF RowsOK
<1> QED
  BY <1>1, <1>3, <1>4

LEMMA AccountsUnchanged ==
  ASSUME TypeOK, RowsOK, UNCHANGED account
  PROVE  account' \in [Accounts -> AccountRow] /\ Grows /\ RowsOK'
  BY DEF TypeOK, Grows, RowsOK, Exists

LEMMA RowsGrow ==
  ASSUME TypeOK, RowsOK
  PROVE  /\ \A a \in Accounts, e \in Emails, n \in Names : Register(a, e, n) =>
              account' \in [Accounts -> AccountRow] /\ Grows /\ RowsOK'
         /\ \A a \in Accounts : Deactivate(a) =>
              account' \in [Accounts -> AccountRow] /\ Grows /\ RowsOK'
         /\ \A c \in Callbacks : LinkAccount(c) /\ RowCarried(account, callback[c]) =>
              account' \in [Accounts -> AccountRow] /\ Grows /\ RowsOK'
         /\ \A c \in Callbacks, a \in Accounts :
              CreateAccount(c, a) /\ RowCarried(account, callback[c]) =>
              account' \in [Accounts -> AccountRow] /\ Grows /\ RowsOK'
<1>1. ASSUME NEW a \in Accounts, NEW e \in Emails, NEW n \in Names, Register(a, e, n)
      PROVE  account' \in [Accounts -> AccountRow] /\ Grows /\ RowsOK'
  <2> DEFINE row == [NoAccount EXCEPT !.email = e, !.name = n, !.password = TRUE, !.active = TRUE]
  <2>1. row \in AccountRow /\ row.subject = None
    BY DEF AccountRow, NoAccount
  <2>2. account' = [account EXCEPT ![a] = row] /\ ~Exists(a)
    BY <1>1 DEF Register
  <2>3. account[a].subject = None
    BY <2>2 DEF RowsOK
  <2> HIDE DEF row
  <2> QED
    BY <2>1, <2>2, <2>3, AccountStep
<1>2. ASSUME NEW a \in Accounts, Deactivate(a)
      PROVE  account' \in [Accounts -> AccountRow] /\ Grows /\ RowsOK'
  <2> DEFINE row == [account[a] EXCEPT !.active = FALSE]
  <2>1. /\ row \in AccountRow
        /\ row.subject = account[a].subject /\ row.email = account[a].email
        /\ row.password = account[a].password
    BY DEF AccountRow, TypeOK
  <2>2. account' = [account EXCEPT ![a] = row]
    BY <1>2 DEF Deactivate, TypeOK
  <2>3. account[a].subject # None => account[a].email # None /\ ~account[a].password
    BY DEF RowsOK, Exists
  <2> HIDE DEF row
  <2> QED
    BY <2>1, <2>2, <2>3, AccountStep DEF Exists
<1>3. ASSUME NEW c \in Callbacks, LinkAccount(c), RowCarried(account, callback[c])
      PROVE  account' \in [Accounts -> AccountRow] /\ Grows /\ RowsOK'
  <2>1. CASE StillLinkable(c, callback[c].target)
    <3> DEFINE a == callback[c].target
               row == [account[a] EXCEPT !.subject = callback[c].subject]
    <3>1. a \in Accounts /\ account[a].email # None /\ callback[c].subject \in Subjects
      BY <1>3 DEF LinkAccount, RowCarried, Resolving
    <3>2. /\ row \in AccountRow
          /\ row.subject = callback[c].subject /\ row.email = account[a].email
          /\ row.password = account[a].password
      BY <3>1 DEF AccountRow, TypeOK
    <3>3. account' = [account EXCEPT ![a] = row]
      BY <1>3, <2>1, <3>1 DEF LinkAccount, TypeOK
    <3>4. /\ account[a].subject = None /\ ~account[a].password
          /\ WithSubject(callback[c].subject) = {}
      BY <2>1 DEF StillLinkable
    <3> HIDE DEF row, a
    <3> QED
      BY <3>1, <3>2, <3>3, <3>4, AccountStep
  <2>2. CASE ~StillLinkable(c, callback[c].target)
    BY <1>3, <2>2, AccountsUnchanged DEF LinkAccount, TryAgain
  <2> QED
    BY <2>1, <2>2
<1>4. ASSUME NEW c \in Callbacks, NEW a \in Accounts, CreateAccount(c, a),
             RowCarried(account, callback[c])
      PROVE  account' \in [Accounts -> AccountRow] /\ Grows /\ RowsOK'
  <2>1. CASE UNCHANGED account
    BY <2>1, AccountsUnchanged
  <2>2. CASE IsFree(callback[c].email, callback[c].name) /\ WithSubject(callback[c].subject) = {}
    <3> DEFINE row == [email |-> callback[c].email, name |-> callback[c].name,
                       subject |-> callback[c].subject, password |-> FALSE, active |-> TRUE]
    <3>1. callback[c].subject \in Subjects /\ callback[c].email \in Emails
      BY <1>4 DEF CreateAccount, RowCarried, Resolving
    <3>2. callback[c].name \in Names
      BY <2>2 DEF IsFree, FreeNames
    <3>3. row \in AccountRow
      BY <3>1, <3>2 DEF AccountRow
    <3>4. account' = [account EXCEPT ![a] = row] /\ ~Exists(a)
      BY <1>4, <2>2 DEF CreateAccount
    <3>5. account[a].subject = None
      BY <3>4 DEF RowsOK
    <3>6. row.email # None
      BY <3>1, SignInNoneAssumption
    <3> QED
      BY <2>2, <3>3, <3>4, <3>5, <3>6, AccountStep
  <2> QED
    BY <1>4, <2>1, <2>2 DEF CreateAccount, TryAgain
<1> QED
  BY <1>1, <1>2, <1>3, <1>4

-----------------------------------------------------------------------------
(* One callback is replaced, or none. *)

LEMMA CarriedOn ==
  ASSUME TypeOK, Grows, NEW row, RowCarried(account, row)
  PROVE  RowCarried(account', row)
  BY SignInNoneAssumption DEF RowCarried, Resolving, Grows, Exists

LEMMA CallbackStep ==
  ASSUME TypeOK, Carried, Grows, NEW c \in Callbacks, NEW row \in CallbackRow,
         callback' = [callback EXCEPT ![c] = row], RowCarried(account', row)
  PROVE  callback' \in [Callbacks -> CallbackRow] /\ Carried'
<1>1. callback' \in [Callbacks -> CallbackRow]
  BY DEF TypeOK
<1>2. callback'[c] = row /\ \A d \in Callbacks \ {c} : callback'[d] = callback[d]
  BY DEF TypeOK
<1>3. \A d \in Callbacks : RowCarried(account', callback'[d])
  BY <1>2, CarriedOn DEF Carried
<1> QED
  BY <1>1, <1>3 DEF Carried, RowCarried

LEMMA CallbacksUnchanged ==
  ASSUME TypeOK, Carried, Grows, UNCHANGED callback
  PROVE  callback' \in [Callbacks -> CallbackRow] /\ Carried'
<1>1. \A d \in Callbacks : RowCarried(account', callback'[d])
  BY CarriedOn DEF Carried
<1> QED
  BY <1>1 DEF Carried, RowCarried, TypeOK

\* Every step of a callback leaves a row that is still right.
LEMMA CallbackRows ==
  ASSUME TypeOK, RowsOK, Carried, Grows, NEW c \in Callbacks
  PROVE  /\ \A t \in States : BeginCallback(c, t) =>
              callback' \in [Callbacks -> CallbackRow] /\ Carried'
         /\ \A s \in Subjects, e \in Emails : Exchange(c, s, e) =>
              callback' \in [Callbacks -> CallbackRow] /\ Carried'
         /\ FailCallback(c) => callback' \in [Callbacks -> CallbackRow] /\ Carried'
         /\ FindBySubject(c) => callback' \in [Callbacks -> CallbackRow] /\ Carried'
         /\ MatchEmail(c) => callback' \in [Callbacks -> CallbackRow] /\ Carried'
         /\ PickUsername(c) => callback' \in [Callbacks -> CallbackRow] /\ Carried'
         /\ LinkAccount(c) => callback' \in [Callbacks -> CallbackRow] /\ Carried'
         /\ \A a \in Accounts : CreateAccount(c, a) =>
              callback' \in [Callbacks -> CallbackRow] /\ Carried'
         /\ IssueSession(c) => callback' \in [Callbacks -> CallbackRow] /\ Carried'
<1> DEFINE row == callback[c]
<1>0. /\ row \in CallbackRow
      /\ RowCarried(account, row)
      /\ account \in [Accounts -> AccountRow]
  BY DEF TypeOK, Carried
<1>a. \A stage \in {"done", "conflict"} : Ends(c, stage) =>
        callback' \in [Callbacks -> CallbackRow] /\ Carried'
  <2> SUFFICES ASSUME NEW stage \in {"done", "conflict"}, Ends(c, stage)
               PROVE  callback' \in [Callbacks -> CallbackRow] /\ Carried'
    OBVIOUS
  <2> DEFINE new == [row EXCEPT !.stage = stage]
  <2>1. new \in CallbackRow /\ new.stage = stage
    BY <1>0 DEF CallbackRow
  <2>2. RowCarried(account', new)
    BY <2>1 DEF RowCarried, Resolving
  <2>3. callback' = [callback EXCEPT ![c] = new]
    BY DEF Ends, TypeOK
  <2> HIDE DEF new
  <2> QED
    BY <2>1, <2>2, <2>3, CallbackStep
<1>b. ASSUME NEW a \in Accounts, Resolves(c, a), row.stage \in Resolving,
             account'[a].subject = row.subject
      PROVE  callback' \in [Callbacks -> CallbackRow] /\ Carried'
  <2> DEFINE new == [row EXCEPT !.stage = "issue", !.target = a]
  <2>1. new \in CallbackRow /\ new.stage = "issue" /\ new.target = a
        /\ new.subject = row.subject /\ new.email = row.email
    BY <1>0 DEF CallbackRow
  <2>2. RowCarried(account', new)
    BY <1>0, <1>b, <2>1 DEF RowCarried, Resolving
  <2>3. callback' = [callback EXCEPT ![c] = new]
    BY <1>b DEF Resolves, TypeOK
  <2> HIDE DEF new
  <2> QED
    BY <2>1, <2>2, <2>3, CallbackStep
<1>c. ASSUME TryAgain(c), row.stage \in Resolving
      PROVE  callback' \in [Callbacks -> CallbackRow] /\ Carried'
  <2> DEFINE new == [row EXCEPT !.stage = "subject", !.target = None,
                                !.name = NoName, !.attempt = @ + 1]
  <2>1. CASE MayRetry(c)
    <3>1. new \in CallbackRow /\ new.stage = "subject"
          /\ new.subject = row.subject /\ new.email = row.email
      <4>1. row.attempt + 1 \in 0..MaxAttempts
        BY <1>0, <2>1, AttemptsCount DEF CallbackRow, MayRetry
      <4> QED
        BY <1>0, <4>1 DEF CallbackRow, NoName
    <3>2. RowCarried(account', new)
      BY <1>0, <1>c, <3>1 DEF RowCarried, Resolving
    <3>3. callback' = [callback EXCEPT ![c] = new]
      BY <1>c, <2>1 DEF TryAgain, TypeOK
    <3> HIDE DEF new
    <3> QED
      BY <3>1, <3>2, <3>3, CallbackStep
  <2> QED
    BY <1>a, <1>c, <2>1 DEF TryAgain
<1>1. ASSUME NEW t \in States, BeginCallback(c, t)
      PROVE  callback' \in [Callbacks -> CallbackRow] /\ Carried'
  <2> DEFINE new == [row EXCEPT !.stage = "exchanging", !.state = t]
  <2>1. new \in CallbackRow /\ new.stage = "exchanging"
    BY <1>0 DEF CallbackRow
  <2>2. callback' = [callback EXCEPT ![c] = new]
    BY <1>1 DEF BeginCallback, TypeOK
  <2> HIDE DEF new
  <2> QED
    BY <2>1, <2>2, CallbackStep DEF RowCarried, Resolving
<1>2. ASSUME NEW s \in Subjects, NEW e \in Emails, Exchange(c, s, e)
      PROVE  callback' \in [Callbacks -> CallbackRow] /\ Carried'
  <2> DEFINE new == [row EXCEPT !.stage = "subject", !.subject = s, !.email = e,
                                !.attempt = 1, !.known = InUse]
  <2>1. new \in CallbackRow /\ new.stage = "subject" /\ new.subject = s /\ new.email = e
    <3>1. InUse \in SUBSET Accounts
      BY DEF InUse
    <3> QED
      BY <1>0, <3>1, AttemptsCount DEF CallbackRow
  <2>2. callback' = [callback EXCEPT ![c] = new]
    BY <1>2 DEF Exchange, TypeOK
  <2> HIDE DEF new
  <2> QED
    BY <2>1, <2>2, CallbackStep DEF RowCarried, Resolving
<1>3. FailCallback(c) => callback' \in [Callbacks -> CallbackRow] /\ Carried'
  BY <1>a DEF FailCallback
<1>4. ASSUME FindBySubject(c)
      PROVE  callback' \in [Callbacks -> CallbackRow] /\ Carried'
  <2>1. row.stage = "subject" /\ UNCHANGED account
    BY <1>4 DEF FindBySubject
  <2>2. CASE callback' = [callback EXCEPT ![c].stage = "email"]
    <3> DEFINE new == [row EXCEPT !.stage = "email"]
    <3>1. new \in CallbackRow /\ new.stage = "email"
          /\ new.subject = row.subject /\ new.email = row.email
      BY <1>0 DEF CallbackRow
    <3>2. RowCarried(account', new)
      BY <1>0, <2>1, <3>1 DEF RowCarried, Resolving
    <3>3. callback' = [callback EXCEPT ![c] = new]
      BY <2>2 DEF TypeOK
    <3> HIDE DEF new
    <3> QED
      BY <3>1, <3>2, <3>3, CallbackStep
  <2> QED
    BY <1>4, <1>a, <1>b, <2>1, <2>2 DEF FindBySubject, WithSubject, Resolving
<1>5. ASSUME MatchEmail(c)
      PROVE  callback' \in [Callbacks -> CallbackRow] /\ Carried'
  <2>1. row.stage = "email" /\ UNCHANGED account
    BY <1>5 DEF MatchEmail
  <2>2. ASSUME NEW a \in WithEmail(row.email),
               callback' = [callback EXCEPT ![c].stage = "link", ![c].target = a]
        PROVE  callback' \in [Callbacks -> CallbackRow] /\ Carried'
    <3> DEFINE new == [row EXCEPT !.stage = "link", !.target = a]
    <3>0. a \in Accounts /\ account[a].email = row.email
      BY DEF WithEmail
    <3>1. new \in CallbackRow /\ new.stage = "link" /\ new.target = a
          /\ new.subject = row.subject /\ new.email = row.email
      BY <1>0, <3>0 DEF CallbackRow
    <3>2. RowCarried(account', new)
      BY <1>0, <2>1, <3>0, <3>1, SignInNoneAssumption DEF RowCarried, Resolving
    <3>3. callback' = [callback EXCEPT ![c] = new]
      BY <2>2 DEF TypeOK
    <3> HIDE DEF new
    <3> QED
      BY <3>1, <3>2, <3>3, CallbackStep
  <2> QED
    BY <1>5, <1>a, <1>b, <2>1, <2>2 DEF MatchEmail, WithEmail, Resolving
<1>6. ASSUME PickUsername(c)
      PROVE  callback' \in [Callbacks -> CallbackRow] /\ Carried'
  <2>1. row.stage = "email" /\ UNCHANGED account
    BY <1>6 DEF PickUsername
  <2>2. CASE FreeNames # {}
    <3> DEFINE new == [row EXCEPT !.stage = "create", !.name = Least(FreeNames)]
    <3>1. new \in CallbackRow /\ new.stage = "create"
          /\ new.subject = row.subject /\ new.email = row.email
      BY <1>0, <2>2, NamesArePicked DEF CallbackRow
    <3>2. RowCarried(account', new)
      BY <1>0, <2>1, <3>1 DEF RowCarried, Resolving
    <3>3. callback' = [callback EXCEPT ![c] = new]
      BY <1>6, <2>2 DEF PickUsername, TypeOK
    <3> HIDE DEF new
    <3> QED
      BY <3>1, <3>2, <3>3, CallbackStep
  <2> QED
    BY <1>6, <1>a, <2>2 DEF PickUsername
<1>7. ASSUME LinkAccount(c)
      PROVE  callback' \in [Callbacks -> CallbackRow] /\ Carried'
  <2>1. row.stage = "link" /\ row.target \in Accounts
    BY <1>0, <1>7 DEF LinkAccount, RowCarried, Resolving
  <2>2. ASSUME account' = [account EXCEPT ![row.target].subject = row.subject]
        PROVE  account'[row.target].subject = row.subject
    BY <1>0, <2>1, <2>2 DEF AccountRow
  <2> QED
    BY <1>7, <1>b, <1>c, <2>1, <2>2 DEF LinkAccount, Resolving
<1>8. ASSUME NEW a \in Accounts, CreateAccount(c, a)
      PROVE  callback' \in [Callbacks -> CallbackRow] /\ Carried'
  <2>1. row.stage = "create"
    BY <1>8 DEF CreateAccount
  <2>2. CASE IsFree(row.email, row.name) /\ WithSubject(row.subject) = {}
    <3>1. account'[a].subject = row.subject /\ Resolves(c, a)
      BY <1>0, <1>8, <2>2 DEF CreateAccount
    <3> QED
      BY <1>b, <2>1, <3>1 DEF Resolving
  <2> QED
    BY <1>8, <1>c, <2>1, <2>2 DEF CreateAccount, Resolving
<1>9. IssueSession(c) => callback' \in [Callbacks -> CallbackRow] /\ Carried'
  BY <1>a DEF IssueSession
<1> QED
  BY <1>1, <1>2, <1>3, <1>4, <1>5, <1>6, <1>7, <1>8, <1>9

-----------------------------------------------------------------------------
(* The theorems. *)

LEMMA RowsNext ==
  ASSUME SignInInv, [Next]_vars
  PROVE  account' \in [Accounts -> AccountRow] /\ Grows /\ RowsOK'
<1>0. TypeOK /\ RowsOK /\ \A c \in Callbacks : RowCarried(account, callback[c])
  BY DEF SignInInv, Carried
<1>1. ASSUME UNCHANGED account
      PROVE  account' \in [Accounts -> AccountRow] /\ Grows /\ RowsOK'
  BY <1>0, <1>1, AccountsUnchanged
<1>2. ASSUME NEW t \in States, StartGoogle(t) \/ Expire(t)
      PROVE  UNCHANGED account
  BY <1>2 DEF StartGoogle, Expire
<1>3. ASSUME NEW c \in Callbacks, CallbackNext(c)
      PROVE  account' \in [Accounts -> AccountRow] /\ Grows /\ RowsOK'
  <2>1. UNCHANGED account \/ LinkAccount(c) \/ \E a \in Accounts : CreateAccount(c, a)
    BY <1>3 DEF CallbackNext, BeginCallback, Exchange, FailCallback, FindBySubject,
                MatchEmail, PickUsername, IssueSession
  <2> QED
    BY <1>0, <1>1, <2>1, RowsGrow
<1>4. UNCHANGED vars => UNCHANGED account
  BY DEF vars
<1> QED
  BY <1>0, <1>1, <1>2, <1>3, <1>4, RowsGrow DEF Next

LEMMA CarriedNext ==
  ASSUME SignInInv, [Next]_vars
  PROVE  callback' \in [Callbacks -> CallbackRow] /\ Carried'
<1>0. TypeOK /\ RowsOK /\ Carried /\ Grows
  BY RowsNext DEF SignInInv
<1>1. ASSUME UNCHANGED callback
      PROVE  callback' \in [Callbacks -> CallbackRow] /\ Carried'
  BY <1>0, <1>1, CallbacksUnchanged
<1>2. ASSUME NEW t \in States, StartGoogle(t) \/ Expire(t)
      PROVE  UNCHANGED callback
  BY <1>2 DEF StartGoogle, Expire
<1>3. ASSUME \/ \E a \in Accounts, e \in Emails, n \in Names : Register(a, e, n)
             \/ \E a \in Accounts : Deactivate(a)
      PROVE  UNCHANGED callback
  BY <1>3 DEF Register, Deactivate
<1>4. ASSUME NEW c \in Callbacks, CallbackNext(c)
      PROVE  callback' \in [Callbacks -> CallbackRow] /\ Carried'
  BY <1>0, <1>4, CallbackRows DEF CallbackNext
<1>5. UNCHANGED vars => UNCHANGED callback
  BY DEF vars
<1> QED
  BY <1>1, <1>2, <1>3, <1>4, <1>5 DEF Next

\* The session of IssueSession is for the account the callback resolved to.
LEMMA IssuedNext ==
  ASSUME SignInInv, [Next]_vars
  PROVE  session' \subseteq [account : Accounts, subject : Subjects] /\ Issued'
<1>0. /\ session \subseteq [account : Accounts, subject : Subjects]
      /\ Issued /\ Grows
      /\ \A c \in Callbacks : RowCarried(account, callback[c])
  BY RowsNext DEF SignInInv, TypeOK, Carried
<1>1. ASSUME UNCHANGED session
      PROVE  session' \subseteq [account : Accounts, subject : Subjects] /\ Issued'
  <2> SUFFICES ASSUME NEW x \in session PROVE account'[x.account].subject = x.subject
    BY <1>0, <1>1 DEF Issued
  <2>1. x.account \in Accounts /\ x.subject \in Subjects
    BY <1>0
  <2> QED
    BY <1>0, <2>1, SignInNoneAssumption DEF Issued, Grows
<1>2. ASSUME NEW c \in Callbacks, IssueSession(c)
      PROVE  session' \subseteq [account : Accounts, subject : Subjects] /\ Issued'
  <2> DEFINE new == [account |-> callback[c].target, subject |-> callback[c].subject]
  <2>1. /\ callback[c].target \in Accounts /\ callback[c].subject \in Subjects
        /\ account[callback[c].target].subject = callback[c].subject
    BY <1>0, <1>2 DEF IssueSession, RowCarried, Resolving
  <2>2. session' = session \cup {new} /\ UNCHANGED account
    BY <1>2 DEF IssueSession
  <2>3. new \in [account : Accounts, subject : Subjects]
        /\ account[new.account].subject = new.subject
    BY <2>1
  <2> HIDE DEF new
  <2> QED
    BY <1>0, <2>2, <2>3 DEF Issued
<1>3. ASSUME NEW t \in States, StartGoogle(t) \/ Expire(t)
      PROVE  UNCHANGED session
  BY <1>3 DEF StartGoogle, Expire
<1>4. ASSUME \/ \E a \in Accounts, e \in Emails, n \in Names : Register(a, e, n)
             \/ \E a \in Accounts : Deactivate(a)
      PROVE  UNCHANGED session
  BY <1>4 DEF Register, Deactivate
<1>5. ASSUME NEW c \in Callbacks, CallbackNext(c)
      PROVE  session' \subseteq [account : Accounts, subject : Subjects] /\ Issued'
  <2>1. UNCHANGED session \/ IssueSession(c)
    BY <1>5 DEF CallbackNext, BeginCallback, Exchange, FailCallback, FindBySubject,
                MatchEmail, PickUsername, LinkAccount, CreateAccount
  <2> QED
    BY <1>1, <1>2, <2>1
<1>6. UNCHANGED vars => UNCHANGED session
  BY DEF vars
<1> QED
  BY <1>1, <1>3, <1>4, <1>5, <1>6 DEF Next

LEMMA StatesTyped ==
  ASSUME SignInInv, [Next]_vars
  PROVE  oauth' \in [States -> {"unused", "issued", "gone"}]
<1>0. oauth \in [States -> {"unused", "issued", "gone"}]
  BY DEF SignInInv, TypeOK
<1>1. ASSUME NEW t \in States, StartGoogle(t) \/ Expire(t)
      PROVE  oauth' \in [States -> {"unused", "issued", "gone"}]
  BY <1>0, <1>1 DEF StartGoogle, Expire
<1>2. ASSUME \/ \E a \in Accounts, e \in Emails, n \in Names : Register(a, e, n)
             \/ \E a \in Accounts : Deactivate(a)
      PROVE  UNCHANGED oauth
  BY <1>2 DEF Register, Deactivate
<1>3. ASSUME NEW c \in Callbacks, CallbackNext(c)
      PROVE  oauth' \in [States -> {"unused", "issued", "gone"}]
  <2>1. UNCHANGED oauth \/ \E t \in States : oauth' = [oauth EXCEPT ![t] = "gone"]
    BY <1>3 DEF CallbackNext, BeginCallback, Consume, Exchange, FailCallback, FindBySubject,
                MatchEmail, PickUsername, LinkAccount, CreateAccount, IssueSession
  <2> QED
    BY <1>0, <2>1
<1>4. UNCHANGED vars => UNCHANGED oauth
  BY DEF vars
<1> QED
  BY <1>0, <1>1, <1>2, <1>3, <1>4 DEF Next

LEMMA SignInInductive ==
  /\ Init => SignInInv
  /\ SignInInv /\ [Next]_vars => SignInInv'
<1>1. SignInInv /\ [Next]_vars => SignInInv'
  BY RowsNext, CarriedNext, IssuedNext, StatesTyped DEF SignInInv, TypeOK
<1> QED
  BY <1>1, InitHolds

\* The tables of the sign-in component keep their types.
THEOREM SignInTypeSafety == Spec => []TypeOK
<1>1. SignInInv => TypeOK
  BY DEF SignInInv
<1> QED
  BY <1>1, SignInInductive, PTL DEF Spec

\* However many callbacks cross, registrations and deactivations among them, a
\* Google identity signs in to one account, and to none that has a password.
THEOREM IdentityIsOneAccount == Spec => []OneAccountPerIdentity
<1>1. ASSUME SignInInv, NEW x \in session
      PROVE  /\ account[x.account].subject = x.subject
             /\ ~account[x.account].password
             /\ WithSubject(x.subject) = {x.account}
  <2>1. x.account \in Accounts /\ x.subject # None /\ account[x.account].subject = x.subject
    BY <1>1, SignInNoneAssumption DEF SignInInv, TypeOK, Issued
  <2> QED
    BY <1>1, <2>1 DEF SignInInv, RowsOK, WithSubject
<1>2. SignInInv => OneAccountPerIdentity
  BY <1>1 DEF OneAccountPerIdentity
<1> QED
  BY <1>2, SignInInductive, PTL DEF Spec

\* Of the callbacks that bring one OAuth state, one gets past its check.
THEOREM StateIsSpentOnce == Spec => []StateSignsInOnce
<1> DEFINE Inv == SignInInv /\ StatesAreSpent /\ StateSignsInOnce
<1>1. Init => Inv
  <2>1. Init => callback = [c \in Callbacks |-> NewCallback]
    BY DEF Init
  <2>2. NewCallback.state = None
    BY DEF NewCallback
  <2> QED
    BY <2>1, <2>2, InitHolds DEF StatesAreSpent, StateSignsInOnce
<1>2. Inv /\ [Next]_vars => Inv'
  <2> SUFFICES ASSUME Inv, [Next]_vars PROVE (StatesAreSpent /\ StateSignsInOnce)'
    BY SignInInductive
  <2>0. /\ callback \in [Callbacks -> CallbackRow]
        /\ oauth \in [States -> {"unused", "issued", "gone"}]
    BY DEF SignInInv, TypeOK
  <2>1. ASSUME \A c \in Callbacks : callback'[c].state = callback[c].state,
               \A t \in States : oauth[t] = "gone" => oauth'[t] = "gone"
        PROVE  (StatesAreSpent /\ StateSignsInOnce)'
    BY <2>0, <2>1 DEF StatesAreSpent, StateSignsInOnce, CallbackRow
  <2>2. ASSUME NEW t \in States, StartGoogle(t) \/ Expire(t)
        PROVE  (StatesAreSpent /\ StateSignsInOnce)'
    BY <2>0, <2>1, <2>2 DEF StartGoogle, Expire
  <2>3. ASSUME \/ \E a \in Accounts, e \in Emails, n \in Names : Register(a, e, n)
               \/ \E a \in Accounts : Deactivate(a)
        PROVE  (StatesAreSpent /\ StateSignsInOnce)'
    BY <2>1, <2>3 DEF Register, Deactivate
  <2>4. ASSUME NEW c \in Callbacks, NEW t \in States, BeginCallback(c, t)
        PROVE  (StatesAreSpent /\ StateSignsInOnce)'
    <3>1. /\ oauth[t] = "issued" /\ oauth' = [oauth EXCEPT ![t] = "gone"]
          /\ callback'[c].state = t
          /\ \A d \in Callbacks \ {c} : callback'[d] = callback[d]
      BY <2>0, <2>4 DEF BeginCallback, Consume, CallbackRow
    <3>2. \A d \in Callbacks : callback[d].state # t
      BY <3>1, SignInNoneAssumption DEF StatesAreSpent
    <3>3. StatesAreSpent'
      BY <2>0, <3>1 DEF StatesAreSpent, CallbackRow
    <3> QED
      BY <3>1, <3>2, <3>3 DEF StateSignsInOnce
  <2>5. ASSUME NEW c \in Callbacks, CallbackNext(c)
        PROVE  (StatesAreSpent /\ StateSignsInOnce)'
    <3>1. ASSUME NEW stage, NEW a, NEW n, NEW k,
                 \/ callback' = [callback EXCEPT ![c].stage = stage]
                 \/ callback' = [callback EXCEPT ![c].stage = stage, ![c].target = a]
                 \/ callback' = [callback EXCEPT ![c].stage = stage, ![c].name = n]
                 \/ callback' = [callback EXCEPT ![c].stage = stage, ![c].target = a,
                                                 ![c].name = n, ![c].attempt = k]
          PROVE  \A d \in Callbacks : callback'[d].state = callback[d].state
      BY <2>0, <3>1 DEF CallbackRow
    <3>2. CASE \E t \in States : BeginCallback(c, t)
      BY <2>4, <3>2
    <3>3. ASSUME NEW s \in Subjects, NEW e \in Emails, Exchange(c, s, e)
          PROVE  (StatesAreSpent /\ StateSignsInOnce)'
      <4>1. \A d \in Callbacks : callback'[d].state = callback[d].state
        <5>1. PICK known : known = InUse
          OBVIOUS
        <5>2. callback' = [callback EXCEPT ![c].stage = "subject", ![c].subject = s,
                             ![c].email = e, ![c].attempt = 1, ![c].known = known]
          BY <3>3, <5>1 DEF Exchange
        <5> QED
          BY <2>0, <5>2 DEF CallbackRow
      <4> QED
        BY <2>1, <3>3, <4>1 DEF Exchange
    <3>4. CASE FailCallback(c) \/ IssueSession(c)
      BY <2>1, <3>1, <3>4 DEF FailCallback, IssueSession, Ends
    <3>5. CASE FindBySubject(c) \/ MatchEmail(c)
      BY <2>1, <3>1, <3>5 DEF FindBySubject, MatchEmail, Ends, Resolves
    <3>6. CASE PickUsername(c)
      BY <2>1, <3>1, <3>6 DEF PickUsername, Ends
    <3>7. ASSUME LinkAccount(c) \/ \E a \in Accounts : CreateAccount(c, a)
          PROVE  (StatesAreSpent /\ StateSignsInOnce)'
      <4>1. UNCHANGED oauth /\ (TryAgain(c) \/ \E a : Resolves(c, a))
        BY <3>7 DEF LinkAccount, CreateAccount
      <4>2. \A d \in Callbacks : callback'[d].state = callback[d].state
        <5>1. CASE TryAgain(c)
          BY <2>0, <5>1 DEF TryAgain, Ends, CallbackRow
        <5>2. CASE \E a : Resolves(c, a)
          BY <3>1, <5>2 DEF Resolves
        <5> QED
          BY <4>1, <5>1, <5>2
      <4> QED
        BY <2>1, <4>1, <4>2
    <3> QED
      BY <2>5, <3>2, <3>3, <3>4, <3>5, <3>6, <3>7 DEF CallbackNext
  <2>6. UNCHANGED vars => (StatesAreSpent /\ StateSignsInOnce)'
    BY <2>1 DEF vars
  <2> QED
    BY <2>1, <2>2, <2>3, <2>4, <2>5, <2>6 DEF Next
<1> QED
  BY <1>1, <1>2, PTL DEF Spec

-----------------------------------------------------------------------------
(* Lost races.  A write that is refused was refused because of a sign-up    *)
(* that was not there when the attempt looked, and each sign-up puts one    *)
(* more account to use.                                                     *)

UniqueEmails ==
  \A a, b \in Accounts : account[a].email = account[b].email => a = b \/ ~Exists(a)

\* The attempt will not get as far as a write: its address is deactivated.
Hopeless(row) ==
  /\ row.stage \in {"subject", "email"}
  /\ \E a \in WithEmail(row.email) : ~account[a].active

\* What the attempt has looked at has been taken since.
Beaten(row) ==
  \/ row.stage \in {"email", "link", "create"} /\ WithSubject(row.subject) # {}
  \/ row.stage = "link" /\ account[row.target].subject # None
  \/ row.stage = "create" /\ ~IsFree(row.email, row.name)

\* The sign-ups since the attempts began.
Since(row) == InUse \ row.known

RaceRow(row) ==
  /\ row.known \subseteq InUse
  /\ row.stage \in {"subject", "email", "link", "create"} =>
       row.attempt <= Cardinality(Since(row)) + 1 \/ Hopeless(row)
  /\ Beaten(row) => row.attempt <= Cardinality(Since(row)) \/ Hopeless(row)
  /\ row.stage = "link" =>
       row.target \in WithEmail(row.email) /\ ~account[row.target].password

RaceInv ==
  /\ IsFiniteSet(InUse)
  /\ UniqueEmails
  /\ \A a \in Accounts : account[a].password => Exists(a)
  /\ \A c \in Callbacks : RaceRow(callback[c])

LEMMA InitRace == Init => RaceInv
<1> SUFFICES ASSUME Init PROVE RaceInv
  OBVIOUS
<1>1. PICK email \in [Passwordless -> Emails], name \in [Passwordless -> Names] :
        /\ IsInjective(email)
        /\ account = [a \in Accounts |->
          IF a \in Passwordless
            THEN [NoAccount EXCEPT !.email = email[a], !.name = name[a], !.active = TRUE]
            ELSE NoAccount]
  BY DEF Init
<1>2. \A a \in Accounts :
        /\ account[a].subject = None /\ ~account[a].password
        /\ account[a].email = IF a \in Passwordless THEN email[a] ELSE None
  <2>1. NoAccount.subject = None /\ ~NoAccount.password /\ NoAccount.email = None
    BY DEF NoAccount
  <2>2. \A e \in Emails, n \in Names :
          /\ [NoAccount EXCEPT !.email = e, !.name = n, !.active = TRUE].subject = None
          /\ ~[NoAccount EXCEPT !.email = e, !.name = n, !.active = TRUE].password
          /\ [NoAccount EXCEPT !.email = e, !.name = n, !.active = TRUE].email = e
    BY DEF NoAccount
  <2>3. ASSUME NEW a \in Accounts, a \in Passwordless
        PROVE  /\ account[a].subject = None /\ ~account[a].password
               /\ account[a].email = email[a]
    <3>1. email[a] \in Emails /\ name[a] \in Names
      BY <2>3
    <3>2. account[a] = [NoAccount EXCEPT !.email = email[a], !.name = name[a], !.active = TRUE]
      BY <1>1, <2>3
    <3> QED
      BY <2>2, <3>1, <3>2
  <2>4. \A a \in Accounts \ Passwordless : account[a] = NoAccount
    BY <1>1
  <2> QED
    BY <2>1, <2>3, <2>4
<1>3. InUse = {}
  BY <1>2 DEF InUse
<1>4. UniqueEmails
  <2>1. \A a, b \in Passwordless : email[a] = email[b] => a = b
    BY <1>1 DEF IsInjective
  <2>2. \A a \in Passwordless : email[a] # None
    BY SignInNoneAssumption
  <2> QED
    BY <1>2, <2>1, <2>2 DEF UniqueEmails, Exists
<1>5. \A c \in Callbacks : RaceRow(callback[c])
  BY DEF Init, RaceRow, NewCallback, Beaten
<1> QED
  BY <1>2, <1>3, <1>4, <1>5, FS_EmptySet DEF RaceInv

\* Nobody signs up: at most an account is deactivated.
Quiet ==
  \A a \in Accounts :
    /\ account'[a].email = account[a].email /\ account'[a].name = account[a].name
    /\ account'[a].subject = account[a].subject
    /\ account'[a].password = account[a].password
    /\ account'[a].active => account[a].active

\* An account is made, or one that was there without a way in is linked.
SignsUp(a) ==
  /\ \A b \in Accounts \ {a} : account'[b] = account[b]
  /\ account'[a].password \/ account'[a].subject # None
  /\ account'[a].email # None
  /\ \/ ~Exists(a) /\ WithEmail(account'[a].email) = {}
     \/ /\ Exists(a) /\ account'[a].email = account[a].email
        /\ account[a].subject = None /\ ~account[a].password
        /\ ~account'[a].password /\ account'[a].active = account[a].active

LEMMA AccountMoves ==
  ASSUME SignInInv, RaceInv, [Next]_vars
  PROVE  Quiet \/ \E a \in Accounts : SignsUp(a)
<1>0. /\ account \in [Accounts -> AccountRow]
      /\ \A c \in Callbacks : RowCarried(account, callback[c])
  BY DEF SignInInv, TypeOK, Carried
<1>1. UNCHANGED account => Quiet
  BY DEF Quiet
<1>2. ASSUME NEW a \in Accounts, NEW e \in Emails, NEW n \in Names, Register(a, e, n)
      PROVE  SignsUp(a)
  <2>1. PICK row : row = [NoAccount EXCEPT !.email = e, !.name = n,
                                           !.password = TRUE, !.active = TRUE]
    OBVIOUS
  <2>2. row.email = e /\ row.password
    BY <2>1 DEF NoAccount
  <2>3. account' = [account EXCEPT ![a] = row] /\ ~Exists(a) /\ WithEmail(e) = {}
    BY <1>2, <2>1 DEF Register, IsFree
  <2>4. account'[a] = row /\ \A b \in Accounts \ {a} : account'[b] = account[b]
    BY <1>0, <2>3
  <2> QED
    BY <2>2, <2>3, <2>4, SignInNoneAssumption DEF SignsUp
<1>3. ASSUME NEW a \in Accounts, Deactivate(a) PROVE Quiet
  <2>1. PICK row : row = [account[a] EXCEPT !.active = FALSE]
    OBVIOUS
  <2>2. /\ row.email = account[a].email /\ row.name = account[a].name
        /\ row.subject = account[a].subject /\ row.password = account[a].password
        /\ row.active = FALSE
    BY <1>0, <2>1 DEF AccountRow
  <2>3. account' = [account EXCEPT ![a] = row]
    BY <1>0, <1>3, <2>1 DEF Deactivate
  <2>4. account'[a] = row /\ \A b \in Accounts \ {a} : account'[b] = account[b]
    BY <1>0, <2>3
  <2> QED
    BY <2>2, <2>4 DEF Quiet
<1>4. ASSUME NEW c \in Callbacks, LinkAccount(c) PROVE Quiet \/ \E a \in Accounts : SignsUp(a)
  <2>1. PICK a, s : a = callback[c].target /\ s = callback[c].subject
    OBVIOUS
  <2>2. a \in Accounts /\ Exists(a) /\ s \in Subjects
    BY <1>0, <1>4, <2>1 DEF LinkAccount, RowCarried, Resolving, Exists
  <2>3. CASE StillLinkable(c, a)
    <3>1. PICK row : row = [account[a] EXCEPT !.subject = s]
      OBVIOUS
    <3>2. /\ row.email = account[a].email /\ row.subject = s
          /\ row.password = account[a].password /\ row.active = account[a].active
      BY <1>0, <2>2, <3>1 DEF AccountRow
    <3>3. account' = [account EXCEPT ![a] = row]
      BY <1>0, <1>4, <2>1, <2>2, <2>3, <3>1 DEF LinkAccount
    <3>4. account'[a] = row /\ \A b \in Accounts \ {a} : account'[b] = account[b]
      BY <1>0, <2>2, <3>3
    <3>5. account[a].subject = None /\ ~account[a].password
      BY <2>3 DEF StillLinkable
    <3>6. SignsUp(a)
      BY <2>2, <3>2, <3>4, <3>5, SignInNoneAssumption DEF SignsUp, Exists
    <3> QED
      BY <2>2, <3>6
  <2>4. CASE ~StillLinkable(c, a)
    BY <1>1, <1>4, <2>1, <2>4 DEF LinkAccount, TryAgain
  <2> QED
    BY <2>3, <2>4
<1>5. ASSUME NEW c \in Callbacks, NEW a \in Accounts, CreateAccount(c, a)
      PROVE  Quiet \/ SignsUp(a)
  <2>1. PICK e, n, s :
          e = callback[c].email /\ n = callback[c].name /\ s = callback[c].subject
    OBVIOUS
  <2>2. e \in Emails /\ s \in Subjects /\ ~Exists(a)
    BY <1>0, <1>5, <2>1 DEF CreateAccount, RowCarried, Resolving
  <2>3. CASE IsFree(e, n) /\ WithSubject(s) = {}
    <3>1. PICK row : row = [email |-> e, name |-> n, subject |-> s,
                            password |-> FALSE, active |-> TRUE]
      OBVIOUS
    <3>2. account' = [account EXCEPT ![a] = row] /\ WithEmail(e) = {}
      BY <1>5, <2>1, <2>3, <3>1 DEF CreateAccount, IsFree
    <3>3. account'[a] = row /\ \A b \in Accounts \ {a} : account'[b] = account[b]
      BY <1>0, <3>2
    <3>4. row.email = e /\ row.subject = s
      BY <3>1
    <3>5. account'[a].email = e /\ account'[a].subject = s
      BY <3>3, <3>4
    <3> QED
      BY <2>2, <3>2, <3>3, <3>5, SignInNoneAssumption DEF SignsUp
  <2>4. CASE ~(IsFree(e, n) /\ WithSubject(s) = {})
    BY <1>1, <1>5, <2>1, <2>4 DEF CreateAccount, TryAgain
  <2> QED
    BY <2>3, <2>4
<1>6. ASSUME NEW c \in Callbacks, CallbackNext(c)
      PROVE  Quiet \/ \E a \in Accounts : SignsUp(a)
  <2>1. UNCHANGED account \/ LinkAccount(c) \/ \E a \in Accounts : CreateAccount(c, a)
    BY <1>6 DEF CallbackNext, BeginCallback, Exchange, FailCallback, FindBySubject,
                MatchEmail, PickUsername, IssueSession
  <2> QED
    BY <1>1, <1>4, <1>5, <2>1
<1>7. ASSUME NEW t \in States, StartGoogle(t) \/ Expire(t) PROVE Quiet
  BY <1>1, <1>7 DEF StartGoogle, Expire
<1> QED
  BY <1>1, <1>2, <1>3, <1>6, <1>7 DEF Next, vars

\* A sign-up puts one more account to use; nothing takes one out of use.
LEMMA InUseGrows ==
  ASSUME SignInInv, RaceInv
  PROVE  /\ Quiet => InUse' = InUse
         /\ \A a \in Accounts : SignsUp(a) =>
              IsFiniteSet(InUse') /\ a \notin InUse /\ InUse' = InUse \cup {a}
<1>1. Quiet => InUse' = InUse
  BY DEF Quiet, InUse
<1>2. ASSUME NEW a \in Accounts, SignsUp(a)
      PROVE  IsFiniteSet(InUse') /\ a \notin InUse /\ InUse' = InUse \cup {a}
  <2>1. a \notin InUse
    BY <1>2 DEF SignsUp, InUse, RaceInv, SignInInv, RowsOK
  <2>2. InUse' = InUse \cup {a}
    BY <1>2 DEF SignsUp, InUse
  <2> QED
    BY <2>1, <2>2, FS_AddElement DEF RaceInv
<1> QED
  BY <1>1, <1>2

LEMMA SinceCount ==
  ASSUME RaceInv, NEW row
  PROVE  IsFiniteSet(Since(row)) /\ Cardinality(Since(row)) \in Nat
  BY FS_Subset, FS_CardinalityType DEF RaceInv, Since

\* As seen by a callback that knew of some of the accounts.
LEMMA SinceGrows ==
  ASSUME SignInInv, RaceInv, NEW row, row.known \subseteq InUse
  PROVE  \A a \in Accounts : SignsUp(a) =>
              /\ row.known \subseteq InUse'
              /\ Cardinality(InUse' \ row.known) = Cardinality(Since(row)) + 1
<1>0. IsFiniteSet(Since(row)) /\ Cardinality(Since(row)) \in Nat
  BY SinceCount
<1>1. ASSUME NEW a \in Accounts, SignsUp(a)
      PROVE  /\ row.known \subseteq InUse'
             /\ Cardinality(InUse' \ row.known) = Cardinality(Since(row)) + 1
  <2>1. a \notin InUse /\ InUse' = InUse \cup {a}
    BY <1>1, InUseGrows
  <2>2. InUse' \ row.known = Since(row) \cup {a} /\ a \notin Since(row)
    BY <2>1 DEF Since
  <2> QED
    BY <1>0, <2>1, <2>2, FS_AddElement
<1> QED
  BY <1>0, <1>1

LEMMA AccountsRace ==
  ASSUME SignInInv, RaceInv, [Next]_vars
  PROVE  /\ IsFiniteSet(InUse)'
         /\ UniqueEmails'
         /\ (\A a \in Accounts : account[a].password => Exists(a))'
<1>0. /\ IsFiniteSet(InUse) /\ UniqueEmails
      /\ \A a \in Accounts : account[a].password => Exists(a)
  BY DEF RaceInv
<1>1. CASE Quiet
  <2>1. \A a \in Accounts : account'[a].email = account[a].email
                            /\ account'[a].password = account[a].password
    BY <1>1 DEF Quiet
  <2> QED
    BY <1>0, <1>1, <2>1, InUseGrows DEF UniqueEmails, Exists
<1>2. ASSUME NEW a \in Accounts, SignsUp(a)
      PROVE  /\ IsFiniteSet(InUse)'
             /\ UniqueEmails'
             /\ (\A b \in Accounts : account[b].password => Exists(b))'
  <2>1. /\ \A b \in Accounts \ {a} : account'[b] = account[b]
        /\ account'[a].email # None
        /\ \/ \A b \in Accounts : account[b].email # account'[a].email
           \/ Exists(a) /\ account'[a].email = account[a].email
    BY <1>2 DEF SignsUp, WithEmail
  <2>2. UniqueEmails'
    BY <1>0, <2>1 DEF UniqueEmails, Exists
  <2>3. (\A b \in Accounts : account[b].password => Exists(b))'
    BY <1>0, <2>1 DEF Exists
  <2> QED
    BY <1>2, <2>2, <2>3, InUseGrows
<1> QED
  BY <1>1, <1>2, AccountMoves

\* What others do leaves a callback as well placed as it was.
LEMMA RaceGoesOn ==
  ASSUME SignInInv, RaceInv, [Next]_vars, NEW row \in CallbackRow, RaceRow(row),
         RowCarried(account, row)
  PROVE  RaceRow(row)'
<1>0. /\ Cardinality(Since(row)) \in Nat /\ row.attempt \in Nat
      /\ row.known \subseteq InUse
      /\ row.stage \in {"subject", "email", "link", "create"} => row.email # None
  BY SinceCount, SignInNoneAssumption, AttemptsAssumption
     DEF RaceRow, CallbackRow, RowCarried, Resolving
<1>1. CASE Quiet
  <2>1. /\ \A e : WithEmail(e)' = WithEmail(e)
        /\ \A s : WithSubject(s)' = WithSubject(s)
        /\ FreeNames' = FreeNames
    BY <1>1 DEF Quiet, WithEmail, WithSubject, FreeNames
  <2>2. Hopeless(row) => Hopeless(row)'
    BY <1>1, <2>1 DEF Quiet, Hopeless, WithEmail
  <2>3. row.stage = "link" => row.target \in Accounts
    BY DEF RaceRow, WithEmail
  <2>4. Beaten(row)' => Beaten(row)
    BY <1>1, <2>1, <2>3 DEF Quiet, Beaten, IsFree
  <2>5. row.stage = "link" =>
          row.target \in WithEmail(row.email)' /\ ~account'[row.target].password
    BY <1>1, <2>1, <2>3 DEF Quiet, RaceRow
  <2>6. InUse' = InUse /\ Since(row)' = Since(row)
    BY <1>1, InUseGrows DEF Since
  <2> QED
    BY <1>0, <2>2, <2>4, <2>5, <2>6 DEF RaceRow
<1>2. ASSUME NEW a \in Accounts, SignsUp(a) PROVE RaceRow(row)'
  <2>1. \A b \in Accounts : Exists(b) =>
          /\ account'[b].email = account[b].email
          /\ account'[b].active = account[b].active
          /\ ~account[b].password => ~account'[b].password
          /\ b # a => account'[b] = account[b]
    BY <1>2 DEF SignsUp
  <2>2. \A b \in WithEmail(row.email) : row.email # None =>
          /\ b \in WithEmail(row.email)'
          /\ account'[b].active = account[b].active
          /\ ~account[b].password => ~account'[b].password
    BY <2>1 DEF WithEmail, Exists
  <2>3. Hopeless(row) => Hopeless(row)'
    BY <1>0, <2>2 DEF Hopeless
  <2>4. row.known \subseteq InUse' /\ Cardinality(Since(row))' = Cardinality(Since(row)) + 1
    BY <1>0, <1>2, SinceGrows DEF Since
  <2>5. row.stage = "link" =>
          row.target \in WithEmail(row.email)' /\ ~account'[row.target].password
    BY <1>0, <2>2 DEF RaceRow
  <2>6. Beaten(row)' => row.stage \in {"subject", "email", "link", "create"}
    BY DEF Beaten
  <2>7. row.stage \in {"subject", "email", "link", "create"} =>
          row.attempt <= Cardinality(Since(row))' \/ Hopeless(row)'
    BY <1>0, <2>3, <2>4 DEF RaceRow
  <2>8. row.attempt <= Cardinality(Since(row))' => row.attempt <= Cardinality(Since(row))' + 1
    BY <1>0, <2>4
  <2> QED
    BY <2>4, <2>5, <2>6, <2>7, <2>8 DEF RaceRow
<1> QED
  BY <1>1, <1>2, AccountMoves

\* A callback's own step, as it matters for the race: it leaves the rivalry, it
\* begins an attempt, or it goes on with one.
Moves(row, new) ==
  \/ new = row
  \/ new.stage \notin {"subject", "email", "link", "create"} /\ new.known = row.known
  \/ new.stage = "subject" /\ new.attempt = 1 /\ new.known = InUse /\ UNCHANGED account
  \/ /\ row.stage = "subject" /\ WithSubject(row.subject) = {} /\ UNCHANGED account
     /\ new = [row EXCEPT !.stage = "email"]
  \/ \E a \in WithEmail(row.email) :
       /\ row.stage = "email" /\ UNCHANGED account
       /\ account[a].active /\ account[a].subject = None /\ ~account[a].password
       /\ new = [row EXCEPT !.stage = "link", !.target = a]
  \/ \E n \in FreeNames :
       /\ row.stage = "email" /\ UNCHANGED account
       /\ WithEmail(row.email) = {}
       /\ new = [row EXCEPT !.stage = "create", !.name = n]
  \/ /\ UNCHANGED account
     /\ Beaten(row) \/ (row.stage = "link" /\ ~account[row.target].active)
     /\ row.stage \in {"link", "create"}
     /\ new = [row EXCEPT !.stage = "subject", !.target = None, !.name = NoName, !.attempt = @ + 1]

LEMMA StageOnly ==
  ASSUME TypeOK, NEW c \in Callbacks, NEW stage, Ends(c, stage),
         stage \in {"done", "conflict"}
  PROVE  Moves(callback[c], callback'[c])
<1>1. callback'[c] = [callback[c] EXCEPT !.stage = stage]
  BY DEF Ends, TypeOK
<1>2. callback'[c].stage = stage /\ callback'[c].known = callback[c].known
  BY <1>1 DEF TypeOK, CallbackRow
<1> QED
  BY <1>2 DEF Moves

LEMMA ResolvesMoves ==
  ASSUME TypeOK, NEW c \in Callbacks, NEW a, Resolves(c, a)
  PROVE  Moves(callback[c], callback'[c])
<1>1. callback'[c] = [callback[c] EXCEPT !.stage = "issue", !.target = a]
  BY DEF Resolves, TypeOK
<1>2. callback'[c].stage = "issue" /\ callback'[c].known = callback[c].known
  BY <1>1 DEF TypeOK, CallbackRow
<1> QED
  BY <1>2 DEF Moves

\* Why a write is refused.
LEMMA RefusedWrite ==
  ASSUME SignInInv, RaceInv, NEW c \in Callbacks
  PROVE  /\ LinkAccount(c) => \/ \E a : Resolves(c, a)
                              \/ /\ TryAgain(c)
                                 /\ \/ Beaten(callback[c])
                                    \/ ~account[callback[c].target].active
         /\ \A a \in Accounts : CreateAccount(c, a) =>
              Resolves(c, a) \/ (TryAgain(c) /\ Beaten(callback[c]))
<1>1. ASSUME LinkAccount(c), ~StillLinkable(c, callback[c].target)
      PROVE  \/ Beaten(callback[c])
             \/ ~account[callback[c].target].active
  <2>1. callback[c].stage = "link" /\ ~account[callback[c].target].password
    BY <1>1 DEF LinkAccount, RaceInv, RaceRow
  <2> QED
    BY <1>1, <2>1 DEF StillLinkable, Beaten
<1>2. LinkAccount(c) => \/ \E a : Resolves(c, a)
                        \/ (TryAgain(c) /\ ~StillLinkable(c, callback[c].target))
  BY DEF LinkAccount
<1>3. ASSUME NEW a \in Accounts, CreateAccount(c, a)
      PROVE  Resolves(c, a) \/ (TryAgain(c) /\ Beaten(callback[c]))
  BY <1>3 DEF CreateAccount, Beaten
<1> QED
  BY <1>1, <1>2, <1>3

LEMMA CallbackMoves ==
  ASSUME SignInInv, RaceInv, NEW c \in Callbacks, CallbackNext(c)
  PROVE  /\ \A d \in Callbacks \ {c} : callback'[d] = callback[d]
         /\ Moves(callback[c], callback'[c])
<1> DEFINE row == callback[c]
           Goal == Moves(callback[c], callback'[c])
<1>0. TypeOK /\ callback \in [Callbacks -> CallbackRow] /\ row \in CallbackRow
  BY DEF SignInInv, TypeOK
<1>1. ASSUME NEW t \in States, BeginCallback(c, t) PROVE Goal
  <2>1. callback'[c] = [row EXCEPT !.stage = "exchanging", !.state = t]
    BY <1>0, <1>1 DEF BeginCallback
  <2>2. callback'[c].stage = "exchanging" /\ callback'[c].known = row.known
    BY <1>0, <2>1 DEF CallbackRow
  <2> QED
    BY <2>2 DEF Moves
<1>2. ASSUME NEW s \in Subjects, NEW e \in Emails, Exchange(c, s, e) PROVE Goal
  <2>1. callback'[c] = [row EXCEPT !.stage = "subject", !.subject = s, !.email = e,
                                   !.attempt = 1, !.known = InUse]
    BY <1>0, <1>2 DEF Exchange
  <2>2. /\ callback'[c].stage = "subject" /\ callback'[c].attempt = 1
        /\ callback'[c].known = InUse
    BY <1>0, <2>1 DEF CallbackRow
  <2> QED
    BY <1>2, <2>2 DEF Exchange, Moves
<1>3. FailCallback(c) \/ IssueSession(c) => Goal
  BY <1>0, StageOnly DEF FailCallback, IssueSession
<1>4. ASSUME FindBySubject(c) PROVE Goal
  <2>1. CASE WithSubject(row.subject) = {}
    <3>1. callback'[c] = [row EXCEPT !.stage = "email"]
      BY <1>0, <1>4, <2>1 DEF FindBySubject
    <3> QED
      BY <1>4, <2>1, <3>1 DEF FindBySubject, Moves
  <2>2. CASE WithSubject(row.subject) # {}
    BY <1>0, <1>4, <2>2, StageOnly, ResolvesMoves DEF FindBySubject
  <2> QED
    BY <2>1, <2>2
<1>5. ASSUME MatchEmail(c) PROVE Goal
  <2>1. PICK a \in WithEmail(row.email) :
          \/ Ends(c, "done") \/ Ends(c, "conflict") \/ Resolves(c, a)
          \/ /\ account[a].active /\ IsLinkable(c, a)
             /\ callback' = [callback EXCEPT ![c].stage = "link", ![c].target = a]
    BY <1>5 DEF MatchEmail
  <2>2. ASSUME account[a].active, IsLinkable(c, a),
               callback' = [callback EXCEPT ![c].stage = "link", ![c].target = a]
        PROVE  Goal
    <3>1. callback'[c] = [row EXCEPT !.stage = "link", !.target = a]
      BY <1>0, <2>2
    <3> QED
      BY <1>5, <2>2, <3>1 DEF MatchEmail, IsLinkable, Moves
  <2> QED
    BY <1>0, <2>1, <2>2, StageOnly, ResolvesMoves
<1>6. ASSUME PickUsername(c) PROVE Goal
  <2>1. CASE FreeNames # {}
    <3>1. Least(FreeNames) \in FreeNames
      BY <2>1, LeastIsMember, NamesAssumption DEF FreeNames
    <3>2. callback'[c] = [row EXCEPT !.stage = "create", !.name = Least(FreeNames)]
      BY <1>0, <1>6, <2>1 DEF PickUsername
    <3> QED
      BY <1>6, <3>1, <3>2 DEF PickUsername, Moves
  <2> QED
    BY <1>0, <1>6, <2>1, StageOnly DEF PickUsername
<1>7. ASSUME TryAgain(c), row.stage \in {"link", "create"},
             Beaten(row) \/ (row.stage = "link" /\ ~account[row.target].active)
      PROVE  Goal
  <2>1. CASE MayRetry(c)
    <3>1. callback'[c] = [row EXCEPT !.stage = "subject", !.target = None,
                                     !.name = NoName, !.attempt = @ + 1]
      BY <1>0, <1>7, <2>1 DEF TryAgain
    <3> QED
      BY <1>7, <3>1 DEF TryAgain, Moves
  <2> QED
    BY <1>0, <1>7, <2>1, StageOnly DEF TryAgain
<1>8. LinkAccount(c) => Goal
  BY <1>0, <1>7, RefusedWrite, ResolvesMoves DEF LinkAccount
<1>9. ASSUME NEW a \in Accounts, CreateAccount(c, a) PROVE Goal
  BY <1>0, <1>7, <1>9, RefusedWrite, ResolvesMoves DEF CreateAccount
<1>10. \A d \in Callbacks \ {c} : callback'[d] = callback[d]
  BY <1>0 DEF CallbackNext, BeginCallback, Exchange, FailCallback, FindBySubject,
              MatchEmail, PickUsername, LinkAccount, CreateAccount, IssueSession,
              TryAgain, Ends, Resolves
<1> QED
  BY <1>1, <1>2, <1>3, <1>4, <1>5, <1>6, <1>8, <1>9, <1>10 DEF CallbackNext

\* Wherever the callback goes, it has lost no more races than there were sign-ups.
LEMMA MovesRace ==
  ASSUME SignInInv, RaceInv, [Next]_vars, NEW row \in CallbackRow, NEW new \in CallbackRow,
         RaceRow(row), RowCarried(account, row), Moves(row, new)
  PROVE  RaceRow(new)'
<1>0. /\ Cardinality(Since(row)) \in Nat /\ row.attempt \in Nat
      /\ row.known \subseteq InUse
  BY SinceCount, AttemptsAssumption DEF RaceRow, CallbackRow
<1>1. ASSUME UNCHANGED account, RaceRow(new) PROVE RaceRow(new)'
  <2>1. /\ InUse' = InUse /\ \A e : WithEmail(e)' = WithEmail(e)
        /\ \A s : WithSubject(s)' = WithSubject(s)
        /\ FreeNames' = FreeNames
    BY <1>1 DEF InUse, WithEmail, WithSubject, FreeNames
  <2>2. Beaten(new)' <=> Beaten(new)
    BY <1>1, <2>1 DEF Beaten, IsFree
  <2>3. Hopeless(new)' <=> Hopeless(new)
    BY <1>1, <2>1 DEF Hopeless
  <2>4. Since(new)' = Since(new)
    BY <2>1 DEF Since
  <2> QED
    BY <1>1, <2>1, <2>2, <2>3, <2>4 DEF RaceRow
<1>2. CASE new = row
  BY <1>2, RaceGoesOn
<1>3. CASE new.stage \notin {"subject", "email", "link", "create"} /\ new.known = row.known
  <2>1. row.known \subseteq InUse'
    BY <1>0, AccountMoves, InUseGrows
  <2> QED
    BY <1>3, <2>1 DEF RaceRow, Beaten
<1>4. CASE new.stage = "subject" /\ new.attempt = 1 /\ new.known = InUse /\ UNCHANGED account
  <2>1. ~Beaten(new)
    BY <1>4 DEF Beaten
  <2>2. Cardinality(Since(new)) \in Nat
    BY SinceCount
  <2>3. RaceRow(new)
    BY <1>4, <2>1, <2>2 DEF RaceRow
  <2> QED
    BY <1>1, <1>4, <2>3
<1>5. ASSUME row.stage = "subject", WithSubject(row.subject) = {}, UNCHANGED account,
             new = [row EXCEPT !.stage = "email"]
      PROVE  RaceRow(new)'
  <2>1. /\ new.stage = "email" /\ new.attempt = row.attempt
        /\ new.subject = row.subject /\ new.email = row.email /\ new.known = row.known
        /\ Since(new) = Since(row)
    BY <1>5 DEF CallbackRow, Since
  <2>2. Hopeless(row) => Hopeless(new)
    BY <2>1 DEF Hopeless
  <2>3. ~Beaten(new)
    BY <1>5, <2>1 DEF Beaten
  <2> QED
    BY <1>1, <1>5, <2>1, <2>2, <2>3 DEF RaceRow
<1>6. ASSUME NEW a \in WithEmail(row.email),
             row.stage = "email", UNCHANGED account,
             account[a].active, account[a].subject = None, ~account[a].password,
             new = [row EXCEPT !.stage = "link", !.target = a]
      PROVE  RaceRow(new)'
  <2>1. /\ new.stage = "link" /\ new.attempt = row.attempt /\ new.target = a
        /\ new.subject = row.subject /\ new.email = row.email /\ new.known = row.known
        /\ Since(new) = Since(row)
    BY <1>6 DEF CallbackRow, Since
  <2>2. ~Hopeless(row)
    <3>1. row.email # None
      BY <1>6, SignInNoneAssumption DEF RowCarried, Resolving
    <3>2. \A b \in WithEmail(row.email) : a = b
      BY <3>1 DEF RaceInv, UniqueEmails, WithEmail, Exists
    <3> QED
      BY <1>6, <3>2 DEF Hopeless
  <2>3. Beaten(new) => Beaten(row)
    BY <1>6, <2>1 DEF Beaten
  <2> QED
    BY <1>1, <1>6, <2>1, <2>2, <2>3 DEF RaceRow
<1>7. ASSUME NEW n \in FreeNames, row.stage = "email", UNCHANGED account,
             WithEmail(row.email) = {}, new = [row EXCEPT !.stage = "create", !.name = n]
      PROVE  RaceRow(new)'
  <2>1. /\ new.stage = "create" /\ new.attempt = row.attempt /\ new.name = n
        /\ new.subject = row.subject /\ new.email = row.email /\ new.known = row.known
        /\ Since(new) = Since(row)
    BY <1>7 DEF CallbackRow, Since
  <2>2. ~Hopeless(row)
    BY <1>7 DEF Hopeless
  <2>3. Beaten(new) => Beaten(row)
    BY <1>7, <2>1 DEF Beaten, IsFree
  <2> QED
    BY <1>1, <1>7, <2>1, <2>2, <2>3 DEF RaceRow
<1>8. ASSUME UNCHANGED account, row.stage \in {"link", "create"},
             Beaten(row) \/ (row.stage = "link" /\ ~account[row.target].active),
             new = [row EXCEPT !.stage = "subject", !.target = None,
                               !.name = NoName, !.attempt = @ + 1]
      PROVE  RaceRow(new)'
  <2>1. /\ new.stage = "subject" /\ new.attempt = row.attempt + 1
        /\ new.subject = row.subject /\ new.email = row.email /\ new.known = row.known
        /\ Since(new) = Since(row)
    BY <1>8 DEF CallbackRow, Since
  <2>2. row.attempt <= Cardinality(Since(row)) \/ Hopeless(new)
    <3>1. ~Hopeless(row)
      BY <1>8 DEF Hopeless
    <3>2. Beaten(row) => row.attempt <= Cardinality(Since(row))
      BY <3>1 DEF RaceRow
    <3>3. row.stage = "link" /\ ~account[row.target].active => Hopeless(new)
      BY <2>1 DEF RaceRow, Hopeless
    <3> QED
      BY <1>8, <3>2, <3>3
  <2>3. ~Beaten(new)
    BY <2>1 DEF Beaten
  <2> QED
    BY <1>0, <1>1, <1>8, <2>1, <2>2, <2>3 DEF RaceRow
<1> QED
  BY <1>2, <1>3, <1>4, <1>5, <1>6, <1>7, <1>8 DEF Moves

LEMMA RaceInductive ==
  SignInInv /\ RaceInv /\ [Next]_vars => RaceInv'
<1> SUFFICES ASSUME SignInInv, RaceInv, [Next]_vars
             PROVE  \A d \in Callbacks : RaceRow(callback[d])'
  BY AccountsRace DEF RaceInv
<1> SUFFICES ASSUME NEW d \in Callbacks PROVE RaceRow(callback[d])'
  OBVIOUS
<1>0. /\ callback[d] \in CallbackRow /\ RowCarried(account, callback[d])
      /\ RaceRow(callback[d])
  BY DEF SignInInv, TypeOK, Carried, RaceInv
<1>1. callback'[d] \in CallbackRow
  BY CarriedNext
<1>2. Moves(callback[d], callback'[d])
  <2>1. UNCHANGED callback => Moves(callback[d], callback'[d])
    BY DEF Moves
  <2>2. ASSUME NEW c \in Callbacks, CallbackNext(c) PROVE Moves(callback[d], callback'[d])
    <3>1. CASE c = d
      BY <2>2, <3>1, CallbackMoves
    <3>2. CASE c # d
      <4>1. callback'[d] = callback[d]
        BY <2>2, <3>2, CallbackMoves
      <4> QED
        BY <4>1 DEF Moves
    <3> QED
      BY <3>1, <3>2
  <2>3. ASSUME \/ \E a \in Accounts, e \in Emails, n \in Names : Register(a, e, n)
               \/ \E a \in Accounts : Deactivate(a)
               \/ \E t \in States : StartGoogle(t) \/ Expire(t)
        PROVE  UNCHANGED callback
    BY <2>3 DEF Register, Deactivate, StartGoogle, Expire
  <2> QED
    BY <2>1, <2>2, <2>3 DEF Next, vars
<1>3. PICK new : new = callback'[d]
  OBVIOUS
<1>4. RaceRow(new)'
  BY <1>0, <1>1, <1>2, <1>3, MovesRace
<1> QED
  BY <1>3, <1>4 DEF RaceRow, Since, Beaten, Hopeless, WithEmail, WithSubject, IsFree, FreeNames, InUse

\* A callback that ends in a conflict has met an account it must not have or an
\* exhausted choice of names, or it lost each of its attempts to a sign-up that came
\* after they began: the bounded retry of resolveGoogleAccount gives up for no other
\* reason, however many accounts there are and callbacks and registrations contend.
THEOREM ConflictsAreReal == Spec => ConflictIsReal
<1> DEFINE Inv == SignInInv /\ RaceInv
           Real(c) == callback[c].stage # "conflict" /\ callback'[c].stage = "conflict" =>
             \/ \E a \in WithEmail(callback[c].email) :
                  \/ ~account[a].active
                  \/ account[a].subject # callback[c].subject /\ ~IsLinkable(c, a)
             \/ FreeNames = {}
             \/ Cardinality(InUse \ callback[c].known) >= MaxAttempts
           Safe == \A c \in Callbacks : Real(c)
<1>1. ASSUME Inv, [Next]_vars PROVE Safe
  <2> SUFFICES ASSUME NEW c \in Callbacks,
                      callback[c].stage # "conflict", callback'[c].stage = "conflict"
               PROVE  \/ \E a \in WithEmail(callback[c].email) :
                           \/ ~account[a].active
                           \/ account[a].subject # callback[c].subject /\ ~IsLinkable(c, a)
                      \/ FreeNames = {}
                      \/ Cardinality(InUse \ callback[c].known) >= MaxAttempts
    OBVIOUS
  <2>0. /\ callback \in [Callbacks -> CallbackRow] /\ callback[c] \in CallbackRow
        /\ TypeOK /\ RaceRow(callback[c])
        /\ RowCarried(account, callback[c])
        /\ Cardinality(Since(callback[c])) \in Nat
        /\ Since(callback[c]) = InUse \ callback[c].known
    BY <1>1, SinceCount DEF SignInInv, TypeOK, RaceInv, Carried, RaceRow, Since
  <2>1. CallbackNext(c)
    <3>1. ASSUME \/ \E a \in Accounts, e \in Emails, n \in Names : Register(a, e, n)
                 \/ \E a \in Accounts : Deactivate(a)
                 \/ \E t \in States : StartGoogle(t) \/ Expire(t)
          PROVE  UNCHANGED callback
      BY <3>1 DEF Register, Deactivate, StartGoogle, Expire
    <3> QED
      BY <1>1, <3>1, CallbackMoves DEF Next, vars
  <2>2. \A stage : Ends(c, stage) => callback'[c].stage = stage
    BY <2>0 DEF Ends, CallbackRow
  <2>3. \A a : ~Resolves(c, a)
    BY <2>0 DEF Resolves, CallbackRow
  <2>4. CASE MatchEmail(c)
    <3>1. PICK a \in WithEmail(callback[c].email) :
            \/ callback' = [callback EXCEPT ![c].stage = "link", ![c].target = a]
            \/ Ends(c, "done")
            \/ account[a].subject # callback[c].subject /\ ~IsLinkable(c, a)
      BY <2>3, <2>4 DEF MatchEmail
    <3>2. callback' # [callback EXCEPT ![c].stage = "link", ![c].target = a]
      BY <2>0 DEF CallbackRow
    <3> QED
      BY <2>2, <3>1, <3>2
  <2>5. CASE PickUsername(c)
    <3>1. \A n : callback' # [callback EXCEPT ![c].stage = "create", ![c].name = n]
      BY <2>0 DEF CallbackRow
    <3> QED
      BY <2>5, <3>1 DEF PickUsername
  <2>6. ASSUME TryAgain(c) PROVE callback[c].attempt >= MaxAttempts
    <3>1. ~MayRetry(c)
      <4>1. callback' # [callback EXCEPT ![c].stage = "subject", ![c].target = None,
                           ![c].name = NoName, ![c].attempt = @ + 1]
        BY <2>0 DEF CallbackRow
      <4> QED
        BY <2>6, <4>1 DEF TryAgain
    <3> QED
      BY <2>0, <3>1, AttemptsAssumption DEF MayRetry, CallbackRow
  <2>7. CASE LinkAccount(c)
    <3>1. callback[c].stage = "link" /\ TryAgain(c)
          /\ (Beaten(callback[c]) \/ ~account[callback[c].target].active)
      BY <1>1, <2>3, <2>7, RefusedWrite DEF LinkAccount
    <3>2. callback[c].target \in WithEmail(callback[c].email)
      BY <2>0, <3>1 DEF RaceRow
    <3>3. CASE ~account[callback[c].target].active
      BY <3>2, <3>3
    <3>4. CASE Beaten(callback[c])
      <4>1. callback[c].attempt <= Cardinality(Since(callback[c]))
        BY <2>0, <3>1, <3>4 DEF RaceRow, Hopeless
      <4> QED
        BY <2>0, <2>6, <3>1, <4>1, AttemptsAssumption DEF CallbackRow
    <3> QED
      BY <3>1, <3>3, <3>4
  <2>8. ASSUME NEW a \in Accounts, CreateAccount(c, a) PROVE Cardinality(Since(callback[c])) >= MaxAttempts
    <3>1. callback[c].stage = "create" /\ TryAgain(c) /\ Beaten(callback[c])
      BY <1>1, <2>3, <2>8, RefusedWrite DEF CreateAccount
    <3>2. callback[c].attempt <= Cardinality(Since(callback[c]))
      BY <2>0, <3>1 DEF RaceRow, Hopeless
    <3> QED
      BY <2>0, <2>6, <3>1, <3>2, AttemptsAssumption DEF CallbackRow
  <2>9. ASSUME \/ \E t \in States : BeginCallback(c, t)
               \/ \E s \in Subjects, e \in Emails : Exchange(c, s, e)
               \/ FailCallback(c) \/ IssueSession(c) \/ FindBySubject(c)
        PROVE  FALSE
    <3>1. callback' # [callback EXCEPT ![c].stage = "email"]
      BY <2>0 DEF CallbackRow
    <3>2. ~Ends(c, "done")
      BY <2>2
    <3>3. CASE FindBySubject(c)
      BY <2>3, <3>1, <3>2, <3>3 DEF FindBySubject
    <3>4. CASE FailCallback(c) \/ IssueSession(c)
      BY <3>2, <3>4 DEF FailCallback, IssueSession
    <3>5. ASSUME NEW t \in States, BeginCallback(c, t) PROVE FALSE
      <4>1. callback'[c] = [callback[c] EXCEPT !.stage = "exchanging", !.state = t]
        BY <2>0, <3>5 DEF BeginCallback
      <4> QED
        BY <2>0, <4>1 DEF CallbackRow
    <3>6. ASSUME NEW s \in Subjects, NEW e \in Emails, Exchange(c, s, e) PROVE FALSE
      <4>1. callback'[c] = [callback[c] EXCEPT !.stage = "subject", !.subject = s,
                                               !.email = e, !.attempt = 1, !.known = InUse]
        BY <2>0, <3>6 DEF Exchange
      <4> QED
        BY <2>0, <4>1 DEF CallbackRow
    <3> QED
      BY <2>9, <3>3, <3>4, <3>5, <3>6
  <2> QED
    BY <2>0, <2>1, <2>4, <2>5, <2>7, <2>8, <2>9 DEF CallbackNext
<1>2. Init => Inv
  BY InitHolds, InitRace
<1>3. Inv /\ [Next]_vars => Inv'
  BY SignInInductive, RaceInductive
<1>4. Inv /\ [Next]_vars => [Safe]_vars
  BY <1>1
<1> QED
  BY <1>2, <1>3, <1>4, PTL DEF Spec, ConflictIsReal
=============================================================================
