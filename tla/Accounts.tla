------------------------------ MODULE Accounts ------------------------------
(***************************************************************************)
(* UsersService and AuthService: signing up, verifying an account with a   *)
(* mailed code, logging in with a password or with Google, setting a new   *)
(* password with a mailed code, refreshing and ending a session.  All of   *)
(* it reads and writes one row, the User, and no handler uses a database   *)
(* transaction: one action per stretch of code between two awaits.         *)
(*                                                                         *)
(* A secret (a code, a token) is named by the call that drew it; those of  *)
(* two calls are taken to be different, which two logins of one user in    *)
(* one second are not (their tokens are signed over the same second).      *)
(* Whether a login gives the right password is left open.  A user's id is  *)
(* her e-mail address: nobody deletes a user.  A refusal that follows from *)
(* a read is taken with it.                                                *)
(***************************************************************************)
EXTENDS Server, SequencesExt

CONSTANTS
  Emails, Names, Phones,
  AccountCall,   \* the calls of the two services
  Old,           \* a secret drawn before the observation starts
  Null, NoAccount,
  Prefix(_),     \* the user name Google sign-in makes of an e-mail address
  Starts,        \* the users there can be when the observation starts
  MaxTurns       \* bound: how often a quarter of an hour, or a week, goes by

VARIABLES
  row,       \* row[e] : the User with this e-mail address, or NoAccount
  fresh,     \* the users whose updatedAt is less than a quarter of an hour ago
  access,    \* the users of whom a client holds an access token that is valid
  expired,   \* the sessions a week old
  inbox,     \* inbox[e][k] : the codes of kind k mailed to e, in order
  accepted,  \* history: the codes that passed the check of a handler
  retired,   \* history: the sessions that are no longer in their row
  name,      \* name[c] : the user name call c has settled on
  turns

accountVars == <<row, fresh, access, expired, inbox, accepted, retired, name, turns>>
vars == <<callVars, at, accountVars>>

Secrets == AccountCall \cup {Old}
UserRow == [name : Names, phone : Phones \cup {Null}, password : BOOLEAN, verified : BOOLEAN,
            code : Secrets \cup {Null}, otp : Secrets \cup {Null}, session : Secrets \cup {Null}]
Kinds == {"code", "otp"}
OldRow == {r \in UserRow : {r.code, r.otp, r.session} \subseteq {Old, Null}}

\* email, username and phone are unique in the table.
Unique(rows) ==
  \A e, f \in Emails : (e /= f /\ rows[e] /= NoAccount /\ rows[f] /= NoAccount) =>
    /\ rows[e].name /= rows[f].name
    /\ rows[e].phone = rows[f].phone => rows[e].phone = Null

ASSUME AccountsAssumption ==
  /\ AccountCall \subseteq Calls /\ Old \notin Calls
  /\ Null \notin Secrets \cup Names \cup Phones /\ NoAccount \notin UserRow
  /\ \A e \in Emails : Prefix(e) \in Names
  /\ \A rows \in Starts : rows \in [Emails -> OldRow \cup {NoAccount}] /\ Unique(rows)
  /\ MaxTurns \in Nat

AccountRequests ==
  [op : {"signup"}, email : Emails, name : Names, phone : Phones] \cup
  [op : {"resend", "login", "forgot", "google", "logout"}, email : Emails] \cup
  [op : {"verify", "reset", "refresh"}, email : Emails, secret : Secrets]
AccountPlaces ==
  {"read", "readEmail", "readPhone", "readName", "readSuffix", "create", "store", "mail", "write",
   "answer"}

TypeOK ==
  /\ ServerTypeOK
  /\ \A c \in AccountCall : request[c] \in IF at[c] = "idle" THEN {NoRequest} ELSE AccountRequests
  /\ \A c \in AccountCall : at[c] \in {"idle"} \cup AccountPlaces \cup Ends
  /\ row \in [Emails -> UserRow \cup {NoAccount}]
  /\ fresh \subseteq Emails /\ access \subseteq Emails
  /\ {expired, retired} \subseteq SUBSET (Emails \X Secrets)
  /\ inbox \in [Emails -> [Kinds -> Seq(Secrets)]]
  /\ accepted \subseteq [by : Secrets, kind : Kinds, email : Emails, secret : Secrets]
  /\ name \in [AccountCall -> Names \cup {Null}]
  /\ turns \in 0..MaxTurns

\* What is old has been mailed, and whoever is verified may have given a code
\* then; a session that is there may still be used.
Init ==
  /\ CallsInit
  /\ row \in Starts
  /\ fresh \in SUBSET {e \in Emails : row[e] /= NoAccount}
  /\ access = {} /\ expired = {} /\ retired = {}
  /\ inbox = [e \in Emails |-> [k \in Kinds |->
                IF row[e] /= NoAccount /\ row[e][k] = Old THEN <<Old>> ELSE <<>>]]
  /\ accepted = {[by |-> Old, kind |-> "code", email |-> e, secret |-> Old] :
                   e \in {f \in Emails : row[f] /= NoAccount /\ row[f].verified}}
  /\ name = [c \in AccountCall |-> Null]
  /\ turns = 0

Op(c) == request[c].op
Email(c) == request[c].email
Row(c) == row[Email(c)]
Known(c) == Row(c) /= NoAccount
NameFree(n) == \A e \in Emails : row[e] /= NoAccount => row[e].name /= n
PhoneFree(p) == \A e \in Emails : row[e] /= NoAccount => row[e].phone /= p

\* A client gives the code it was mailed, and the session it was answered.
Given(e, op) ==
  IF op = "refresh"
  THEN {Old} \cup {c \in AccountCall : at[c] = "done" /\ Op(c) \in {"login", "google"} /\ Email(c) = e}
  ELSE Range(inbox[e]["code"]) \cup Range(inbox[e]["otp"])

Arrive(c) ==
  /\ LET possible(r) == r.op \in {"verify", "reset", "refresh"} => r.secret \in Given(r.email, r.op)
     IN Enter(c, {r \in AccountRequests : possible(r)}, "read")
  /\ UNCHANGED accountVars

Moves(c, place) == Goto(c, place) /\ UNCHANGED accountVars

\* Every update of a row sets its updatedAt.
Write(e, columns) ==
  /\ row' = [row EXCEPT ![e] = columns]
  /\ fresh' = fresh \cup {e}

(***************************************************************************)
(* signup                                                                  *)
(***************************************************************************)
ReadEmail(c) ==
  /\ at[c] = "read" /\ Op(c) = "signup"
  /\ Moves(c, IF Known(c) THEN "failed" ELSE "readPhone")

ReadPhone(c) ==
  /\ at[c] = "readPhone"
  /\ Moves(c, IF PhoneFree(request[c].phone) THEN "readName" ELSE "failed")

\* The password is hashed, an await, and the code drawn before this read.
ReadName(c) ==
  /\ at[c] = "readName" /\ Op(c) = "signup"
  /\ Goto(c, IF NameFree(request[c].name) THEN "create" ELSE "failed")
  /\ name' = [name EXCEPT ![c] = request[c].name]
  /\ UNCHANGED <<row, fresh, access, expired, inbox, accepted, retired, turns>>

\* Slip: the name that was settled on is not handed on.
NewUserUnnamed(c) ==
  [name |-> Null, phone |-> Null, password |-> FALSE, verified |-> FALSE, code |-> c,
   otp |-> Null, session |-> Null]

\* Slip: a new user needs no verification.
NewUserVerified(c) ==
  [name |-> name[c], phone |-> IF Op(c) = "signup" THEN request[c].phone ELSE Null,
   password |-> TRUE, verified |-> TRUE, code |-> c, otp |-> Null, session |-> Null]

\* The User that signup, or a Google sign-in, inserts.
NewUser(c) ==
  LET signup == Op(c) = "signup" IN
  [name |-> name[c], phone |-> IF signup THEN request[c].phone ELSE Null,
   password |-> signup, verified |-> ~signup, code |-> IF signup THEN c ELSE Null,
   otp |-> Null, session |-> Null]

\* Slip: the reads are trusted, and no column is unique.
DistinctByReads(c, user) == ~Known(c)

\* email, username and phone are unique: an insert that repeats one throws.
Distinct(c, user) == ~Known(c) /\ NameFree(user.name) /\ (user.phone = Null \/ PhoneFree(user.phone))

Create(c) ==
  /\ at[c] = "create"
  /\ IF Distinct(c, NewUser(c))
     THEN /\ row' = [row EXCEPT ![Email(c)] = NewUser(c)]
          /\ fresh' = fresh \cup {Email(c)}
          /\ Goto(c, IF Op(c) = "signup" THEN "mail" ELSE "store")
          /\ UNCHANGED <<access, expired, inbox, accepted, retired, name, turns>>
     ELSE Moves(c, "failed")

(***************************************************************************)
(* resendVerificationCode and forgotPassword: a code is drawn, stored and  *)
(* mailed.  A mail that cannot be sent fails neither these nor signup.     *)
(***************************************************************************)
ReadToMail(c) ==
  /\ at[c] = "read" /\ Op(c) \in {"resend", "forgot"}
  /\ Moves(c, IF ~Known(c) THEN "done"
              ELSE IF Op(c) = "resend" /\ Row(c).verified THEN "failed" ELSE "store")

Kind(c) == IF Op(c) \in {"forgot", "reset"} THEN "otp" ELSE "code"

StoreCode(c) ==
  /\ at[c] = "store" /\ Op(c) \in {"resend", "forgot"}
  /\ Write(Email(c), [Row(c) EXCEPT ![Kind(c)] = c])
  /\ Goto(c, "mail")
  /\ UNCHANGED <<access, expired, inbox, accepted, retired, name, turns>>

SendMail(c) ==
  /\ at[c] = "mail"
  /\ \/ inbox' = [inbox EXCEPT ![Email(c)][Kind(c)] = Append(@, c)]
     \/ UNCHANGED inbox
  /\ Goto(c, "done")
  /\ UNCHANGED <<row, fresh, access, expired, accepted, retired, name, turns>>

(***************************************************************************)
(* verifyAccount and resetPassword: the row is read and the code compared; *)
(* the update that follows does not look at the code again.                *)
(***************************************************************************)
Open(c) == Op(c) = "verify" => ~Row(c).verified
Matches(c) == Row(c)[Kind(c)] = request[c].secret
InTime(c) == Email(c) \in fresh

\* Slip: the code is not compared.
PassesAnyCode(c) == Known(c) /\ Open(c) /\ InTime(c)

Passes(c) == Known(c) /\ Open(c) /\ Matches(c) /\ InTime(c)

CheckCode(c) ==
  /\ at[c] = "read" /\ Op(c) \in {"verify", "reset"}
  /\ IF Passes(c)
     THEN /\ accepted' = accepted \cup
               {[by |-> c, kind |-> Kind(c), email |-> Email(c), secret |-> request[c].secret]}
          /\ Goto(c, "write")
          /\ UNCHANGED <<row, fresh, access, expired, inbox, retired, name, turns>>
     ELSE Moves(c, "failed")

\* Slip: the code stays in the row.
ConfirmedOnly(c) ==
  IF Op(c) = "verify" THEN [Row(c) EXCEPT !.verified = TRUE] ELSE [Row(c) EXCEPT !.password = TRUE]

Confirmed(c) ==
  IF Op(c) = "verify" THEN [Row(c) EXCEPT !.verified = TRUE, !.code = Null]
  ELSE [Row(c) EXCEPT !.password = TRUE, !.otp = Null]

Confirm(c) ==
  /\ at[c] = "write" /\ Op(c) \in {"verify", "reset"}
  /\ Write(Email(c), Confirmed(c))
  /\ Goto(c, "done")
  /\ UNCHANGED <<access, expired, inbox, accepted, retired, name, turns>>

(***************************************************************************)
(* login and googleLogin                                                   *)
(***************************************************************************)
CheckPassword(c) ==
  /\ at[c] = "read" /\ Op(c) = "login"
  /\ \/ Known(c) /\ Row(c).verified /\ Row(c).password /\ Moves(c, "store")
     \/ Moves(c, "failed")

\* Google vouches for the token and its address, or the sign-in is refused.
ValidateGoogleToken(c) ==
  /\ at[c] = "read" /\ Op(c) = "google"
  /\ Moves(c, "readEmail") \/ Moves(c, "failed")

FindByEmail(c) ==
  /\ at[c] = "readEmail"
  /\ Moves(c, IF Known(c) THEN "store" ELSE "readName")

ReadPrefix(c) ==
  /\ at[c] = "readName" /\ Op(c) = "google"
  /\ Goto(c, IF NameFree(Prefix(Email(c))) THEN "create" ELSE "readSuffix")
  /\ name' = [name EXCEPT ![c] = Prefix(Email(c))]
  /\ UNCHANGED <<row, fresh, access, expired, inbox, accepted, retired, turns>>

\* A suffix at random; if that is taken too, one made of the time, unread.
ReadSuffix(c) ==
  /\ at[c] = "readSuffix"
  /\ \E n, stamped \in Names \ {Prefix(Email(c))} :
       name' = [name EXCEPT ![c] = IF NameFree(n) THEN n ELSE stamped]
  /\ Goto(c, "create")
  /\ UNCHANGED <<row, fresh, access, expired, inbox, accepted, retired, turns>>

Leaving(e) == IF row[e].session = Null THEN {} ELSE {<<e, row[e].session>>}

StoreSession(c) ==
  /\ at[c] = "store" /\ Op(c) \in {"login", "google"}
  /\ Write(Email(c), [Row(c) EXCEPT !.session = c])
  /\ retired' = retired \cup Leaving(Email(c))
  /\ Goto(c, "answer")
  /\ UNCHANGED <<access, expired, inbox, accepted, name, turns>>

\* The checks of the customer are read for the answer; none will do.
Answer(c) ==
  /\ at[c] = "answer"
  /\ access' = access \cup {Email(c)}
  /\ Goto(c, "done")
  /\ UNCHANGED <<row, fresh, expired, inbox, accepted, retired, name, turns>>

(***************************************************************************)
(* refreshToken and logout.  logout is behind the guard of the access      *)
(* token.                                                                  *)
(***************************************************************************)
\* Slip: any session that has not expired will do.
CurrentOrNot(c) == TRUE

Current(c) == Row(c).session = request[c].secret
Unexpired(c) == <<Email(c), request[c].secret>> \notin expired

Refresh(c) ==
  /\ at[c] = "read" /\ Op(c) = "refresh"
  /\ IF Known(c) /\ Current(c) /\ Unexpired(c)
     THEN /\ access' = access \cup {Email(c)}
          /\ Goto(c, "done")
          /\ UNCHANGED <<row, fresh, expired, inbox, accepted, retired, name, turns>>
     ELSE Moves(c, "failed")

Admit(c) ==
  /\ at[c] = "read" /\ Op(c) = "logout"
  /\ Moves(c, IF Email(c) \in access THEN "write" ELSE "failed")

Logout(c) ==
  /\ at[c] = "write" /\ Op(c) = "logout"
  /\ Write(Email(c), [Row(c) EXCEPT !.session = Null])
  /\ retired' = retired \cup Leaving(Email(c))
  /\ Goto(c, "done")
  /\ UNCHANGED <<access, expired, inbox, accepted, name, turns>>

(***************************************************************************)
(* What happens besides.  A handler does not take a quarter of an hour.    *)
(***************************************************************************)
Drawn == {c \in AccountCall : at[c] \in Ends} \cup {Old}

TimePasses(week) ==
  /\ turns < MaxTurns /\ InFlight = {}
  /\ turns' = turns + 1
  /\ fresh' = {} /\ access' = {}
  /\ expired' = IF week THEN Emails \X Drawn ELSE expired
  /\ UNCHANGED <<callVars, at, row, inbox, accepted, retired, name>>

\* Setting a payout PIN, or drawing a payout code, writes the same row.
OtherWrite(e) ==
  /\ e \in access \ fresh
  /\ fresh' = fresh \cup {e}
  /\ UNCHANGED <<callVars, at, row, access, expired, inbox, accepted, retired, name, turns>>

CallStep(c) ==
  \/ Arrive(c) \/ ReadEmail(c) \/ ReadPhone(c) \/ ReadName(c) \/ Create(c)
  \/ ReadToMail(c) \/ StoreCode(c) \/ SendMail(c) \/ CheckCode(c) \/ Confirm(c)
  \/ CheckPassword(c) \/ ValidateGoogleToken(c) \/ FindByEmail(c)
  \/ ReadPrefix(c) \/ ReadSuffix(c) \/ StoreSession(c) \/ Answer(c)
  \/ Refresh(c) \/ Admit(c) \/ Logout(c)

Next ==
  \/ \E c \in AccountCall : CallStep(c)
  \/ \E week \in BOOLEAN : TimePasses(week)
  \/ \E e \in Emails : OtherWrite(e)
  \/ (Fail \/ Crash) /\ UNCHANGED accountVars

Spec == Init /\ [][Next]_vars

(***************************************************************************)
(* Properties                                                              *)
(***************************************************************************)
Accounts == {e \in Emails : row[e] /= NoAccount}

\* Users do not share a user name or a phone number, and whoever was told that
\* the account was created has it, under the name and number asked for, however
\* the reads of several signups fall (users.service.ts:22-69).
AccountsAreDistinct ==
  /\ Unique(row)
  /\ \A c \in AccountCall : at[c] = "done" /\ Op(c) = "signup" =>
       Known(c) /\ Row(c).name = request[c].name /\ Row(c).phone = request[c].phone

\* Of those who signed up (they have a phone number), only an account whose code
\* was given is verified; and only a verified account, or one whose address
\* Google vouches for, gets a session, whatever signup, resend, verify and login
\* interleave (users.service.ts:130-161, :178-181).
VerificationsWereMailed ==
  \A e \in Accounts :
    /\ row[e].verified /\ row[e].phone /= Null =>
         \E a \in accepted : a.email = e /\ a.kind = "code"
    /\ row[e].session \in AccountCall => row[e].verified \/ Op(row[e].session) = "google"

\* Whoever gave the code has been told that it was good.
Used(a) == a.by = Old \/ at[a.by] = "done"

\* In turn, a code is used by one call at most, and the code mailed last can be
\* used until it has been, or another was drawn whose mail is not there: no other
\* call wipes it.  (Of calls that overlap neither is so: users.service.ts:155 and
\* :323 clear whatever code is there by then.)
MailedCodesWorkOnce ==
  ~overlapped =>
    /\ \A a, b \in accepted :
         (a.kind = b.kind /\ a.email = b.email /\ a.secret = b.secret /\ Used(a) /\ Used(b)) => a = b
    /\ \A e \in Accounts, kind \in Kinds : inbox[e][kind] /= <<>> =>
         LET mailed == inbox[e][kind] IN
         \/ row[e][kind] = Last(mailed)
         \/ \E a \in accepted : a.email = e /\ a.kind = kind /\ a.secret = Last(mailed)
         \/ row[e][kind] /= Null /\ row[e][kind] \notin Range(mailed)

\* A session that was replaced by another or ended by a logout is not refreshed
\* again (auth.service.ts:245-254).
RetiredTokensStayRetired ==
  [][\A c \in AccountCall : at[c] = "read" /\ at'[c] = "done" /\ Op(c) = "refresh" =>
       <<Email(c), request[c].secret>> \notin retired]_vars
=============================================================================
