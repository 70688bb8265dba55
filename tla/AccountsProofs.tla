--------------------------- MODULE AccountsProofs ---------------------------
(***************************************************************************)
(* Theorems about the users' accounts for every number of calls, addresses *)
(* and names, and every set of users there may be at the start.            *)
(***************************************************************************)
EXTENDS Accounts, TLAPS

(***************************************************************************)
(* What the steps of the process do to its calls, and that calls which     *)
(* have not overlapped come in turn.                                       *)
(***************************************************************************)
\* While no two calls have been in flight together, at most one is.
OneAtATime == ~overlapped => \A c, d \in InFlight : c = d

\* A call that moves on leaves the others, and what all of them ask for, alone.
LEMMA GotoServer ==
  ASSUME ServerTypeOK, NEW c \in Calls, NEW place, Goto(c, place)
  PROVE  /\ ServerTypeOK'
         /\ request' = request /\ overlapped' = overlapped /\ faults' = faults
         /\ at'[c] = place
         /\ \A d \in Calls : d /= c => at'[d] = at[d]
BY DEF ServerTypeOK, Goto, callVars

\* A call that arrives was idle; and it overlaps unless no other is in flight.
LEMMA EnterServer ==
  ASSUME ServerTypeOK, NEW c \in Calls, NEW wishes, NEW first, Enter(c, wishes, first)
  PROVE  /\ ServerTypeOK'
         /\ at[c] = "idle" /\ at'[c] = first
         /\ request'[c] \in wishes
         /\ \A d \in Calls : d /= c => at'[d] = at[d] /\ request'[d] = request[d]
         /\ ~overlapped' => ~overlapped /\ InFlight = {}
         /\ faults' = faults
<1>1. PICK r \in wishes : request' = [request EXCEPT ![c] = r]
  BY DEF Enter
<1>2. at' = [at EXCEPT ![c] = first] /\ at[c] = "idle" /\ faults' = faults
      /\ overlapped' = (overlapped \/ InFlight /= {})
  BY DEF Enter
<1>3. overlapped' \in BOOLEAN
  <2>1. overlapped' = TRUE \/ overlapped' = FALSE
    BY <1>2 DEF ServerTypeOK
  <2> QED BY <2>1
<1>4. ~overlapped' => ~overlapped /\ InFlight = {}
  BY <1>2
<1>5. faults' \in 0..MaxFaults /\ DOMAIN request' = Calls /\ DOMAIN at' = Calls
  BY <1>1, <1>2 DEF ServerTypeOK
<1>6. request'[c] = r /\ at'[c] = first
      /\ \A d \in Calls : d /= c => at'[d] = at[d] /\ request'[d] = request[d]
  BY <1>1, <1>2 DEF ServerTypeOK
<1> QED BY <1>2, <1>3, <1>4, <1>5, <1>6 DEF ServerTypeOK

\* The calls that are lost stand at their end, the others where they stood.
LEMMA LoseServer ==
  ASSUME ServerTypeOK, NEW dead, Lose(dead)
  PROVE  /\ ServerTypeOK'
         /\ request' = request /\ overlapped' = overlapped
         /\ \A d \in Calls : at'[d] = IF d \in dead THEN "lost" ELSE at[d]
<1>1. faults \in Nat /\ MaxFaults \in Nat /\ faults < MaxFaults /\ faults' = faults + 1
  BY CallBounds DEF ServerTypeOK, Lose
<1>2. faults' \in 0..MaxFaults
  BY <1>1
<1> QED BY <1>2 DEF ServerTypeOK, Lose

LEMMA CallsInitServer == CallsInit => ServerTypeOK /\ InFlight = {}
<1> SUFFICES ASSUME CallsInit PROVE ServerTypeOK /\ InFlight = {} OBVIOUS
<1>1. faults \in 0..MaxFaults
  BY CallBounds DEF CallsInit
<1>2. overlapped \in BOOLEAN
  BY DEF CallsInit
<1>3. DOMAIN request = Calls /\ DOMAIN at = Calls
  BY DEF CallsInit
<1>4. InFlight = {}
  BY DEF CallsInit, InFlight
<1> QED BY <1>1, <1>2, <1>3, <1>4 DEF ServerTypeOK

LEMMA GotoInTurn ==
  ASSUME ServerTypeOK, OneAtATime, NEW c \in InFlight, NEW place, Goto(c, place)
  PROVE  OneAtATime'
<1>1. c \in Calls
  BY DEF InFlight
<1>2. overlapped' = overlapped /\ \A d \in Calls : d /= c => at'[d] = at[d]
  BY <1>1, GotoServer
<1> QED BY <1>2 DEF OneAtATime, InFlight

LEMMA EnterInTurn ==
  ASSUME ServerTypeOK, OneAtATime, NEW c \in Calls, NEW wishes, NEW first, Enter(c, wishes, first)
  PROVE  OneAtATime'
<1>1. \A d \in Calls : d /= c => at'[d] = at[d]
  BY EnterServer
<1>2. ~overlapped' => InFlight = {}
  BY EnterServer
<1> QED BY <1>1, <1>2 DEF OneAtATime, InFlight

LEMMA LoseInTurn ==
  ASSUME ServerTypeOK, OneAtATime, NEW dead, Lose(dead)
  PROVE  OneAtATime'
BY LoseServer DEF OneAtATime, InFlight, Ends

USE DEF vars, accountVars

(***************************************************************************)
(* The invariant.                                                          *)
(***************************************************************************)
Acceptance(c) == [by |-> c, kind |-> Kind(c), email |-> Email(c), secret |-> request[c].secret]
Mailed(e) == Range(inbox[e]["code"]) \cup Range(inbox[e]["otp"])

\* Where a call stands tells what it is and what it has found; whoever was told
\* that an account was created has it.
CallFits(c) ==
  /\ at[c] = "readPhone" => Op(c) = "signup"
  /\ at[c] \in {"readEmail", "readSuffix"} => Op(c) = "google"
  /\ at[c] = "create" => /\ Op(c) \in {"signup", "google"} /\ name[c] \in Names
                         /\ Op(c) = "signup" => name[c] = request[c].name
  /\ at[c] = "store" => /\ Op(c) \in {"resend", "forgot", "login", "google"} /\ Known(c)
                        /\ Op(c) = "login" => Row(c).verified
  /\ at[c] = "mail" => Op(c) \in {"signup", "resend", "forgot"} /\ Known(c)
  /\ at[c] = "write" => /\ Op(c) \in {"verify", "reset", "logout"} /\ Known(c)
                        /\ Op(c) /= "logout" => Acceptance(c) \in accepted
  /\ at[c] = "answer" => Op(c) \in {"login", "google"} /\ Known(c)
  /\ at[c] \in {"mail", "done"} /\ Op(c) = "signup" =>
       Known(c) /\ Row(c).name = request[c].name /\ Row(c).phone = request[c].phone
  /\ at[c] /= "idle" /\ Op(c) \in {"verify", "reset"} => request[c].secret \in Mailed(Email(c))

\* A code in a row was drawn by a call of its kind, or is old and was mailed.
CodesFit ==
  \A e \in Accounts, k \in Kinds : LET s == row[e][k] IN
    /\ s = Old => Old \in Range(inbox[e][k])
    /\ s \in AccountCall => Kind(s) = k /\ at[s] \in {"mail"} \cup Ends

\* So was a code in an inbox, by a call that has ended.
InboxesFit ==
  \A e \in Emails, k \in Kinds :
    /\ row[e] = NoAccount => inbox[e][k] = <<>>
    /\ \A s \in Range(inbox[e][k]) : s = Old \/ (s \in AccountCall /\ Kind(s) = k /\ at[s] \in Ends)

\* A code passed the check of the call that was given it, or long ago.
AcceptancesFit ==
  \A a \in accepted :
    /\ a.secret = Old \/ at[a.secret] \in Ends
    /\ row[a.email] /= NoAccount
    /\ a.by = Old => a.kind = "code" /\ row[a.email].verified
    /\ a.by /= Old => /\ a = Acceptance(a.by) /\ at[a.by] \in {"write"} \cup Ends
                      /\ Op(a.by) \in {"verify", "reset"}

\* A session is the one its login has stored; one that was retired is not there.
SessionsFit ==
  /\ \A e \in Accounts : row[e].session \in AccountCall => at[row[e].session] \in {"answer"} \cup Ends
  /\ \A p \in retired : /\ row[p[1]] /= NoAccount /\ row[p[1]].session /= p[2]
                        /\ p[2] = Old \/ at[p[2]] \in {"answer"} \cup Ends

\* In turn, the code a call has drawn or compared is still there.
ReadsHold(c) ==
  /\ at[c] = "mail" => Row(c)[Kind(c)] = c
  /\ at[c] = "write" /\ Op(c) /= "logout" =>
       Row(c)[Kind(c)] = request[c].secret /\ (Op(c) = "verify" => ~Row(c).verified)

\* In turn, a code that has been used is good for nothing.
UsedCodesAreSpent ==
  \A a \in accepted : Used(a) =>
    IF a.kind = "code" THEN row[a.email].verified ELSE row[a.email].otp /= a.secret

InTurn == ~overlapped => UsedCodesAreSpent /\ \A c \in AccountCall : ReadsHold(c)

AccountsInv ==
  /\ TypeOK /\ OneAtATime
  /\ \A c \in AccountCall : CallFits(c)
  /\ Unique(row) /\ access \subseteq Accounts
  /\ CodesFit /\ InboxesFit /\ AcceptancesFit /\ SessionsFit
  /\ VerificationsWereMailed /\ InTurn /\ MailedCodesWorkOnce

(***************************************************************************)
(* The helpers.                                                            *)
(***************************************************************************)
LEMMA RequestsAre ==
  ASSUME NEW r \in AccountRequests
  PROVE  /\ r.op \in {"signup", "resend", "login", "forgot", "google", "logout", "verify", "reset", "refresh"}
         /\ r.email \in Emails
         /\ r.op = "signup" => r.name \in Names /\ r.phone \in Phones
         /\ r.op \in {"verify", "reset", "refresh"} => r.secret \in Secrets
BY DEF AccountRequests

LEMMA CallIs ==
  ASSUME AccountsInv, NEW c \in AccountCall, at[c] /= "idle"
  PROVE  /\ request[c] \in AccountRequests /\ Email(c) \in Emails
         /\ Op(c) \in {"signup", "resend", "login", "forgot", "google", "logout", "verify", "reset", "refresh"}
         /\ Op(c) = "signup" => request[c].name \in Names /\ request[c].phone \in Phones
         /\ Op(c) \in {"verify", "reset", "refresh"} => request[c].secret \in Secrets
         /\ Known(c) => Row(c) \in UserRow
         /\ Kind(c) \in Kinds
<1>1. request[c] \in AccountRequests
  BY DEF AccountsInv, TypeOK
<1>2. Email(c) \in Emails
  BY <1>1, RequestsAre DEF Email
<1>3. Known(c) => Row(c) \in UserRow
  BY <1>2 DEF AccountsInv, TypeOK, Known, Row
<1>4. Kind(c) \in Kinds
  BY DEF Kind, Kinds
<1> QED BY <1>1, <1>2, <1>3, <1>4, RequestsAre DEF Op

LEMMA RowIs ==
  ASSUME NEW r \in UserRow
  PROVE  /\ r.name \in Names /\ r.phone \in Phones \cup {Null} /\ r.verified \in BOOLEAN
         /\ r.code \in Secrets \cup {Null} /\ r.otp \in Secrets \cup {Null} /\ r.session \in Secrets \cup {Null}
         /\ r["code"] = r.code /\ r["otp"] = r.otp
         /\ \A k \in Kinds : r[k] \in Secrets \cup {Null}
BY DEF UserRow, Kinds

\* An in-box that gets another code has it last, and those before.
LEMMA AppendedRange ==
  ASSUME NEW S, NEW s \in Seq(S), NEW x \in S
  PROVE  /\ Append(s, x) \in Seq(S) /\ Last(Append(s, x)) = x
         /\ Range(Append(s, x)) = Range(s) \cup {x}
<1>1. Append(s, x) \in Seq(S) /\ Len(Append(s, x)) = Len(s) + 1 /\ Append(s, x)[Len(s) + 1] = x
      /\ \A i \in 1..Len(s) : Append(s, x)[i] = s[i]
  OBVIOUS
<1>2. DOMAIN Append(s, x) = 1..(Len(s) + 1) /\ DOMAIN s = 1..Len(s) /\ Len(s) \in Nat
  BY <1>1
<1>3. Range(Append(s, x)) = Range(s) \cup {x}
  BY <1>1, <1>2 DEF Range
<1>4. Last(Append(s, x)) = x
  BY <1>1 DEF Last
<1> QED BY <1>1, <1>3, <1>4

LEMMA SecretsAre == Null \notin Secrets /\ Old \in Secrets /\ Old \notin AccountCall /\ AccountCall \subseteq Secrets
BY AccountsAssumption DEF Secrets

(***************************************************************************)
(* The start.                                                              *)
(***************************************************************************)
LEMMA InitInv == Init => AccountsInv
<1> SUFFICES ASSUME Init PROVE AccountsInv OBVIOUS
<1> USE SecretsAre
<1>1. ServerTypeOK /\ InFlight = {} /\ CallsInit
  BY CallsInitServer DEF Init
<1>2. \A c \in AccountCall : at[c] = "idle" /\ request[c] = NoRequest
  BY <1>1, AccountsAssumption DEF CallsInit
<1>3. row \in [Emails -> OldRow \cup {NoAccount}] /\ Unique(row)
  BY AccountsAssumption DEF Init
<1>4. \A e \in Accounts : /\ row[e] \in UserRow /\ row[e].code \in {Old, Null}
                          /\ row[e].otp \in {Old, Null} /\ row[e].session \in {Old, Null}
  BY <1>3 DEF Accounts, OldRow
<1>5. row \in [Emails -> UserRow \cup {NoAccount}]
  BY <1>3 DEF OldRow
<1>6. /\ access = {} /\ expired = {} /\ retired = {} /\ fresh \subseteq Emails
      /\ name = [c \in AccountCall |-> Null] /\ turns = 0
      /\ inbox = [e \in Emails |-> [k \in Kinds |->
                    IF row[e] /= NoAccount /\ row[e][k] = Old THEN <<Old>> ELSE <<>>]]
      /\ accepted = {[by |-> Old, kind |-> "code", email |-> e, secret |-> Old] :
                       e \in {f \in Emails : row[f] /= NoAccount /\ row[f].verified}}
  BY DEF Init
<1>7. inbox \in [Emails -> [Kinds -> Seq(Secrets)]]
  <2>1. <<Old>> \in Seq(Secrets) /\ <<>> \in Seq(Secrets)
    OBVIOUS
  <2> QED BY <1>6, <2>1
<1>8. accepted \subseteq [by : Secrets, kind : Kinds, email : Emails, secret : Secrets]
  BY <1>6 DEF Kinds
<1>9. TypeOK
  BY <1>1, <1>2, <1>5, <1>6, <1>7, <1>8, AccountsAssumption DEF TypeOK
<1>10. Range(<<Old>>) = {Old} /\ Range(<<>>) = {}
  BY DEF Range
<1>11. \A e \in Emails, k \in Kinds :
         /\ row[e] /= NoAccount /\ row[e][k] = Old => inbox[e][k] = <<Old>>
         /\ ~(row[e] /= NoAccount /\ row[e][k] = Old) => inbox[e][k] = <<>>
  BY <1>6
<1>12. OneAtATime
  BY <1>1 DEF OneAtATime
<1>13. \A c \in AccountCall : CallFits(c) /\ ReadsHold(c)
  BY <1>2 DEF CallFits, ReadsHold
<1>14. \A e \in Accounts, k \in Kinds : row[e][k] \in {Old, Null} /\ e \in Emails /\ row[e] /= NoAccount
  BY <1>4, RowIs DEF Kinds, Accounts
<1>15. CodesFit
  BY <1>10, <1>11, <1>14 DEF CodesFit
<1>16. InboxesFit
  BY <1>10, <1>11 DEF InboxesFit
<1>17. AcceptancesFit
  BY <1>6 DEF AcceptancesFit
<1>18. SessionsFit
  BY <1>4, <1>6 DEF SessionsFit
<1>19. VerificationsWereMailed
  <2> SUFFICES ASSUME NEW e \in Accounts
               PROVE  /\ row[e].verified /\ row[e].phone /= Null =>
                           \E a \in accepted : a.email = e /\ a.kind = "code"
                      /\ row[e].session \in AccountCall => row[e].verified \/ Op(row[e].session) = "google"
    BY DEF VerificationsWereMailed
  <2>1. row[e].session \notin AccountCall
    BY <1>4, AccountsAssumption DEF Secrets
  <2>2. ASSUME row[e].verified PROVE \E a \in accepted : a.email = e /\ a.kind = "code"
    <3>1. [by |-> Old, kind |-> "code", email |-> e, secret |-> Old] \in accepted
      BY <1>6, <2>2 DEF Accounts
    <3> QED BY <3>1
  <2> QED BY <2>1, <2>2
<1>20. UsedCodesAreSpent
  BY <1>6 DEF UsedCodesAreSpent
<1>21. InTurn
  BY <1>13, <1>20 DEF InTurn
<1>22. MailedCodesWorkOnce
  <2>1. \A a, b \in accepted : a.email = b.email => a = b
    BY <1>6
  <2>2. ASSUME NEW e \in Accounts, NEW k \in Kinds, inbox[e][k] /= <<>> PROVE row[e][k] = Last(inbox[e][k])
    <3>1. row[e][k] = Old /\ inbox[e][k] = <<Old>>
      BY <1>11, <1>14, <2>2
    <3> QED BY <3>1 DEF Last
  <2> QED BY <2>1, <2>2 DEF MailedCodesWorkOnce
<1> QED BY <1>3, <1>6, <1>9, <1>12, <1>13, <1>15, <1>16, <1>17, <1>18, <1>19, <1>21, <1>22
        DEF AccountsInv
(***************************************************************************)
(* What every step does to the calls, and what that leaves alone.          *)
(***************************************************************************)

\* A call goes forward: it asks for the same, and does not come back to a place
\* where it draws, reads or compares.
Forward(d) ==
  /\ at[d] /= "idle" => request'[d] = request[d] /\ at'[d] /= "idle"
  /\ at[d] \in Ends => at'[d] = at[d]
  /\ at[d] \in {"mail", "answer", "write"} => at'[d] \in {at[d]} \cup Ends

\* The step of call c: the others stand.
StepOf(c) ==
  /\ ServerTypeOK' /\ OneAtATime' /\ (~overlapped' => ~overlapped)
  /\ request'[c] \in IF at'[c] = "idle" THEN {NoRequest} ELSE AccountRequests
  /\ at'[c] \in {"idle"} \cup AccountPlaces \cup Ends
  /\ Forward(c)
  /\ \A d \in AccountCall : d /= c => at'[d] = at[d] /\ request'[d] = request[d]
  /\ ~overlapped' => \A d \in AccountCall : d /= c => at[d] \notin AccountPlaces

\* Rows are kept, and change neither name nor number; what was said stays said.
Grows ==
  /\ \A e \in Emails : row[e] /= NoAccount =>
       /\ row'[e] /= NoAccount /\ row'[e].name = row[e].name /\ row'[e].phone = row[e].phone
       /\ row[e].verified => row'[e].verified
  /\ accepted \subseteq accepted'
  /\ \A e \in Emails : Mailed(e) \subseteq Mailed(e)'

LEMMA GotoStep ==
  ASSUME AccountsInv, NEW c \in AccountCall, at[c] \in AccountPlaces,
         NEW place \in AccountPlaces \cup Ends, Goto(c, place),
         at[c] \in {"mail", "answer", "write"} => place \in Ends
  PROVE  StepOf(c) /\ request' = request /\ at'[c] = place
<1>1. c \in Calls /\ ServerTypeOK /\ OneAtATime
  BY AccountsAssumption DEF AccountsInv, TypeOK
<1>2. \A d \in AccountCall : at[d] \in AccountPlaces => d \in InFlight
  BY AccountsAssumption DEF AccountPlaces, InFlight, Ends
<1>3. /\ ServerTypeOK' /\ OneAtATime' /\ overlapped' = overlapped /\ request' = request
      /\ at'[c] = place /\ \A d \in AccountCall : d /= c => at'[d] = at[d]
  BY <1>1, <1>2, GotoServer, GotoInTurn, AccountsAssumption
<1>4. "idle" \notin AccountPlaces \cup Ends /\ at[c] \notin Ends
  BY DEF AccountPlaces, Ends
<1>5. request[c] \in AccountRequests
  BY <1>4 DEF AccountsInv, TypeOK
<1>6. Forward(c)
  BY <1>3, <1>4 DEF Forward
<1>7. ~overlapped' => \A d \in AccountCall : d /= c => at[d] \notin AccountPlaces
  BY <1>1, <1>2, <1>3 DEF OneAtATime
<1> QED BY <1>3, <1>4, <1>5, <1>6, <1>7 DEF StepOf

LEMMA LoseStep ==
  ASSUME AccountsInv, NEW dead \in SUBSET InFlight, Lose(dead)
  PROVE  /\ ServerTypeOK' /\ OneAtATime' /\ overlapped' = overlapped /\ request' = request
         /\ \A d \in AccountCall : at'[d] = IF d \in dead THEN "lost" ELSE at[d]
BY LoseServer, LoseInTurn, AccountsAssumption DEF AccountsInv, TypeOK

LEMMA ForwardAll == ASSUME NEW c \in AccountCall, StepOf(c), NEW d \in AccountCall PROVE Forward(d)
<1>1. CASE d = c
  BY <1>1 DEF StepOf
<1>2. CASE d /= c
  BY <1>2 DEF StepOf, Forward
<1> QED BY <1>1, <1>2

\* A call that stands keeps what it has found when the data only grows.
LEMMA FitsStand ==
  ASSUME AccountsInv, NEW d \in AccountCall, CallFits(d), Grows,
         at'[d] = at[d], request'[d] = request[d], name'[d] = name[d]
  PROVE  CallFits(d)'
<1>1. CASE at[d] = "idle"
  BY <1>1 DEF CallFits
<1>2. CASE at[d] /= "idle"
  <2>1. Email(d) \in Emails /\ Op(d)' = Op(d) /\ Email(d)' = Email(d) /\ Kind(d)' = Kind(d)
    BY <1>2, CallIs DEF Op, Email, Kind
  <2>2. Known(d) => /\ Known(d)' /\ Row(d)'.name = Row(d).name /\ Row(d)'.phone = Row(d).phone
                    /\ Row(d).verified => Row(d)'.verified
    BY <2>1 DEF Grows, Known, Row
  <2>3. Acceptance(d)' = Acceptance(d)
    BY <2>1 DEF Acceptance
  <2>4. Mailed(Email(d)) \subseteq Mailed(Email(d))'
    BY <2>1 DEF Grows
  <2> QED BY <2>1, <2>2, <2>3, <2>4 DEF CallFits, Grows
<1> QED BY <1>1, <1>2

LEMMA FitsAll ==
  ASSUME AccountsInv, NEW c \in AccountCall, StepOf(c), Grows, CallFits(c)',
         \A d \in AccountCall : d /= c => name'[d] = name[d]
  PROVE  \A d \in AccountCall : CallFits(d)'
BY FitsStand DEF AccountsInv, StepOf

\* In turn nobody else has read anything.
LEMMA ReadsAll ==
  ASSUME NEW c \in AccountCall, StepOf(c), ReadsHold(c)', ~overlapped'
  PROVE  \A d \in AccountCall : ReadsHold(d)'
<1> SUFFICES ASSUME NEW d \in AccountCall, d /= c PROVE ReadsHold(d)'
  OBVIOUS
<1>1. at'[d] \notin {"mail", "write"}
  BY DEF StepOf, AccountPlaces
<1> QED BY <1>1 DEF ReadsHold
\* Every call goes forward; nobody who gave a code is told now that it was good.
Onward == \A d \in AccountCall : Forward(d)
NobodyConfirms == \A d \in AccountCall : at[d] = "write" /\ Op(d) /= "logout" => at'[d] /= "done"

LEMMA ForwardKind ==
  ASSUME NEW d \in AccountCall, Forward(d), at[d] /= "idle"
  PROVE  Op(d)' = Op(d) /\ Email(d)' = Email(d) /\ Kind(d)' = Kind(d) /\ Acceptance(d)' = Acceptance(d)
<1>1. request'[d] = request[d]
  BY DEF Forward
<1>2. Op(d)' = Op(d) /\ Email(d)' = Email(d)
  BY <1>1 DEF Op, Email
<1>3. Kind(d)' = Kind(d)
  BY <1>2 DEF Kind
<1> QED BY <1>1, <1>2, <1>3 DEF Acceptance

\* What a row holds afterwards it held before, or is the code of call c.
LEMMA CodesKept ==
  ASSUME AccountsInv, Onward, NEW c \in AccountCall,
         \A e \in Emails, k \in Kinds :
           /\ Range(inbox[e][k]) \subseteq Range(inbox'[e][k])
           /\ row'[e] /= NoAccount =>
                \/ row'[e][k] = Null
                \/ row'[e][k] = c /\ Kind(c)' = k /\ at'[c] = "mail"
                \/ row[e] /= NoAccount /\ row'[e][k] = row[e][k]
  PROVE  CodesFit'
<1> SUFFICES ASSUME NEW e \in Emails, row'[e] /= NoAccount, NEW k \in Kinds, NEW s, s = row'[e][k]
             PROVE  /\ s = Old => Old \in Range(inbox'[e][k])
                    /\ s \in AccountCall => Kind(s)' = k /\ at'[s] \in {"mail"} \cup Ends
  BY DEF CodesFit, Accounts
<1>1. CASE s = Null
  BY <1>1, SecretsAre
<1>2. CASE s = c /\ Kind(c)' = k /\ at'[c] = "mail"
  BY <1>2, SecretsAre
<1>3. CASE row[e] /= NoAccount /\ s = row[e][k]
  <2>1. s = Old => Old \in Range(inbox[e][k])
    BY <1>3 DEF AccountsInv, CodesFit, Accounts
  <2>2. ASSUME s \in AccountCall PROVE Kind(s)' = k /\ at'[s] \in {"mail"} \cup Ends
    <3>1. Kind(s) = k /\ at[s] \in {"mail"} \cup Ends
      BY <1>3, <2>2 DEF AccountsInv, CodesFit, Accounts
    <3>2. Forward(s)
      BY <2>2 DEF Onward
    <3>3. at[s] /= "idle"
      BY <3>1 DEF Ends
    <3>4. Kind(s)' = Kind(s)
      BY <2>2, <3>2, <3>3, ForwardKind
    <3> QED BY <3>1, <3>2, <3>4 DEF Forward
  <2> QED BY <2>1, <2>2
<1> QED BY <1>1, <1>2, <1>3

LEMMA InboxesKept ==
  ASSUME AccountsInv, Onward, inbox' = inbox,
         \A e \in Emails : row'[e] = NoAccount => row[e] = NoAccount
  PROVE  InboxesFit'
<1> SUFFICES ASSUME NEW e \in Emails, NEW k \in Kinds
             PROVE  /\ row'[e] = NoAccount => inbox[e][k] = <<>>
                    /\ \A s \in Range(inbox[e][k]) : s = Old \/ (s \in AccountCall /\ Kind(s)' = k /\ at'[s] \in Ends)
  BY DEF InboxesFit
<1>1. row'[e] = NoAccount => inbox[e][k] = <<>>
  BY DEF AccountsInv, InboxesFit
<1>2. ASSUME NEW s \in Range(inbox[e][k]), s /= Old
      PROVE  s \in AccountCall /\ Kind(s)' = k /\ at'[s] \in Ends
  <2>1. s \in AccountCall /\ Kind(s) = k /\ at[s] \in Ends
    BY <1>2 DEF AccountsInv, InboxesFit
  <2>2. Forward(s) /\ at[s] /= "idle"
    BY <2>1 DEF Onward, Ends
  <2>3. Kind(s)' = Kind(s)
    BY <2>1, <2>2, ForwardKind
  <2> QED BY <2>1, <2>2, <2>3 DEF Forward
<1> QED BY <1>1, <1>2

LEMMA AcceptanceIs ==
  ASSUME AccountsInv, NEW a \in accepted
  PROVE  /\ a \in [by : Secrets, kind : Kinds, email : Emails, secret : Secrets]
         /\ a.by \in Secrets /\ a.kind \in Kinds /\ a.email \in Emails /\ a.secret \in Secrets
         /\ a.by /= Old => a.by \in AccountCall
         /\ a.secret /= Old => a.secret \in AccountCall
         /\ row[a.email] \in UserRow
<1>1. a \in [by : Secrets, kind : Kinds, email : Emails, secret : Secrets]
  BY DEF AccountsInv, TypeOK
<1>2. row[a.email] /= NoAccount
  BY DEF AccountsInv, AcceptancesFit
<1> QED BY <1>1, <1>2 DEF AccountsInv, TypeOK, Secrets

\* An acceptance of before is what it was.
LEMMA AcceptanceStands ==
  ASSUME AccountsInv, Onward, Grows, NEW a \in accepted
  PROVE  /\ a.secret = Old \/ at'[a.secret] \in Ends
         /\ row'[a.email] /= NoAccount
         /\ a.by = Old => a.kind = "code" /\ row'[a.email].verified
         /\ a.by /= Old => /\ a = Acceptance(a.by)' /\ at'[a.by] \in {"write"} \cup Ends
                           /\ Op(a.by)' \in {"verify", "reset"}
<1>1. /\ a.email \in Emails /\ (a.by /= Old => a.by \in AccountCall)
      /\ a.secret /= Old => a.secret \in AccountCall
  BY AcceptanceIs
<1>2. /\ a.secret = Old \/ at[a.secret] \in Ends
      /\ row[a.email] /= NoAccount
      /\ a.by = Old => a.kind = "code" /\ row[a.email].verified
      /\ a.by /= Old => /\ a = Acceptance(a.by) /\ at[a.by] \in {"write"} \cup Ends
                      /\ Op(a.by) \in {"verify", "reset"}
  BY DEF AccountsInv, AcceptancesFit
<1>3. a.secret = Old \/ at'[a.secret] \in Ends
  BY <1>1, <1>2 DEF Onward, Forward
<1>4. row'[a.email] /= NoAccount /\ (a.by = Old => a.kind = "code" /\ row'[a.email].verified)
  <2>1. row'[a.email] /= NoAccount /\ (row[a.email].verified => row'[a.email].verified)
    BY <1>1, <1>2 DEF Grows
  <2> QED BY <1>2, <2>1
<1>5. ASSUME a.by /= Old
      PROVE  a = Acceptance(a.by)' /\ at'[a.by] \in {"write"} \cup Ends /\ Op(a.by)' \in {"verify", "reset"}
  <2>1. a.by \in AccountCall /\ Forward(a.by) /\ at[a.by] /= "idle"
    <3>1. at[a.by] \in {"write"} \cup Ends
      BY <1>2, <1>5
    <3>2. at[a.by] /= "idle"
      BY <3>1 DEF Ends
    <3> QED BY <1>1, <1>5, <3>2 DEF Onward
  <2>2. Acceptance(a.by)' = Acceptance(a.by) /\ Op(a.by)' = Op(a.by)
    BY <2>1, ForwardKind
  <2> QED BY <1>2, <1>5, <2>1, <2>2 DEF Forward
<1> QED BY <1>3, <1>4, <1>5

LEMMA AcceptancesKept ==
  ASSUME AccountsInv, Onward, Grows, accepted' = accepted
  PROVE  AcceptancesFit'
BY AcceptanceStands DEF AcceptancesFit

LEMMA SessionsKept ==
  ASSUME AccountsInv, Onward, retired' = retired,
         \A e \in Emails : /\ row[e] /= NoAccount => row'[e] /= NoAccount /\ row'[e].session = row[e].session
                           /\ row[e] = NoAccount => row'[e] = NoAccount \/ row'[e].session = Null
  PROVE  SessionsFit'
<1>1. ASSUME NEW e \in Emails, row'[e] /= NoAccount, row'[e].session \in AccountCall
      PROVE  at'[row'[e].session] \in {"answer"} \cup Ends
  <2>1. row[e] /= NoAccount /\ row'[e].session = row[e].session
    BY <1>1, SecretsAre
  <2>2. at[row[e].session] \in {"answer"} \cup Ends
    BY <1>1, <2>1 DEF AccountsInv, SessionsFit, Accounts
  <2> QED BY <1>1, <2>1, <2>2 DEF Onward, Forward
<1>2. ASSUME NEW p \in retired
      PROVE  /\ row'[p[1]] /= NoAccount /\ row'[p[1]].session /= p[2]
             /\ p[2] = Old \/ at'[p[2]] \in {"answer"} \cup Ends
  <2>1. p[1] \in Emails /\ p[2] \in Secrets
    BY DEF AccountsInv, TypeOK
  <2>2. /\ row[p[1]] /= NoAccount /\ row[p[1]].session /= p[2]
        /\ p[2] = Old \/ at[p[2]] \in {"answer"} \cup Ends
    BY DEF AccountsInv, SessionsFit
  <2>3. p[2] = Old \/ at'[p[2]] \in {"answer"} \cup Ends
    BY <2>1, <2>2 DEF Onward, Forward, Secrets
  <2> QED BY <2>1, <2>2, <2>3
<1> QED BY <1>1, <1>2 DEF SessionsFit, Accounts

LEMMA VerifiedKept ==
  ASSUME AccountsInv, Onward, accepted \subseteq accepted',
         \A e \in Emails : row'[e] /= NoAccount =>
           /\ row'[e].verified /\ row'[e].phone /= Null =>
                \/ row[e] /= NoAccount /\ row[e].verified /\ row[e].phone /= Null
                \/ \E a \in accepted' : a.email = e /\ a.kind = "code"
           /\ row'[e].session \in AccountCall =>
                \/ row[e] /= NoAccount /\ row'[e].session = row[e].session /\ (row[e].verified => row'[e].verified)
                \/ row'[e].verified \/ request'[row'[e].session].op = "google"
  PROVE  VerificationsWereMailed'
<1> SUFFICES ASSUME NEW e \in Emails, row'[e] /= NoAccount
             PROVE  /\ row'[e].verified /\ row'[e].phone /= Null =>
                         \E a \in accepted' : a.email = e /\ a.kind = "code"
                    /\ row'[e].session \in AccountCall => row'[e].verified \/ request'[row'[e].session].op = "google"
  BY DEF VerificationsWereMailed, Accounts, Op
<1>1. ASSUME row'[e].verified, row'[e].phone /= Null
      PROVE  \E a \in accepted' : a.email = e /\ a.kind = "code"
  BY <1>1 DEF AccountsInv, VerificationsWereMailed, Accounts
<1>2. ASSUME row'[e].session \in AccountCall, row[e] /= NoAccount, row'[e].session = row[e].session,
             row[e].verified => row'[e].verified
      PROVE  row'[e].verified \/ request'[row'[e].session].op = "google"
  <2>1. row[e].verified \/ Op(row[e].session) = "google"
    BY <1>2 DEF AccountsInv, VerificationsWereMailed, Accounts
  <2>2. at[row[e].session] \in {"answer"} \cup Ends
    BY <1>2 DEF AccountsInv, SessionsFit, Accounts
  <2>3. Forward(row[e].session) /\ at[row[e].session] /= "idle"
    BY <1>2, <2>2 DEF Onward, Ends
  <2>4. request'[row[e].session].op = Op(row[e].session)
    BY <1>2, <2>3 DEF Forward, Op
  <2>5. request'[row'[e].session].op = Op(row[e].session)
    BY <1>2, <2>4 DEF Op
  <2> QED BY <1>2, <2>1, <2>5
<1> QED BY <1>1, <1>2
\* The two halves of MailedCodesWorkOnce.
UsedOnce ==
  \A a, b \in accepted :
    (a.kind = b.kind /\ a.email = b.email /\ a.secret = b.secret /\ Used(a) /\ Used(b)) => a = b
LastStands ==
  \A e \in Accounts, kind \in Kinds : inbox[e][kind] /= <<>> =>
    LET mailed == inbox[e][kind] IN
    \/ row[e][kind] = Last(mailed)
    \/ \E a \in accepted : a.email = e /\ a.kind = kind /\ a.secret = Last(mailed)
    \/ row[e][kind] /= Null /\ row[e][kind] \notin Range(mailed)

LEMMA WorkOnce == MailedCodesWorkOnce <=> (~overlapped => UsedOnce /\ LastStands)
BY DEF MailedCodesWorkOnce, UsedOnce, LastStands

\* Whoever was not told that her code was good is told so only at Confirm.
LEMMA UsedStays ==
  ASSUME AccountsInv, Onward, NobodyConfirms, NEW a \in accepted, Used(a)'
  PROVE  Used(a)
<1>1. CASE a.by = Old
  BY <1>1 DEF Used
<1>2. CASE a.by /= Old
  <2>1. a.by \in AccountCall
    BY <1>2, AcceptanceIs
  <2>2. at[a.by] \in {"write"} \cup Ends /\ Op(a.by) /= "logout"
    BY <1>2 DEF AccountsInv, AcceptancesFit
  <2>3. at'[a.by] = "done"
    BY <1>2 DEF Used
  <2>4. at[a.by] /= "write"
    BY <2>1, <2>2, <2>3 DEF NobodyConfirms
  <2>5. at'[a.by] = at[a.by]
    BY <2>1, <2>2, <2>4 DEF Onward, Forward
  <2> QED BY <2>3, <2>5 DEF Used
<1> QED BY <1>1, <1>2

LEMMA UsedOnceKept ==
  ASSUME AccountsInv, Onward, NobodyConfirms, ~overlapped,
         \A a \in accepted' : a \in accepted \/ ~Used(a)'
  PROVE  UsedOnce'
<1> SUFFICES ASSUME NEW a \in accepted', NEW b \in accepted', a.kind = b.kind, a.email = b.email,
                    a.secret = b.secret, Used(a)', Used(b)'
             PROVE  a = b
  BY DEF UsedOnce
<1>1. a \in accepted /\ b \in accepted
  OBVIOUS
<1>2. Used(a) /\ Used(b)
  BY <1>1, UsedStays
<1> QED BY <1>1, <1>2, WorkOnce DEF AccountsInv, UsedOnce

LEMMA SpentKept ==
  ASSUME AccountsInv, Onward, Grows, NobodyConfirms, ~overlapped,
         \A a \in accepted' : a \in accepted \/ ~Used(a)',
         \A e \in Emails : row[e] /= NoAccount =>
           \/ row'[e].otp = row[e].otp
           \/ row'[e].otp \in AccountCall /\ at[row'[e].otp] \notin Ends
  PROVE  UsedCodesAreSpent'
<1> SUFFICES ASSUME NEW a \in accepted', Used(a)'
             PROVE  IF a.kind = "code" THEN row'[a.email].verified ELSE row'[a.email].otp /= a.secret
  BY DEF UsedCodesAreSpent
<1>1. a \in accepted /\ Used(a)
  BY UsedStays
<1>2. a.email \in Emails /\ row[a.email] /= NoAccount /\ (a.secret = Old \/ at[a.secret] \in Ends)
  BY <1>1, AcceptanceIs DEF AccountsInv, AcceptancesFit
<1>3. IF a.kind = "code" THEN row[a.email].verified ELSE row[a.email].otp /= a.secret
  BY <1>1 DEF AccountsInv, InTurn, UsedCodesAreSpent
<1>4. CASE a.kind = "code"
  BY <1>2, <1>3, <1>4 DEF Grows
<1>5. CASE a.kind /= "code"
  BY <1>2, <1>3, <1>5, SecretsAre
<1> QED BY <1>4, <1>5

LEMMA LastKept ==
  ASSUME AccountsInv, ~overlapped, inbox' = inbox, accepted \subseteq accepted',
         \A e \in Emails, k \in Kinds : row'[e] /= NoAccount =>
           \/ row[e] /= NoAccount /\ row'[e][k] = row[e][k]
           \/ inbox[e][k] = <<>>
           \/ row'[e][k] \in AccountCall /\ at[row'[e][k]] \notin Ends
  PROVE  LastStands'
<1> SUFFICES ASSUME NEW e \in Emails, row'[e] /= NoAccount, NEW k \in Kinds, inbox[e][k] /= <<>>
             PROVE  \/ row'[e][k] = Last(inbox[e][k])
                    \/ \E a \in accepted' : a.email = e /\ a.kind = k /\ a.secret = Last(inbox[e][k])
                    \/ row'[e][k] /= Null /\ row'[e][k] \notin Range(inbox[e][k])
  BY DEF LastStands, Accounts
<1>1. CASE row[e] /= NoAccount /\ row'[e][k] = row[e][k]
  BY <1>1, WorkOnce DEF AccountsInv, LastStands, Accounts
<1>2. CASE row'[e][k] \in AccountCall /\ at[row'[e][k]] \notin Ends
  <2>1. row'[e][k] \notin Range(inbox[e][k])
    BY <1>2, SecretsAre DEF AccountsInv, InboxesFit
  <2> QED BY <1>2, <2>1, SecretsAre
<1> QED BY <1>1, <1>2

\* The rows stand: so does all that is said of them, and of codes and sessions.
LEMMA DataStands ==
  ASSUME AccountsInv, Onward, NobodyConfirms, UNCHANGED <<row, inbox, accepted, retired>>,
         ~overlapped' => ~overlapped, access' \subseteq Accounts
  PROVE  /\ Grows /\ Unique(row)' /\ access' \subseteq Accounts'
         /\ CodesFit' /\ InboxesFit' /\ AcceptancesFit' /\ SessionsFit'
         /\ VerificationsWereMailed' /\ MailedCodesWorkOnce'
         /\ ~overlapped' => UsedCodesAreSpent'
<1>1. \A e \in Emails, k \in Kinds :
        row'[e] = row[e] /\ inbox'[e][k] = inbox[e][k]
  OBVIOUS
<1>2. Grows
  <2>1. \A e \in Emails : Mailed(e)' = Mailed(e)
    BY DEF Mailed
  <2> QED BY <2>1 DEF Grows
<1>3. Unique(row)' /\ access' \subseteq Accounts'
  BY DEF AccountsInv, Unique, Accounts
<1>4. SessionsFit'
  BY SessionsKept
<1>5. AcceptancesFit'
  BY <1>2, AcceptancesKept
<1>6. InboxesFit'
  BY InboxesKept
<1>7. VerificationsWereMailed'
  BY <1>1, VerifiedKept
<1>8. CodesFit'
  <2>1. CASE AccountCall = {}
    <3>1. \A e \in Accounts, k \in Kinds : row[e][k] = Old => Old \in Range(inbox[e][k])
      BY DEF AccountsInv, CodesFit
    <3> QED BY <2>1, <3>1 DEF CodesFit, Accounts
  <2>2. CASE AccountCall /= {}
    BY <1>1, <2>2, CodesKept
  <2> QED BY <2>1, <2>2
<1>9. ~overlapped' => UsedCodesAreSpent' /\ UsedOnce' /\ LastStands'
  BY <1>1, <1>2, SpentKept, UsedOnceKept, LastKept
<1>10. MailedCodesWorkOnce'
  BY <1>9, WorkOnce, PTL
<1> QED BY <1>2, <1>3, <1>4, <1>5, <1>6, <1>7, <1>8, <1>9, <1>10

LEMMA StepGoesOnwards ==
  ASSUME NEW c \in AccountCall, StepOf(c) PROVE Onward /\ (~overlapped' => ~overlapped)
BY ForwardAll DEF Onward, StepOf
LEMMA TypesKept ==
  ASSUME AccountsInv, NEW c \in AccountCall, StepOf(c),
         row' \in [Emails -> UserRow \cup {NoAccount}],
         inbox' \in [Emails -> [Kinds -> Seq(Secrets)]],
         accepted' \subseteq [by : Secrets, kind : Kinds, email : Emails, secret : Secrets],
         fresh' \subseteq Emails, access' \subseteq Emails,
         retired' \subseteq Emails \X Secrets, UNCHANGED <<expired, turns>>,
         name' \in [AccountCall -> Names \cup {Null}]
  PROVE  TypeOK'
<1>1. ASSUME NEW d \in AccountCall
      PROVE  /\ request'[d] \in IF at'[d] = "idle" THEN {NoRequest} ELSE AccountRequests
             /\ at'[d] \in {"idle"} \cup AccountPlaces \cup Ends
  <2>1. CASE d = c
    BY <2>1 DEF StepOf
  <2>2. CASE d /= c
    BY <2>2 DEF StepOf, AccountsInv, TypeOK
  <2> QED BY <2>1, <2>2
<1>2. ServerTypeOK'
  BY DEF StepOf
<1>3. {expired', retired'} \subseteq SUBSET (Emails \X Secrets) /\ turns' \in 0..MaxTurns
  BY DEF AccountsInv, TypeOK
<1> QED BY <1>1, <1>2, <1>3 DEF TypeOK

\* A call that writes nothing, and is not told that its code was good.
LEMMA QuietStep ==
  ASSUME AccountsInv, NEW c \in AccountCall, StepOf(c),
         UNCHANGED <<row, inbox, accepted, retired, expired, fresh, turns>>, access' \subseteq Accounts,
         name' \in [AccountCall -> Names \cup {Null}],
         \A d \in AccountCall : d /= c => name'[d] = name[d],
         at[c] = "write" /\ Op(c) /= "logout" => at'[c] /= "done",
         CallFits(c)', ~overlapped' => ReadsHold(c)'
  PROVE  AccountsInv'
<1>1. Onward /\ (~overlapped' => ~overlapped) /\ OneAtATime'
  BY StepGoesOnwards DEF StepOf
<1>2. NobodyConfirms
  BY DEF StepOf, NobodyConfirms
<1>3. /\ Grows /\ Unique(row)' /\ access' \subseteq Accounts'
      /\ CodesFit' /\ InboxesFit' /\ AcceptancesFit' /\ SessionsFit'
      /\ VerificationsWereMailed' /\ MailedCodesWorkOnce'
      /\ ~overlapped' => UsedCodesAreSpent'
  BY <1>1, <1>2, DataStands
<1>4. TypeOK'
  <2>1. access \subseteq Emails /\ access' \subseteq Emails
    BY DEF AccountsInv, TypeOK, Accounts
  <2> QED BY <2>1, TypesKept DEF AccountsInv, TypeOK
<1>5. \A d \in AccountCall : CallFits(d)'
  BY <1>3, FitsAll
<1>6. InTurn'
  BY <1>3, ReadsAll DEF InTurn
<1> QED BY <1>1, <1>3, <1>4, <1>5, <1>6 DEF AccountsInv

\* A call that is there to be read, or refused, has nothing to hold.
LEMMA NothingFound ==
  ASSUME NEW c \in AccountCall,
         at'[c] \in {"failed", "lost"} \/ (at'[c] = "done" /\ Op(c)' /= "signup"),
         at'[c] /= "idle" /\ Op(c)' \in {"verify", "reset"} => (request[c].secret \in Mailed(Email(c)))'
  PROVE  CallFits(c)' /\ ReadsHold(c)'
BY DEF CallFits, ReadsHold

\* What a call was given stays in the in-box.
LEMMA GivenStays ==
  ASSUME AccountsInv, NEW c \in AccountCall, at[c] /= "idle", request'[c] = request[c],
         \A e \in Emails : Mailed(e) \subseteq Mailed(e)'
  PROVE  Op(c)' \in {"verify", "reset"} => (request[c].secret \in Mailed(Email(c)))'
<1>1. Op(c)' = Op(c) /\ Email(c)' = Email(c) /\ Email(c) \in Emails
  BY CallIs DEF Op, Email
<1>2. Op(c) \in {"verify", "reset"} => request[c].secret \in Mailed(Email(c))
  BY DEF AccountsInv, CallFits
<1>3. Mailed(Email(c)) \subseteq Mailed(Email(c))'
  BY <1>1
<1> QED BY <1>1, <1>2, <1>3
(***************************************************************************)
(* The steps that write nothing.                                           *)
(***************************************************************************)
LEMMA Arrives == ASSUME AccountsInv, NEW c \in AccountCall, Arrive(c) PROVE AccountsInv'
<1> DEFINE possible(r) == r.op \in {"verify", "reset", "refresh"} => r.secret \in Given(r.email, r.op)
           requests == {r \in AccountRequests : possible(r)}
<1>1. Enter(c, requests, "read") /\ UNCHANGED accountVars
  BY DEF Arrive
<1> HIDE DEF requests
<1>2. c \in Calls /\ ServerTypeOK /\ OneAtATime
  BY AccountsAssumption DEF AccountsInv, TypeOK
<1>3. /\ ServerTypeOK' /\ at[c] = "idle" /\ at'[c] = "read" /\ request'[c] \in requests
      /\ \A d \in AccountCall : d /= c => at'[d] = at[d] /\ request'[d] = request[d]
      /\ ~overlapped' => ~overlapped /\ InFlight = {}
  BY <1>1, <1>2, EnterServer, AccountsAssumption
<1>4. OneAtATime'
  BY <1>1, <1>2, EnterInTurn
<1>5. request'[c] \in AccountRequests
  BY <1>3 DEF requests
<1>6. ~overlapped' => \A d \in AccountCall : d /= c => at[d] \notin AccountPlaces
  BY <1>3, AccountsAssumption DEF InFlight, AccountPlaces, Ends
<1>7. StepOf(c)
  BY <1>3, <1>4, <1>5, <1>6 DEF StepOf, AccountPlaces, Forward, Ends
<1>8. request'[c].op \in {"verify", "reset"} => request'[c].secret \in Mailed(request'[c].email)
  BY <1>3 DEF requests, Given, Mailed
<1>10. CallFits(c)'
  <2>1. Op(c)' = request'[c].op /\ Email(c)' = request'[c].email
    BY DEF Op, Email
  <2>2. Mailed(Email(c))' = Mailed(request'[c].email)
    BY <1>1, <2>1 DEF Mailed
  <2> QED BY <1>3, <1>8, <2>1, <2>2 DEF CallFits
<1>11. ReadsHold(c)'
  BY <1>3 DEF ReadsHold
<1>12. access' \subseteq Accounts /\ name' \in [AccountCall -> Names \cup {Null}]
  BY <1>1 DEF AccountsInv, TypeOK
<1> QED BY <1>1, <1>3, <1>7, <1>10, <1>11, <1>12, QuietStep

\* A call that has only read moves on to where its reads lead it.
LEMMA MovesQuietly ==
  ASSUME AccountsInv, NEW c \in AccountCall, at[c] \in AccountPlaces \ {"mail", "answer", "write"},
         NEW place \in {"readEmail", "readPhone", "readName", "store", "write", "failed", "done"},
         Goto(c, place), UNCHANGED <<row, inbox, accepted, retired, expired, fresh, turns, name>>,
         access' \subseteq Accounts,
         place = "readPhone" => Op(c) = "signup",
         place = "readEmail" => Op(c) = "google",
         place = "store" => /\ Op(c) \in {"resend", "forgot", "login", "google"} /\ Known(c)
                            /\ Op(c) = "login" => Row(c).verified,
         place = "write" => Op(c) = "logout" /\ Known(c),
         place = "done" => Op(c) /= "signup"
  PROVE  AccountsInv'
<1>1. StepOf(c) /\ request' = request /\ at'[c] = place
  BY GotoStep DEF AccountPlaces, Ends
<1>2. Op(c)' = Op(c) /\ Email(c)' = Email(c)
  BY <1>1 DEF Op, Email
<1>3. Known(c)' = Known(c) /\ Row(c)' = Row(c)
  BY <1>2 DEF Known, Row
<1>4. Op(c)' \in {"verify", "reset"} => (request[c].secret \in Mailed(Email(c)))'
  <2>1. at[c] /= "idle" /\ request'[c] = request[c]
    BY <1>1 DEF AccountPlaces
  <2>2. \A e \in Emails : Mailed(e) \subseteq Mailed(e)'
    BY DEF Mailed
  <2> QED BY <2>1, <2>2, GivenStays
<1>5. CallFits(c)'
  BY <1>1, <1>2, <1>3, <1>4 DEF CallFits
<1>6. ReadsHold(c)'
  BY <1>1, <1>2 DEF ReadsHold
<1>7. name' \in [AccountCall -> Names \cup {Null}]
  BY DEF AccountsInv, TypeOK
<1> QED BY <1>1, <1>5, <1>6, <1>7, QuietStep

LEMMA Reads ==
  ASSUME AccountsInv, NEW c \in AccountCall,
         \/ ReadEmail(c) \/ ReadPhone(c) \/ ReadToMail(c) \/ CheckPassword(c)
         \/ ValidateGoogleToken(c) \/ FindByEmail(c) \/ Admit(c)
  PROVE  AccountsInv'
<1>1. access \subseteq Accounts /\ CallFits(c)
  BY DEF AccountsInv
<1> USE <1>1 DEF Moves
<1>2. CASE ReadEmail(c)
  <2>1. PICK place \in {"failed", "readPhone"} : Goto(c, place)
    BY <1>2 DEF ReadEmail
  <2> QED BY <1>2, <2>1, MovesQuietly DEF ReadEmail, AccountPlaces
<1>3. CASE ReadPhone(c)
  <2>1. PICK place \in {"failed", "readName"} : Goto(c, place)
    BY <1>3 DEF ReadPhone
  <2> QED BY <1>3, <2>1, MovesQuietly DEF ReadPhone, AccountPlaces
<1>4. CASE ReadToMail(c)
  <2>1. PICK place \in {"done", "failed", "store"} : Goto(c, place) /\ (place = "store" => Known(c))
    BY <1>4 DEF ReadToMail
  <2> QED BY <1>4, <2>1, MovesQuietly DEF ReadToMail, AccountPlaces
<1>5. CASE CheckPassword(c)
  <2>1. PICK place \in {"failed", "store"} : Goto(c, place) /\ (place = "store" => Known(c) /\ Row(c).verified)
    BY <1>5 DEF CheckPassword
  <2> QED BY <1>5, <2>1, MovesQuietly DEF CheckPassword, AccountPlaces
<1>6. CASE ValidateGoogleToken(c)
  <2>1. PICK place \in {"failed", "readEmail"} : Goto(c, place)
    BY <1>6 DEF ValidateGoogleToken
  <2> QED BY <1>6, <2>1, MovesQuietly DEF ValidateGoogleToken, AccountPlaces
<1>7. CASE FindByEmail(c)
  <2>1. PICK place \in {"readName", "store"} : Goto(c, place) /\ (place = "store" => Known(c))
    BY <1>7 DEF FindByEmail
  <2>2. Op(c) = "google"
    BY <1>7 DEF FindByEmail, CallFits
  <2> QED BY <1>7, <2>1, <2>2, MovesQuietly DEF FindByEmail, AccountPlaces
<1>8. CASE Admit(c)
  <2>1. PICK place \in {"failed", "write"} : Goto(c, place) /\ (place = "write" => Email(c) \in access)
    BY <1>8 DEF Admit
  <2>2. place = "write" => Known(c)
    BY <2>1 DEF Accounts, Known, Row
  <2> QED BY <1>8, <2>1, <2>2, MovesQuietly DEF Admit, AccountPlaces
<1> QED BY <1>2, <1>3, <1>4, <1>5, <1>6, <1>7, <1>8
\* The steps in which a call settles on a user name.
LEMMA ReadsNames ==
  ASSUME AccountsInv, NEW c \in AccountCall, ReadName(c) \/ ReadPrefix(c) \/ ReadSuffix(c)
  PROVE  AccountsInv'
<1>1. PICK place \in {"failed", "create", "readSuffix"}, n \in Names :
        /\ Goto(c, place) /\ name' = [name EXCEPT ![c] = n]
        /\ UNCHANGED <<row, fresh, access, expired, inbox, accepted, retired, turns>>
        /\ at[c] \in {"readName", "readSuffix"} /\ Op(c) \in {"signup", "google"}
        /\ place = "readSuffix" => Op(c) = "google"
        /\ place = "create" /\ Op(c) = "signup" => n = request[c].name
  <2>1. CASE ReadName(c)
    <3>1. request[c].name \in Names
      BY <2>1, CallIs DEF ReadName
    <3> QED BY <2>1, <3>1 DEF ReadName
  <2>2. CASE ReadPrefix(c)
    <3>1. Prefix(Email(c)) \in Names
      BY <2>2, CallIs, AccountsAssumption DEF ReadPrefix
    <3> QED BY <2>2, <3>1 DEF ReadPrefix
  <2>3. CASE ReadSuffix(c)
    <3>1. PICK n \in Names : name' = [name EXCEPT ![c] = n]
      BY <2>3 DEF ReadSuffix
    <3>2. Op(c) = "google"
      BY <2>3 DEF ReadSuffix, AccountsInv, CallFits
    <3> QED BY <2>3, <3>1, <3>2 DEF ReadSuffix
  <2> QED BY <2>1, <2>2, <2>3
<1>2. StepOf(c) /\ request' = request /\ at'[c] = place
  BY <1>1, GotoStep DEF AccountPlaces, Ends
<1>3. Op(c)' = Op(c)
  BY <1>2 DEF Op
<1>4. name' \in [AccountCall -> Names \cup {Null}] /\ name'[c] = n
      /\ \A d \in AccountCall : d /= c => name'[d] = name[d]
  BY <1>1 DEF AccountsInv, TypeOK
<1>5. CallFits(c)' /\ ReadsHold(c)'
  BY <1>1, <1>2, <1>3, <1>4 DEF CallFits, ReadsHold, Op
<1>6. access' \subseteq Accounts
  BY <1>1 DEF AccountsInv
<1> QED BY <1>1, <1>2, <1>4, <1>5, <1>6, QuietStep

\* Only a session that is in its row is refreshed.
LEMMA Refreshes == ASSUME AccountsInv, NEW c \in AccountCall, Refresh(c) PROVE AccountsInv'
<1>1. PICK place \in {"done", "failed"} :
        /\ Goto(c, place) /\ access' \subseteq access \cup (IF Known(c) THEN {Email(c)} ELSE {})
        /\ UNCHANGED <<row, inbox, accepted, retired, expired, fresh, turns, name>>
  BY DEF Refresh, Moves
<1>2. at[c] = "read" /\ Op(c) = "refresh" /\ Email(c) \in Emails
  BY CallIs DEF Refresh
<1>3. access' \subseteq Accounts
  BY <1>1, <1>2 DEF AccountsInv, Accounts, Known, Row
<1> QED BY <1>1, <1>2, <1>3, MovesQuietly DEF AccountPlaces

LEMMA Answers == ASSUME AccountsInv, NEW c \in AccountCall, Answer(c) PROVE AccountsInv'
<1>1. StepOf(c) /\ request' = request /\ at'[c] = "done"
  BY GotoStep DEF Answer, AccountPlaces, Ends
<1>2. Op(c) \in {"login", "google"} /\ Known(c) /\ Email(c) \in Emails /\ Op(c)' = Op(c)
  <2>1. CallFits(c) /\ Email(c) \in Emails
    BY CallIs DEF Answer, AccountsInv
  <2> QED BY <1>1, <2>1 DEF Answer, CallFits, Op
<1>3. access' \subseteq Accounts
  BY <1>2 DEF Answer, AccountsInv, Accounts, Known, Row
<1>4. CallFits(c)' /\ ReadsHold(c)'
  BY <1>1, <1>2 DEF CallFits, ReadsHold
<1>5. name' \in [AccountCall -> Names \cup {Null}]
  BY DEF Answer, AccountsInv, TypeOK
<1> QED BY <1>1, <1>3, <1>4, <1>5, QuietStep DEF Answer

(***************************************************************************)
(* Failures, and what happens besides.                                     *)
(***************************************************************************)
LEMMA Fails == ASSUME AccountsInv, Fail \/ Crash, UNCHANGED accountVars PROVE AccountsInv'
<1>1. PICK dead \in SUBSET InFlight : Lose(dead)
  BY DEF Fail, Crash
<1>2. /\ ServerTypeOK' /\ OneAtATime' /\ overlapped' = overlapped /\ request' = request
      /\ \A d \in AccountCall : at'[d] = IF d \in dead THEN "lost" ELSE at[d]
  BY <1>1, LoseStep
<1>3. \A d \in dead : at[d] \notin {"idle"} \cup Ends
  BY DEF InFlight
<1>4. Onward /\ NobodyConfirms
  BY <1>2, <1>3 DEF Onward, Forward, NobodyConfirms, Ends
<1>5. access' \subseteq Accounts
  BY DEF AccountsInv
<1>6. /\ Grows /\ Unique(row)' /\ access' \subseteq Accounts'
      /\ CodesFit' /\ InboxesFit' /\ AcceptancesFit' /\ SessionsFit'
      /\ VerificationsWereMailed' /\ MailedCodesWorkOnce'
      /\ ~overlapped' => UsedCodesAreSpent'
  BY <1>2, <1>4, <1>5, DataStands
<1>7. TypeOK'
  BY <1>2, <1>3 DEF AccountsInv, TypeOK, Ends
<1>8. ASSUME NEW d \in AccountCall PROVE CallFits(d)' /\ (~overlapped' => ReadsHold(d)')
  <2>1. CASE d \in dead
    <3>1. at'[d] = "lost" /\ at[d] /= "idle" /\ request'[d] = request[d]
      BY <1>2, <1>3, <2>1
    <3>2. \A e \in Emails : Mailed(e) \subseteq Mailed(e)'
      BY <1>6 DEF Grows
    <3>3. Op(d)' \in {"verify", "reset"} => (request[d].secret \in Mailed(Email(d)))'
      BY <3>1, <3>2, GivenStays
    <3> QED BY <3>1, <3>3, NothingFound
  <2>2. CASE d \notin dead
    <3>1. at'[d] = at[d] /\ request'[d] = request[d] /\ name'[d] = name[d] /\ CallFits(d)
      BY <1>2, <2>2 DEF AccountsInv
    <3>2. CallFits(d)'
      BY <1>6, <3>1, FitsStand
    <3>3. Op(d)' = Op(d) /\ Email(d)' = Email(d)
      BY <3>1 DEF Op, Email
    <3>4. Row(d)' = Row(d) /\ Kind(d)' = Kind(d)
      BY <3>3 DEF Row, Kind
    <3>5. ~overlapped => ReadsHold(d)
      BY DEF AccountsInv, InTurn
    <3>6. ~overlapped' => ReadsHold(d)'
      BY <1>2, <3>1, <3>3, <3>4, <3>5 DEF ReadsHold
    <3> QED BY <3>2, <3>6
  <2> QED BY <2>1, <2>2
<1>9. InTurn'
  BY <1>6, <1>8 DEF InTurn
<1> QED BY <1>2, <1>6, <1>7, <1>8, <1>9 DEF AccountsInv

\* The rows and the calls stand; only what time and other handlers touch does not.
LEMMA OutsideStep ==
  ASSUME AccountsInv, UNCHANGED <<callVars, at, row, inbox, accepted, retired, name>>,
         fresh' \subseteq Emails, access' \subseteq access,
         expired' \subseteq Emails \X Secrets, turns' \in 0..MaxTurns
  PROVE  AccountsInv'
<1>1. ServerTypeOK' /\ OneAtATime'
  BY DEF AccountsInv, TypeOK, ServerTypeOK, OneAtATime, InFlight, callVars
<1>2. TypeOK'
  BY <1>1 DEF AccountsInv, TypeOK, callVars
<1>3. Onward /\ NobodyConfirms /\ overlapped' = overlapped
  BY DEF Onward, Forward, NobodyConfirms, callVars, Ends
<1>4. access' \subseteq Accounts
  BY DEF AccountsInv
<1>5. /\ Grows /\ Unique(row)' /\ access' \subseteq Accounts'
      /\ CodesFit' /\ InboxesFit' /\ AcceptancesFit' /\ SessionsFit'
      /\ VerificationsWereMailed' /\ MailedCodesWorkOnce'
      /\ ~overlapped' => UsedCodesAreSpent'
  BY <1>3, <1>4, DataStands
<1>6. \A d \in AccountCall : CallFits(d)'
  BY <1>5, FitsStand DEF AccountsInv, callVars
<1>7. \A d \in AccountCall : ReadsHold(d)' <=> ReadsHold(d)
  BY DEF ReadsHold, Op, Email, Row, Kind, callVars
<1>8. InTurn'
  BY <1>3, <1>5, <1>7 DEF AccountsInv, InTurn
<1> QED BY <1>1, <1>2, <1>5, <1>6, <1>8 DEF AccountsInv

LEMMA Outside ==
  ASSUME AccountsInv, (\E week \in BOOLEAN : TimePasses(week)) \/ (\E e \in Emails : OtherWrite(e)) \/ UNCHANGED vars
  PROVE  AccountsInv'
<1>1. TypeOK /\ MaxTurns \in Nat
  BY AccountsAssumption DEF AccountsInv
<1>2. ASSUME NEW week \in BOOLEAN, TimePasses(week) PROVE AccountsInv'
  <2>1. Emails \X Drawn \subseteq Emails \X Secrets
    BY DEF Drawn, Secrets
  <2>2. turns' \in 0..MaxTurns
    BY <1>1, <1>2 DEF TimePasses, TypeOK
  <2>3. expired' \subseteq Emails \X Secrets
    BY <1>1, <1>2, <2>1 DEF TimePasses, TypeOK
  <2> QED BY <1>2, <2>2, <2>3, OutsideStep DEF TimePasses
<1>3. ASSUME NEW e \in Emails, OtherWrite(e) PROVE AccountsInv'
  BY <1>1, <1>3, OutsideStep DEF OtherWrite, TypeOK
<1>4. CASE UNCHANGED vars
  BY <1>1, <1>4, OutsideStep DEF TypeOK
<1> QED BY <1>2, <1>3, <1>4
(***************************************************************************)
(* The steps that write.                                                   *)
(***************************************************************************)
\* A write keeps the name, the number and the verification of its row.
LEMMA WriteRow ==
  ASSUME AccountsInv, NEW e \in Emails, row[e] /= NoAccount, NEW r \in UserRow, Write(e, r),
         r.name = row[e].name, r.phone = row[e].phone, row[e].verified => r.verified,
         inbox' = inbox, accepted' = accepted, access' = access
  PROVE  /\ row' \in [Emails -> UserRow \cup {NoAccount}] /\ fresh' \subseteq Emails
         /\ row'[e] = r /\ \A f \in Emails : f /= e => row'[f] = row[f]
         /\ \A f \in Emails : row'[f] = NoAccount <=> row[f] = NoAccount
         /\ Grows /\ Unique(row)' /\ access' \subseteq Accounts'
<1>1. row \in [Emails -> UserRow \cup {NoAccount}] /\ fresh \subseteq Emails /\ r /= NoAccount
  BY AccountsAssumption DEF AccountsInv, TypeOK
<1>2. row'[e] = r /\ \A f \in Emails : f /= e => row'[f] = row[f]
  BY <1>1 DEF Write
<1>3. row' \in [Emails -> UserRow \cup {NoAccount}] /\ fresh' \subseteq Emails
  BY <1>1 DEF Write
<1>4. \A f \in Emails : row'[f] = NoAccount <=> row[f] = NoAccount
  BY <1>1, <1>2
<1>5. Grows
  <2>1. \A f \in Emails : Mailed(f)' = Mailed(f)
    BY DEF Mailed
  <2> QED BY <1>2, <1>4, <2>1 DEF Grows
<1>6. Unique(row)'
  BY <1>2, <1>4 DEF AccountsInv, Unique
<1>7. access' \subseteq Accounts'
  BY <1>4 DEF AccountsInv, Accounts
<1> QED BY <1>2, <1>3, <1>4, <1>5, <1>6, <1>7

LEMMA StoresCode == ASSUME AccountsInv, NEW c \in AccountCall, StoreCode(c) PROVE AccountsInv'
<1> DEFINE e == Email(c)
           r == [Row(c) EXCEPT ![Kind(c)] = c]
<1>1. /\ at[c] = "store" /\ Op(c) \in {"resend", "forgot"} /\ Write(e, r) /\ Goto(c, "mail")
      /\ UNCHANGED <<access, expired, inbox, accepted, retired, name, turns>>
  BY DEF StoreCode
<1>2. StepOf(c) /\ request' = request /\ at'[c] = "mail"
  BY <1>1, GotoStep DEF AccountPlaces, Ends
<1>3. e \in Emails /\ Kind(c) \in Kinds /\ Row(c) = row[e] /\ row[e] /= NoAccount /\ row[e] \in UserRow
  BY <1>1, CallIs DEF AccountsInv, CallFits, Known, Row
<1>4. /\ r \in UserRow /\ r.name = row[e].name /\ r.phone = row[e].phone
      /\ r.verified = row[e].verified /\ r.session = row[e].session
      /\ r[Kind(c)] = c /\ \A k \in Kinds : k /= Kind(c) => r[k] = row[e][k]
  <2>1. CASE Kind(c) = "code"
    BY <1>3, <2>1, SecretsAre DEF UserRow, Kinds
  <2>2. CASE Kind(c) = "otp"
    BY <1>3, <2>2, SecretsAre DEF UserRow, Kinds
  <2> QED BY <1>3, <2>1, <2>2 DEF Kinds
<1>5. Op(c)' = Op(c) /\ Email(c)' = e /\ Kind(c)' = Kind(c)
  BY <1>2 DEF Op, Email, Kind
<1> HIDE DEF r
<1>6. /\ row' \in [Emails -> UserRow \cup {NoAccount}] /\ fresh' \subseteq Emails
      /\ row'[e] = r /\ \A f \in Emails : f /= e => row'[f] = row[f]
      /\ \A f \in Emails : row'[f] = NoAccount <=> row[f] = NoAccount
      /\ Grows /\ Unique(row)' /\ access' \subseteq Accounts'
  BY <1>1, <1>3, <1>4, WriteRow
<1> HIDE DEF e
<1>7. Onward /\ (~overlapped' => ~overlapped) /\ OneAtATime'
  BY <1>2, StepGoesOnwards DEF StepOf
<1>8. NobodyConfirms
  BY <1>1, <1>2 DEF StepOf, NobodyConfirms
<1>9. \A f \in Emails, k \in Kinds : row'[f] /= NoAccount =>
        \/ row'[f][k] = c /\ Kind(c) = k
        \/ row[f] /= NoAccount /\ row'[f][k] = row[f][k]
  BY <1>3, <1>4, <1>6
<1>10. \A f \in Emails : row[f] /= NoAccount => row'[f].session = row[f].session /\ row'[f].verified = row[f].verified
                                                  /\ row'[f].phone = row[f].phone
  BY <1>3, <1>4, <1>6
<1>11. CodesFit'
  BY <1>1, <1>2, <1>5, <1>7, <1>9, CodesKept
<1>12. InboxesFit' /\ AcceptancesFit' /\ SessionsFit'
  BY <1>1, <1>6, <1>7, <1>10, InboxesKept, AcceptancesKept, SessionsKept
<1>13. VerificationsWereMailed'
  BY <1>1, <1>6, <1>7, <1>10, VerifiedKept
<1>14. \A f \in Emails : row[f] /= NoAccount =>
         row'[f].otp = row[f].otp \/ (row'[f].otp \in AccountCall /\ at[row'[f].otp] \notin Ends)
  <2>1. \A f \in Emails : row[f] /= NoAccount => row[f] \in UserRow /\ row'[f] \in UserRow
    BY <1>6 DEF AccountsInv, TypeOK
  <2>2. \A f \in Emails : row[f] /= NoAccount => row'[f]["otp"] \in {c, row[f]["otp"]}
    BY <1>6, <1>9 DEF Kinds
  <2> QED BY <1>1, <2>1, <2>2, RowIs DEF Ends
<1>15. ~overlapped' => UsedCodesAreSpent' /\ UsedOnce' /\ LastStands'
  <2>1. "store" \notin Ends
    BY DEF Ends
  <2>2. \A f \in Emails, k \in Kinds : row'[f] /= NoAccount =>
           \/ row[f] /= NoAccount /\ row'[f][k] = row[f][k]
           \/ row'[f][k] \in AccountCall /\ at[row'[f][k]] \notin Ends
    BY <1>1, <1>9, <2>1
  <2> QED BY <1>1, <1>6, <1>7, <1>8, <1>14, <2>2, SpentKept, UsedOnceKept, LastKept
<1>16. MailedCodesWorkOnce'
  BY <1>15, WorkOnce, PTL
<1>17. CallFits(c)' /\ ReadsHold(c)'
  <2>1. Known(c)' /\ Row(c)' = r
    BY <1>3, <1>5, <1>6 DEF Known, Row
  <2> QED BY <1>1, <1>2, <1>4, <1>5, <2>1 DEF CallFits, ReadsHold
<1>18. TypeOK'
  BY <1>1, <1>2, <1>6, TypesKept DEF AccountsInv, TypeOK
<1>19. \A d \in AccountCall : CallFits(d)'
  BY <1>1, <1>2, <1>6, <1>17, FitsAll
<1>20. InTurn'
  BY <1>2, <1>15, <1>17, ReadsAll DEF InTurn
<1> QED BY <1>6, <1>7, <1>11, <1>12, <1>13, <1>16, <1>18, <1>19, <1>20 DEF AccountsInv
LEMMA SendsMail == ASSUME AccountsInv, NEW c \in AccountCall, SendMail(c) PROVE AccountsInv'
<1> DEFINE e == Email(c)
           k == Kind(c)
<1>1. /\ at[c] = "mail" /\ Goto(c, "done")
      /\ UNCHANGED <<row, fresh, access, expired, accepted, retired, name, turns>>
  BY DEF SendMail
<1>2. StepOf(c) /\ request' = request /\ at'[c] = "done"
  BY <1>1, GotoStep DEF AccountPlaces, Ends
<1>3. /\ e \in Emails /\ k \in Kinds /\ Row(c) = row[e] /\ row[e] /= NoAccount
      /\ Op(c) \in {"signup", "resend", "forgot"} /\ CallFits(c)
  BY <1>1, CallIs DEF AccountsInv, CallFits, Known, Row
<1>4. Op(c)' = Op(c) /\ Email(c)' = e /\ Kind(c)' = k
  BY <1>2 DEF Op, Email, Kind
<1>5. Onward /\ (~overlapped' => ~overlapped) /\ OneAtATime'
  BY <1>2, StepGoesOnwards DEF StepOf
<1>6. NobodyConfirms
  BY <1>1, <1>2 DEF StepOf, NobodyConfirms
<1>7. Known(c)' = Known(c) /\ Row(c)' = Row(c)
  BY <1>1, <1>4 DEF Known, Row
<1>8. CallFits(c)' /\ ReadsHold(c)'
  BY <1>1, <1>2, <1>3, <1>4, <1>7 DEF CallFits, ReadsHold
<1>9. access' \subseteq Accounts /\ name' \in [AccountCall -> Names \cup {Null}]
  BY <1>1 DEF AccountsInv, TypeOK
<1>10. CASE inbox' = inbox
  BY <1>1, <1>2, <1>8, <1>9, <1>10, QuietStep
<1>11. CASE inbox' = [inbox EXCEPT ![e][k] = Append(@, c)]
  <2>1. inbox \in [Emails -> [Kinds -> Seq(Secrets)]] /\ inbox[e][k] \in Seq(Secrets)
    BY <1>3 DEF AccountsInv, TypeOK
  <2>2. /\ Append(inbox[e][k], c) \in Seq(Secrets) /\ Last(Append(inbox[e][k], c)) = c
        /\ Range(Append(inbox[e][k], c)) = Range(inbox[e][k]) \cup {c}
    BY <2>1, AppendedRange, SecretsAre
  <2>3. inbox' \in [Emails -> [Kinds -> Seq(Secrets)]]
    BY <1>11, <2>1, <2>2
  <2>4. /\ inbox'[e][k] = Append(inbox[e][k], c)
        /\ \A f \in Emails, j \in Kinds : f /= e \/ j /= k => inbox'[f][j] = inbox[f][j]
    BY <1>3, <1>11, <2>1
  <2>5. \A f \in Emails, j \in Kinds : Range(inbox[f][j]) \subseteq Range(inbox'[f][j])
    BY <2>2, <2>4
  <2> HIDE DEF e, k
  <2>6. Grows
    <3>1. \A f \in Emails : Mailed(f) \subseteq Mailed(f)'
      BY <2>5 DEF Mailed, Kinds
    <3> QED BY <1>1, <3>1 DEF Grows
  <2>7. CodesFit'
    <3>1. \A f \in Emails, j \in Kinds :
            /\ Range(inbox[f][j]) \subseteq Range(inbox'[f][j])
            /\ row'[f] /= NoAccount => row[f] /= NoAccount /\ row'[f][j] = row[f][j]
      BY <1>1, <2>5
    <3> QED BY <1>5, <3>1, CodesKept
  <2>8. InboxesFit'
    <3> SUFFICES ASSUME NEW f \in Emails, NEW j \in Kinds
                 PROVE  /\ row[f] = NoAccount => inbox'[f][j] = <<>>
                        /\ \A s \in Range(inbox'[f][j]) :
                             s = Old \/ (s \in AccountCall /\ Kind(s)' = j /\ at'[s] \in Ends)
      BY <1>1 DEF InboxesFit
    <3>1. row[f] = NoAccount => inbox'[f][j] = <<>>
      BY <1>3, <2>4 DEF AccountsInv, InboxesFit
    <3>2. ASSUME NEW s \in Range(inbox'[f][j]), s /= Old
          PROVE  s \in AccountCall /\ Kind(s)' = j /\ at'[s] \in Ends
      <4>1. CASE s \in Range(inbox[f][j])
        <5>1. s \in AccountCall /\ Kind(s) = j /\ at[s] \in Ends
          BY <3>2, <4>1 DEF AccountsInv, InboxesFit
        <5>2. Forward(s) /\ at[s] /= "idle"
          BY <1>5, <5>1 DEF Onward, Ends
        <5>3. Kind(s)' = Kind(s)
          BY <5>1, <5>2, ForwardKind
        <5> QED BY <5>1, <5>2, <5>3 DEF Forward
      <4>2. CASE s \notin Range(inbox[f][j])
        <5>1. inbox'[f][j] /= inbox[f][j]
          BY <3>2, <4>2
        <5>2. f = e /\ j = k
          BY <2>4, <5>1
        <5>3. s \in Range(inbox[e][k]) \cup {c}
          BY <2>2, <2>4, <3>2, <5>2
        <5>4. s = c
          BY <4>2, <5>2, <5>3
        <5> QED BY <1>2, <1>4, <5>2, <5>4 DEF Ends
      <4> QED BY <4>1, <4>2
    <3> QED BY <3>1, <3>2
  <2>9. AcceptancesFit' /\ SessionsFit' /\ VerificationsWereMailed'
    BY <1>1, <1>5, <2>6, AcceptancesKept, SessionsKept, VerifiedKept
  <2>10. ~overlapped' => UsedCodesAreSpent' /\ UsedOnce'
    BY <1>1, <1>5, <1>6, <2>6, SpentKept, UsedOnceKept
  <2>11. ASSUME ~overlapped' PROVE LastStands'
    <3> SUFFICES ASSUME NEW f \in Emails, row[f] /= NoAccount, NEW j \in Kinds, inbox'[f][j] /= <<>>
                 PROVE  \/ row[f][j] = Last(inbox'[f][j])
                        \/ \E a \in accepted : a.email = f /\ a.kind = j /\ a.secret = Last(inbox'[f][j])
                        \/ row[f][j] /= Null /\ row[f][j] \notin Range(inbox'[f][j])
      BY <1>1 DEF LastStands, Accounts
    <3>1. ~overlapped
      BY <1>5, <2>11
    <3>2. CASE f = e /\ j = k
      <4>1. ReadsHold(c)
        BY <3>1 DEF AccountsInv, InTurn
      <4>2. row[f][j] = c
        BY <1>1, <1>3, <3>2, <4>1 DEF ReadsHold, k
      <4> QED BY <2>2, <2>4, <3>2, <4>2
    <3>3. CASE f /= e \/ j /= k
      <4>1. inbox'[f][j] = inbox[f][j]
        BY <2>4, <3>3
      <4>2. LastStands /\ f \in Accounts
        BY <3>1, WorkOnce DEF AccountsInv, Accounts
      <4> QED BY <4>1, <4>2 DEF LastStands
    <3> QED BY <3>2, <3>3
  <2>12. MailedCodesWorkOnce'
    BY <2>10, <2>11, WorkOnce, PTL
  <2>13. TypeOK'
    BY <1>1, <1>2, <1>9, <2>3, TypesKept DEF AccountsInv, TypeOK
  <2>14. \A d \in AccountCall : CallFits(d)'
    BY <1>1, <1>2, <1>8, <2>6, FitsAll
  <2>15. InTurn'
    BY <1>2, <1>8, <2>10, ReadsAll DEF InTurn
  <2>16. Unique(row)' /\ access' \subseteq Accounts'
    BY <1>1 DEF AccountsInv, Unique, Accounts
  <2> QED BY <1>5, <2>7, <2>8, <2>9, <2>12, <2>13, <2>14, <2>15, <2>16 DEF AccountsInv
<1> QED BY <1>10, <1>11 DEF SendMail

LEMMA ChecksCode == ASSUME AccountsInv, NEW c \in AccountCall, CheckCode(c) PROVE AccountsInv'
<1>1. at[c] = "read" /\ Op(c) \in {"verify", "reset"}
  BY DEF CheckCode
<1>2. access \subseteq Accounts
  BY DEF AccountsInv
<1>3. CASE ~Passes(c)
  <2>1. Moves(c, "failed")
    BY <1>3 DEF CheckCode
  <2> QED BY <1>1, <1>2, <2>1, MovesQuietly DEF Moves, AccountPlaces
<1>4. CASE Passes(c)
  <2>1. /\ accepted' = accepted \cup {Acceptance(c)} /\ Goto(c, "write")
        /\ UNCHANGED <<row, fresh, access, expired, inbox, retired, name, turns>>
    BY <1>4 DEF CheckCode, Acceptance
  <2>2. StepOf(c) /\ request' = request /\ at'[c] = "write"
    BY <1>1, <2>1, GotoStep DEF AccountPlaces, Ends
  <2>3. /\ Email(c) \in Emails /\ Kind(c) \in Kinds /\ request[c].secret \in Secrets
        /\ Known(c) /\ Open(c) /\ Matches(c) /\ request[c].secret \in Mailed(Email(c))
    BY <1>1, <1>4, CallIs DEF AccountsInv, CallFits, Passes
  <2>4. Op(c)' = Op(c) /\ Email(c)' = Email(c) /\ Kind(c)' = Kind(c) /\ Acceptance(c)' = Acceptance(c)
    BY <2>2 DEF Op, Email, Kind, Acceptance
  <2>5. Onward /\ (~overlapped' => ~overlapped) /\ OneAtATime'
    BY <2>2, StepGoesOnwards DEF StepOf
  <2>6. NobodyConfirms
    BY <1>1, <2>2 DEF StepOf, NobodyConfirms
  <2>7. Known(c)' = Known(c) /\ Row(c)' = Row(c)
    BY <2>1, <2>4 DEF Known, Row
  <2>8. Mailed(Email(c))' = Mailed(Email(c))
    BY <2>1, <2>4 DEF Mailed
  <2>9. CallFits(c)'
    <3>1. Acceptance(c)' \in accepted'
      BY <2>1, <2>4
    <3>2. request'[c].secret \in Mailed(Email(c))'
      BY <2>2, <2>3, <2>8
    <3> QED BY <1>1, <2>2, <2>3, <2>4, <2>7, <3>1, <3>2 DEF CallFits
  <2>10. ReadsHold(c)'
    BY <2>2, <2>3, <2>4, <2>7 DEF ReadsHold, Open, Matches
  <2>11. Grows
    <3>1. \A f \in Emails : Mailed(f)' = Mailed(f)
      BY <2>1 DEF Mailed
    <3> QED BY <2>1, <3>1 DEF Grows
  <2>12. \A f \in Emails, j \in Kinds : row'[f] = row[f] /\ inbox'[f][j] = inbox[f][j]
    BY <2>1
  <2>13. CodesFit' /\ InboxesFit' /\ SessionsFit' /\ VerificationsWereMailed'
    BY <2>1, <2>5, <2>12, CodesKept, InboxesKept, SessionsKept, VerifiedKept
  <2>14. AcceptancesFit'
    <3>1. request[c].secret = Old \/ at[request[c].secret] \in Ends
      BY <2>3 DEF AccountsInv, InboxesFit, Mailed, Kinds
    <3>2. request[c].secret = Old \/ at'[request[c].secret] \in Ends
      <4>1. request[c].secret = Old \/ request[c].secret \in AccountCall
        BY <2>3 DEF Secrets
      <4> QED BY <2>5, <3>1, <4>1 DEF Onward, Forward
    <3>3. ASSUME NEW a, a = Acceptance(c)
          PROVE  /\ a.secret = Old \/ at'[a.secret] \in Ends
                 /\ row'[a.email] /= NoAccount
                 /\ a.by /= Old
                 /\ a = Acceptance(a.by)' /\ at'[a.by] \in {"write"} \cup Ends /\ Op(a.by)' \in {"verify", "reset"}
      <4>1. a.by = c /\ a.email = Email(c) /\ a.secret = request[c].secret
        BY <3>3 DEF Acceptance
      <4>2. row[Email(c)] /= NoAccount
        BY <2>3 DEF Known, Row
      <4> QED BY <1>1, <2>1, <2>2, <2>4, <3>2, <3>3, <4>1, <4>2, SecretsAre
    <3> QED BY <2>1, <2>5, <2>11, <3>3, AcceptanceStands DEF AcceptancesFit
  <2>15. ~overlapped' => UsedCodesAreSpent' /\ UsedOnce' /\ LastStands'
    <3>1. ~Used(Acceptance(c))'
      BY <2>2, SecretsAre DEF Used, Acceptance
    <3>2. \A a \in accepted' : a \in accepted \/ ~Used(a)'
      BY <2>1, <2>4, <3>1
    <3> QED BY <2>1, <2>5, <2>6, <2>11, <2>12, <3>2, SpentKept, UsedOnceKept, LastKept
  <2>16. MailedCodesWorkOnce'
    BY <2>15, WorkOnce, PTL
  <2>17. TypeOK'
    <3>1. Acceptance(c) \in [by : Secrets, kind : Kinds, email : Emails, secret : Secrets]
      BY <2>3, SecretsAre DEF Acceptance
    <3> QED BY <2>1, <2>2, <3>1, TypesKept DEF AccountsInv, TypeOK
  <2>18. \A d \in AccountCall : CallFits(d)'
    BY <2>1, <2>2, <2>9, <2>11, FitsAll
  <2>19. InTurn'
    BY <2>2, <2>10, <2>15, ReadsAll DEF InTurn
  <2>20. Unique(row)' /\ access' \subseteq Accounts'
    BY <2>1 DEF AccountsInv, Unique, Accounts
  <2> QED BY <2>5, <2>13, <2>14, <2>16, <2>17, <2>18, <2>19, <2>20 DEF AccountsInv
<1> QED BY <1>3, <1>4
LEMMA Confirms == ASSUME AccountsInv, NEW c \in AccountCall, Confirm(c) PROVE AccountsInv'
<1> DEFINE e == Email(c)
           k == Kind(c)
           r == Confirmed(c)
<1>1. /\ at[c] = "write" /\ Op(c) \in {"verify", "reset"} /\ Write(e, r) /\ Goto(c, "done")
      /\ UNCHANGED <<access, expired, inbox, accepted, retired, name, turns>>
  BY DEF Confirm
<1>2. StepOf(c) /\ request' = request /\ at'[c] = "done"
  BY <1>1, GotoStep DEF AccountPlaces, Ends
<1>3. /\ e \in Emails /\ k \in Kinds /\ Row(c) = row[e] /\ row[e] /= NoAccount /\ row[e] \in UserRow
      /\ Acceptance(c) \in accepted /\ request[c].secret \in Mailed(e)
  BY <1>1, CallIs DEF AccountsInv, CallFits, Known, Row
<1>4. /\ r \in UserRow /\ r.name = row[e].name /\ r.phone = row[e].phone
      /\ row[e].verified => r.verified
      /\ r.session = row[e].session
      /\ r[k] = Null /\ \A j \in Kinds : j /= k => r[j] = row[e][j]
      /\ k = "code" => r.verified
      /\ k = "otp" => r.verified = row[e].verified
  <2>1. CASE Op(c) = "verify"
    <3>1. r = [row[e] EXCEPT !.verified = TRUE, !.code = Null] /\ k = "code"
      BY <1>3, <2>1 DEF Confirmed, Kind
    <3> QED BY <1>3, <3>1, SecretsAre DEF UserRow, Kinds
  <2>2. CASE Op(c) = "reset"
    <3>1. r = [row[e] EXCEPT !.password = TRUE, !.otp = Null] /\ k = "otp"
      BY <1>3, <2>2 DEF Confirmed, Kind
    <3> QED BY <1>3, <3>1, SecretsAre DEF UserRow, Kinds
  <2> QED BY <1>1, <2>1, <2>2
<1> HIDE DEF r
<1>5. Op(c)' = Op(c) /\ Email(c)' = e /\ Kind(c)' = k
  BY <1>2 DEF Op, Email, Kind
<1>6. /\ row' \in [Emails -> UserRow \cup {NoAccount}] /\ fresh' \subseteq Emails
      /\ row'[e] = r /\ \A f \in Emails : f /= e => row'[f] = row[f]
      /\ \A f \in Emails : row'[f] = NoAccount <=> row[f] = NoAccount
      /\ Grows /\ Unique(row)' /\ access' \subseteq Accounts'
  BY <1>1, <1>3, <1>4, WriteRow
<1>7. Onward /\ (~overlapped' => ~overlapped) /\ OneAtATime'
  BY <1>2, StepGoesOnwards DEF StepOf
<1>8. Kind(c) = k /\ (k = "code" <=> Op(c) = "verify") /\ (k = "otp" <=> Op(c) = "reset")
  BY <1>1 DEF Kind
<1>9. /\ Acceptance(c).by = c /\ Acceptance(c).kind = k
      /\ Acceptance(c).email = e /\ Acceptance(c).secret = request[c].secret
  BY DEF Acceptance
<1> HIDE DEF e, k
<1>10. \A f \in Emails, j \in Kinds : row'[f] /= NoAccount =>
         \/ f = e /\ j = k /\ row'[f][j] = Null
         \/ (f /= e \/ j /= k) /\ row[f] /= NoAccount /\ row'[f][j] = row[f][j]
  BY <1>3, <1>4, <1>6
<1>11. \A f \in Emails : row[f] /= NoAccount => row'[f].session = row[f].session /\ row'[f].phone = row[f].phone
  BY <1>3, <1>4, <1>6
<1>12. CodesFit'
  BY <1>1, <1>7, <1>10, CodesKept
<1>13. InboxesFit' /\ AcceptancesFit' /\ SessionsFit'
  BY <1>1, <1>6, <1>7, <1>11, InboxesKept, AcceptancesKept, SessionsKept
<1>14. VerificationsWereMailed'
  <2> SUFFICES ASSUME NEW f \in Emails, row'[f] /= NoAccount
               PROVE  /\ row'[f].verified /\ row'[f].phone /= Null =>
                           \/ row[f] /= NoAccount /\ row[f].verified /\ row[f].phone /= Null
                           \/ \E a \in accepted' : a.email = f /\ a.kind = "code"
                      /\ row'[f].session \in AccountCall =>
                           row[f] /= NoAccount /\ row'[f].session = row[f].session /\ (row[f].verified => row'[f].verified)
    BY <1>1, <1>7, VerifiedKept
  <2>1. row[f] /= NoAccount /\ row'[f].session = row[f].session /\ row'[f].phone = row[f].phone
    BY <1>6, <1>11
  <2>2. row[f].verified => row'[f].verified
    BY <1>6, <2>1 DEF Grows
  <2>3. CASE f = e /\ k = "code"
    BY <1>1, <1>3, <1>9, <2>1, <2>2, <2>3
  <2>4. CASE f /= e
    BY <1>6, <2>1, <2>2, <2>4
  <2>5. CASE f = e /\ k = "otp"
    BY <1>4, <1>6, <2>1, <2>2, <2>5
  <2> QED BY <1>3, <2>3, <2>4, <2>5 DEF Kinds
<1>15. \A a \in accepted : Used(a)' => Used(a) \/ a = Acceptance(c)
  <2> SUFFICES ASSUME NEW a \in accepted, Used(a)', a.by /= Old, a.by /= c PROVE Used(a)
    BY <1>1 DEF AccountsInv, AcceptancesFit, Used
  <2>1. a.by \in AccountCall
    BY AcceptanceIs
  <2>2. at'[a.by] = at[a.by]
    BY <1>2, <2>1 DEF StepOf
  <2> QED BY <2>2 DEF Used
<1>16. ASSUME ~overlapped' PROVE UsedCodesAreSpent' /\ UsedOnce' /\ LastStands'
  <2>1. ~overlapped /\ UsedCodesAreSpent /\ UsedOnce /\ LastStands
    BY <1>7, <1>16, WorkOnce DEF AccountsInv, InTurn
  <2>2. row[e][k] = request[c].secret /\ (k = "code" => ~row[e].verified)
    BY <1>1, <1>3, <1>8, <2>1 DEF AccountsInv, InTurn, ReadsHold
  <2>3. row[e]["otp"] = row[e].otp /\ row'[e]["otp"] = row'[e].otp
    BY <1>3, <1>4, <1>6, RowIs
  <2>4. \A b \in accepted : Used(b) => b.kind /= k \/ b.email /= e \/ b.secret /= request[c].secret
    <3> SUFFICES ASSUME NEW b \in accepted, Used(b), b.kind = k, b.email = e, b.secret = request[c].secret
                 PROVE  FALSE
      OBVIOUS
    <3>1. IF b.kind = "code" THEN row[b.email].verified ELSE row[b.email].otp /= b.secret
      BY <2>1 DEF UsedCodesAreSpent
    <3>2. CASE k = "code"
      BY <2>2, <3>1, <3>2
    <3>3. CASE k = "otp"
      BY <2>2, <2>3, <3>1, <3>3
    <3> QED BY <1>3, <3>2, <3>3 DEF Kinds
  <2>5. UsedOnce'
    <3> SUFFICES ASSUME NEW a \in accepted, NEW b \in accepted, a.kind = b.kind, a.email = b.email,
                        a.secret = b.secret, Used(a)', Used(b)'
                 PROVE  a = b
      BY <1>1 DEF UsedOnce
    <3>1. CASE Used(a) /\ Used(b)
      BY <2>1, <3>1 DEF UsedOnce
    <3>2. CASE a = Acceptance(c) /\ Used(b)
      BY <1>9, <2>4, <3>2
    <3>3. CASE Used(a) /\ b = Acceptance(c)
      BY <1>9, <2>4, <3>3
    <3> QED BY <1>15, <3>1, <3>2, <3>3
  <2>6. UsedCodesAreSpent'
    <3> SUFFICES ASSUME NEW a \in accepted, Used(a)'
                 PROVE  IF a.kind = "code" THEN row'[a.email].verified ELSE row'[a.email].otp /= a.secret
      BY <1>1 DEF UsedCodesAreSpent
    <3>1. a.secret \in Secrets /\ a.email \in Emails /\ a.kind \in Kinds /\ row[a.email] \in UserRow
      BY AcceptanceIs
    <3>2. row[a.email] /= NoAccount /\ row'[a.email] /= NoAccount
      BY <1>6, <3>1, AccountsAssumption
    <3>3. CASE a = Acceptance(c)
      <4>1. a.email = e /\ a.kind = k
        BY <1>9, <3>3
      <4>2. k = "otp" => row'[e].otp = Null
        BY <1>4, <1>6, <2>3
      <4>3. k = "code" => row'[e].verified
        BY <1>4, <1>6
      <4> QED BY <1>3, <3>1, <4>1, <4>2, <4>3, SecretsAre DEF Kinds
    <3>4. CASE Used(a)
      <4>1. IF a.kind = "code" THEN row[a.email].verified ELSE row[a.email].otp /= a.secret
        BY <2>1, <3>4 DEF UsedCodesAreSpent
      <4>2. CASE a.kind = "code"
        BY <1>6, <3>1, <3>2, <4>1, <4>2 DEF Grows
      <4>3. CASE a.kind = "otp"
        <5>1. row'[a.email] \in UserRow
          BY <1>6, <3>1, <3>2
        <5>2. row'[a.email]["otp"] \in {Null, row[a.email]["otp"]}
          BY <1>10, <3>1, <3>2 DEF Kinds
        <5>3. row'[a.email].otp \in {Null, row[a.email].otp}
          BY <3>1, <5>1, <5>2, RowIs
        <5> QED BY <3>1, <4>1, <4>3, <5>3, SecretsAre
      <4> QED BY <3>1, <4>2, <4>3 DEF Kinds
    <3> QED BY <1>15, <3>3, <3>4
  <2>7. LastStands'
    <3> SUFFICES ASSUME NEW f \in Emails, row'[f] /= NoAccount, NEW j \in Kinds, inbox[f][j] /= <<>>
                 PROVE  \/ row'[f][j] = Last(inbox[f][j])
                        \/ \E a \in accepted : a.email = f /\ a.kind = j /\ a.secret = Last(inbox[f][j])
                        \/ row'[f][j] /= Null /\ row'[f][j] \notin Range(inbox[f][j])
      BY <1>1 DEF LastStands, Accounts
    <3>1. \/ row[f][j] = Last(inbox[f][j])
          \/ \E a \in accepted : a.email = f /\ a.kind = j /\ a.secret = Last(inbox[f][j])
          \/ row[f][j] /= Null /\ row[f][j] \notin Range(inbox[f][j])
      BY <1>6, <2>1 DEF LastStands, Accounts
    <3>2. CASE f /= e \/ j /= k
      BY <1>10, <3>1, <3>2
    <3>3. CASE f = e /\ j = k
      <4>1. row[e][k] \in Range(inbox[e][k])
        <5>1. PICK i \in Kinds : row[e][k] \in Range(inbox[e][i])
          BY <1>3, <2>2 DEF Mailed, Kinds
        <5>2. row[e][k] = Old \/ (row[e][k] \in AccountCall /\ Kind(row[e][k]) = i)
          BY <1>3, <5>1 DEF AccountsInv, InboxesFit
        <5>3. /\ row[e][k] = Old => Old \in Range(inbox[e][k])
              /\ row[e][k] \in AccountCall => Kind(row[e][k]) = k
          BY <1>3 DEF AccountsInv, CodesFit, Accounts
        <5> QED BY <5>1, <5>2, <5>3
      <4>2. CASE row[e][k] = Last(inbox[e][k])
        BY <1>3, <1>9, <2>2, <3>3, <4>2
      <4> QED BY <3>1, <3>3, <4>1, <4>2
    <3> QED BY <3>2, <3>3
  <2> QED BY <2>5, <2>6, <2>7
<1>17. MailedCodesWorkOnce'
  BY <1>16, WorkOnce, PTL
<1>18. CallFits(c)' /\ ReadsHold(c)'
  <2>1. \A f \in Emails : Mailed(f) \subseteq Mailed(f)'
    BY <1>6 DEF Grows
  <2>2. Op(c)' \in {"verify", "reset"} => (request[c].secret \in Mailed(Email(c)))'
    BY <1>1, <1>2, <2>1, GivenStays
  <2> QED BY <1>1, <1>2, <1>5, <2>2, NothingFound
<1>19. TypeOK'
  BY <1>1, <1>2, <1>6, TypesKept DEF AccountsInv, TypeOK
<1>20. \A d \in AccountCall : CallFits(d)'
  BY <1>1, <1>2, <1>6, <1>18, FitsAll
<1>21. InTurn'
  BY <1>2, <1>16, <1>18, ReadsAll DEF InTurn
<1> QED BY <1>6, <1>7, <1>12, <1>13, <1>14, <1>17, <1>19, <1>20, <1>21 DEF AccountsInv
\* A session is stored in place of the one that was there, or taken out; what
\* leaves its row is retired.
LEMMA ChangesSession ==
  ASSUME AccountsInv, NEW c \in AccountCall, NEW s \in {c, Null},
         at[c] = "store" \/ (at[c] = "write" /\ Op(c) = "logout"),
         s = c => at[c] = "store",
         Op(c) \in {"login", "google", "logout"},
         Write(Email(c), [Row(c) EXCEPT !.session = s]),
         retired' = retired \cup Leaving(Email(c)),
         Goto(c, IF s = c THEN "answer" ELSE "done"),
         UNCHANGED <<access, expired, inbox, accepted, name, turns>>
  PROVE  AccountsInv'
<1> DEFINE e == Email(c)
           r == [Row(c) EXCEPT !.session = s]
           place == IF s = c THEN "answer" ELSE "done"
<1>1. StepOf(c) /\ request' = request /\ at'[c] = place
  BY GotoStep DEF AccountPlaces, Ends
<1>2. /\ e \in Emails /\ Row(c) = row[e] /\ row[e] /= NoAccount /\ row[e] \in UserRow
      /\ s = c => Op(c) \in {"login", "google"} /\ (Op(c) = "login" => row[e].verified)
  BY CallIs, SecretsAre DEF AccountsInv, CallFits, Known, Row
<1>3. /\ r \in UserRow /\ r.name = row[e].name /\ r.phone = row[e].phone
      /\ r.verified = row[e].verified /\ r.otp = row[e].otp /\ r.session = s
      /\ \A k \in Kinds : r[k] = row[e][k]
  BY <1>2, SecretsAre DEF UserRow, Kinds
<1>4. Op(c)' = Op(c) /\ Email(c)' = e
  BY <1>1 DEF Op, Email
<1> HIDE DEF r
<1>5. /\ row' \in [Emails -> UserRow \cup {NoAccount}] /\ fresh' \subseteq Emails
      /\ row'[e] = r /\ \A f \in Emails : f /= e => row'[f] = row[f]
      /\ \A f \in Emails : row'[f] = NoAccount <=> row[f] = NoAccount
      /\ Grows /\ Unique(row)' /\ access' \subseteq Accounts'
  BY <1>2, <1>3, WriteRow DEF r
<1> HIDE DEF e
<1>6. Onward /\ (~overlapped' => ~overlapped) /\ OneAtATime'
  BY <1>1, StepGoesOnwards DEF StepOf
<1>7. NobodyConfirms
  BY <1>1 DEF StepOf, NobodyConfirms
<1>8. \A f \in Emails : row'[f] /= NoAccount =>
        /\ row[f] /= NoAccount /\ row'[f].verified = row[f].verified
        /\ row'[f].phone = row[f].phone /\ row'[f].otp = row[f].otp
        /\ \A k \in Kinds : row'[f][k] = row[f][k]
        /\ f /= e => row'[f].session = row[f].session
  BY <1>2, <1>3, <1>5
<1>9. CodesFit' /\ InboxesFit' /\ AcceptancesFit'
  BY <1>5, <1>6, <1>8, CodesKept, InboxesKept, AcceptancesKept
<1>10. \A p \in retired' : p \in retired \/ (p = <<e, row[e].session>> /\ row[e].session /= Null)
  BY DEF Leaving, e
<1>11. SessionsFit'
  <2>1. ASSUME NEW t \in AccountCall, at[t] \in {"answer"} \cup Ends PROVE at'[t] \in {"answer"} \cup Ends
    BY <1>6, <2>1 DEF Onward, Forward
  <2>2. ASSUME NEW f \in Emails, row'[f] /= NoAccount, row'[f].session \in AccountCall
        PROVE  at'[row'[f].session] \in {"answer"} \cup Ends
    <3>1. CASE f = e
      BY <1>1, <1>3, <1>5, <2>2, <3>1, SecretsAre
    <3>2. CASE f /= e
      <4>1. row'[f].session = row[f].session /\ f \in Accounts
        BY <1>8, <2>2, <3>2 DEF Accounts
      <4> QED BY <2>1, <2>2, <4>1 DEF AccountsInv, SessionsFit
    <3> QED BY <3>1, <3>2
  <2>3. ASSUME NEW p \in retired
        PROVE  /\ row'[p[1]] /= NoAccount /\ row'[p[1]].session /= p[2]
               /\ p[2] = Old \/ at'[p[2]] \in {"answer"} \cup Ends
    <3>1. p[1] \in Emails /\ p[2] \in Secrets
      BY DEF AccountsInv, TypeOK
    <3>2. /\ row[p[1]] /= NoAccount /\ row[p[1]].session /= p[2]
          /\ p[2] = Old \/ at[p[2]] \in {"answer"} \cup Ends
      BY DEF AccountsInv, SessionsFit
    <3>3. p[2] = Old \/ p[2] \in AccountCall
      BY <3>1 DEF Secrets
    <3>4. p[2] /= s
      BY <3>1, <3>2, SecretsAre DEF Ends
    <3>5. row'[p[1]] /= NoAccount /\ row'[p[1]].session /= p[2]
      BY <1>3, <1>5, <1>8, <3>1, <3>2, <3>4
    <3> QED BY <2>1, <3>2, <3>3, <3>5
  <2>4. ASSUME row[e].session /= Null
        PROVE  /\ row'[e] /= NoAccount /\ row'[e].session /= row[e].session
               /\ row[e].session = Old \/ at'[row[e].session] \in {"answer"} \cup Ends
    <3>1. row[e].session = Old \/ row[e].session \in AccountCall
      BY <1>2, <2>4, RowIs DEF Secrets
    <3>2. row[e].session \in AccountCall => at[row[e].session] \in {"answer"} \cup Ends
      BY <1>2 DEF AccountsInv, SessionsFit, Accounts
    <3>3. row[e].session /= s
      BY <2>4, <3>1, <3>2, SecretsAre DEF Ends
    <3> QED BY <1>2, <1>3, <1>5, <2>1, <3>1, <3>2, <3>3
  <2> QED BY <1>10, <2>2, <2>3, <2>4 DEF SessionsFit, Accounts
<1>12. VerificationsWereMailed'
  <2> SUFFICES ASSUME NEW f \in Emails, row'[f] /= NoAccount
               PROVE  /\ row'[f].verified /\ row'[f].phone /= Null =>
                           row[f] /= NoAccount /\ row[f].verified /\ row[f].phone /= Null
                      /\ row'[f].session \in AccountCall =>
                           \/ row[f] /= NoAccount /\ row'[f].session = row[f].session /\ (row[f].verified => row'[f].verified)
                           \/ row'[f].verified \/ request'[row'[f].session].op = "google"
    BY <1>6, VerifiedKept
  <2>1. row[f] /= NoAccount /\ row'[f].verified = row[f].verified /\ row'[f].phone = row[f].phone
    BY <1>8
  <2>2. CASE f /= e
    <3>1. row'[f].session = row[f].session
      BY <1>8, <2>2
    <3> QED BY <2>1, <3>1
  <2>3. ASSUME f = e, row'[f].session \in AccountCall
        PROVE  row'[f].verified \/ request'[row'[f].session].op = "google"
    <3>1. row'[f].session = s /\ s = c
      BY <1>3, <1>5, <2>3, SecretsAre
    <3>2. row[e].verified \/ request[c].op = "google"
      BY <1>2, <3>1 DEF Op
    <3> QED BY <1>1, <2>1, <2>3, <3>1, <3>2
  <2> QED BY <2>1, <2>2, <2>3
<1>13. ~overlapped' => UsedCodesAreSpent' /\ UsedOnce' /\ LastStands'
  BY <1>5, <1>6, <1>7, <1>8, SpentKept, UsedOnceKept, LastKept
<1>14. MailedCodesWorkOnce'
  BY <1>13, WorkOnce, PTL
<1>15. CallFits(c)' /\ ReadsHold(c)'
  <2>1. Known(c)'
    BY <1>2, <1>4, <1>5 DEF Known, Row
  <2>2. Op(c)' \in {"login", "google", "logout"} /\ (at'[c] = "answer" => Op(c)' \in {"login", "google"})
    BY <1>1, <1>2, <1>4
  <2> QED BY <1>1, <2>1, <2>2 DEF CallFits, ReadsHold
<1>16. TypeOK'
  <2>1. retired' \subseteq Emails \X Secrets
    <3>1. row[e].session /= Null => row[e].session \in Secrets
      BY <1>2, RowIs
    <3> QED BY <1>2, <1>10, <3>1 DEF AccountsInv, TypeOK
  <2> QED BY <1>1, <1>5, <2>1, TypesKept DEF AccountsInv, TypeOK
<1>17. \A d \in AccountCall : CallFits(d)'
  BY <1>1, <1>5, <1>15, FitsAll
<1>18. InTurn'
  BY <1>1, <1>13, <1>15, ReadsAll DEF InTurn
<1> QED BY <1>5, <1>6, <1>9, <1>11, <1>12, <1>14, <1>16, <1>17, <1>18 DEF AccountsInv

LEMMA Sessions == ASSUME AccountsInv, NEW c \in AccountCall, StoreSession(c) \/ Logout(c) PROVE AccountsInv'
<1>1. c /= Null
  BY SecretsAre
<1>2. CASE StoreSession(c)
  BY <1>2, ChangesSession DEF StoreSession
<1>3. CASE Logout(c)
  BY <1>1, <1>3, ChangesSession DEF Logout
<1> QED BY <1>2, <1>3
LEMMA Creates == ASSUME AccountsInv, NEW c \in AccountCall, Create(c) PROVE AccountsInv'
<1> DEFINE e == Email(c)
           r == NewUser(c)
           place == IF Op(c) = "signup" THEN "mail" ELSE "store"
<1>1. at[c] = "create" /\ e \in Emails /\ CallFits(c)
  BY CallIs DEF Create, AccountsInv
<1>2. /\ Op(c) \in {"signup", "google"} /\ name[c] \in Names
      /\ Op(c) = "signup" => name[c] = request[c].name /\ request[c].phone \in Phones
  BY <1>1, CallIs DEF CallFits
<1>3. CASE ~Distinct(c, r)
  <2>1. Moves(c, "failed")
    BY <1>3 DEF Create
  <2>2. access \subseteq Accounts
    BY DEF AccountsInv
  <2> QED BY <1>1, <2>1, <2>2, MovesQuietly DEF Moves, AccountPlaces
<1>4. CASE Distinct(c, r)
  <2>1. /\ row' = [row EXCEPT ![e] = r] /\ fresh' = fresh \cup {e} /\ Goto(c, place)
        /\ UNCHANGED <<access, expired, inbox, accepted, retired, name, turns>>
    BY <1>4 DEF Create
  <2>2. StepOf(c) /\ request' = request /\ at'[c] = place
    BY <1>1, <2>1, GotoStep DEF AccountPlaces, Ends
  <2>3. /\ row[e] = NoAccount
        /\ \A f \in Emails : row[f] /= NoAccount => row[f].name /= r.name
        /\ r.phone /= Null => \A f \in Emails : row[f] /= NoAccount => row[f].phone /= r.phone
    BY <1>4 DEF Distinct, Known, Row, NameFree, PhoneFree
  <2>4. /\ r \in UserRow /\ r /= NoAccount /\ r.name = name[c] /\ r.session = Null
        /\ r["otp"] = Null /\ r["code"] \in {c, Null}
        /\ r["code"] = c => Op(c) = "signup"
        /\ Op(c) = "signup" => r["code"] = c /\ r.phone = request[c].phone
        /\ r.verified => r.phone = Null
    <3>1. CASE Op(c) = "signup"
      <4>1. r = [name |-> name[c], phone |-> request[c].phone, password |-> TRUE, verified |-> FALSE,
                 code |-> c, otp |-> Null, session |-> Null]
        BY <3>1 DEF NewUser
      <4>2. r \in UserRow
        BY <1>2, <3>1, <4>1, SecretsAre DEF UserRow
      <4>3. r.name = name[c] /\ r.session = Null /\ r.code = c /\ r.otp = Null /\ r.phone = request[c].phone
        BY <4>1
      <4>4. r["code"] = r.code /\ r["otp"] = r.otp
        BY <4>2, RowIs
      <4>5. ~r.verified
        BY <4>1
      <4>6. r /= NoAccount
        BY <4>2, AccountsAssumption
      <4> HIDE DEF r
      <4> QED BY <3>1, <4>2, <4>3, <4>4, <4>5, <4>6
    <3>2. CASE Op(c) = "google"
      <4>1. r = [name |-> name[c], phone |-> Null, password |-> FALSE, verified |-> TRUE,
                 code |-> Null, otp |-> Null, session |-> Null]
        BY <3>2 DEF NewUser
      <4>2. r \in UserRow
        BY <1>2, <4>1, SecretsAre DEF UserRow
      <4>3. r.name = name[c] /\ r.session = Null /\ r.code = Null /\ r.otp = Null /\ r.phone = Null
        BY <4>1
      <4>4. r["code"] = r.code /\ r["otp"] = r.otp
        BY <4>2, RowIs
      <4>5. r /= NoAccount
        BY <4>2, AccountsAssumption
      <4> HIDE DEF r
      <4> QED BY <3>2, <4>2, <4>3, <4>4, <4>5, SecretsAre
    <3> QED BY <1>2, <3>1, <3>2
  <2> HIDE DEF r
  <2>5. Op(c)' = Op(c) /\ Email(c)' = e /\ Kind(c)' = Kind(c) /\ Kind(c) = "code"
    BY <1>2, <2>2 DEF Op, Email, Kind
  <2> HIDE DEF e
  <2>6. row \in [Emails -> UserRow \cup {NoAccount}] /\ fresh \subseteq Emails
    BY DEF AccountsInv, TypeOK
  <2>7. /\ row' \in [Emails -> UserRow \cup {NoAccount}] /\ fresh' \subseteq Emails
        /\ row'[e] = r /\ \A f \in Emails : f /= e => row'[f] = row[f]
    BY <1>1, <2>1, <2>4, <2>6
  <2>8. \A f \in Emails : row'[f] = NoAccount => row[f] = NoAccount
    BY <2>3, <2>7
  <2>9. \A f \in Emails : row[f] /= NoAccount => f /= e /\ row'[f] = row[f]
    BY <2>3, <2>7
  <2>10. \A f \in Emails : row'[f] /= NoAccount =>
           (f = e /\ row'[f] = r) \/ (f /= e /\ row[f] /= NoAccount /\ row'[f] = row[f])
    BY <2>7
  <2>11. Grows
    <3>1. \A f \in Emails : Mailed(f)' = Mailed(f)
      BY <2>1 DEF Mailed
    <3> QED BY <2>1, <2>9, <3>1 DEF Grows
  <2>12. Unique(row)'
    <3> SUFFICES ASSUME NEW f \in Emails, NEW g \in Emails, f /= g, row'[f] /= NoAccount, row'[g] /= NoAccount
                 PROVE  /\ row'[f].name /= row'[g].name
                        /\ row'[f].phone = row'[g].phone => row'[f].phone = Null
      BY DEF Unique
    <3>1. CASE f = e
      BY <2>3, <2>10, <3>1
    <3>2. CASE g = e
      BY <2>3, <2>10, <3>2
    <3>3. CASE f /= e /\ g /= e
      BY <2>10, <3>3 DEF AccountsInv, Unique
    <3> QED BY <3>1, <3>2, <3>3
  <2>13. access' \subseteq Accounts'
    BY <2>1, <2>8 DEF AccountsInv, Accounts
  <2>14. Onward /\ (~overlapped' => ~overlapped) /\ OneAtATime'
    BY <2>2, StepGoesOnwards DEF StepOf
  <2>15. NobodyConfirms
    BY <1>1, <2>2 DEF StepOf, NobodyConfirms
  <2>16. CodesFit'
    <3> SUFFICES ASSUME NEW f \in Emails, row'[f] /= NoAccount, NEW k \in Kinds
                 PROVE  \/ row'[f][k] = Null
                        \/ row'[f][k] = c /\ Kind(c)' = k /\ at'[c] = "mail"
                        \/ row[f] /= NoAccount /\ row'[f][k] = row[f][k]
      BY <2>1, <2>14, CodesKept
    <3>1. CASE f /= e
      BY <2>10, <3>1
    <3>2. CASE f = e /\ k = "otp"
      BY <2>4, <2>7, <3>2
    <3>3. CASE f = e /\ k = "code"
      BY <2>2, <2>4, <2>5, <2>7, <3>3
    <3> QED BY <3>1, <3>2, <3>3 DEF Kinds
  <2>17. InboxesFit' /\ AcceptancesFit'
    BY <2>1, <2>8, <2>11, <2>14, InboxesKept, AcceptancesKept
  <2>18. SessionsFit'
    <3>1. \A f \in Emails : /\ row[f] /= NoAccount => row'[f] /= NoAccount /\ row'[f].session = row[f].session
                            /\ row[f] = NoAccount => row'[f] = NoAccount \/ row'[f].session = Null
      BY <2>4, <2>9, <2>10
    <3> QED BY <2>1, <2>14, <3>1, SessionsKept
  <2>19. VerificationsWereMailed'
    <3>1. \A f \in Emails : row'[f] /= NoAccount =>
            /\ row'[f].verified /\ row'[f].phone /= Null =>
                 row[f] /= NoAccount /\ row[f].verified /\ row[f].phone /= Null
            /\ row'[f].session \in AccountCall =>
                 row[f] /= NoAccount /\ row'[f].session = row[f].session /\ (row[f].verified => row'[f].verified)
      <4> SUFFICES ASSUME NEW f \in Emails, row'[f] /= NoAccount
                   PROVE  /\ row'[f].verified /\ row'[f].phone /= Null =>
                               row[f] /= NoAccount /\ row[f].verified /\ row[f].phone /= Null
                          /\ row'[f].session \in AccountCall =>
                               row[f] /= NoAccount /\ row'[f].session = row[f].session /\ (row[f].verified => row'[f].verified)
        OBVIOUS
      <4>1. CASE f = e
        BY <2>4, <2>7, <4>1, SecretsAre
      <4>2. CASE f /= e
        BY <2>10, <4>2
      <4> QED BY <4>1, <4>2
    <3> QED BY <2>1, <2>14, <3>1, VerifiedKept
  <2>20. \A f \in Emails, k \in Kinds : row'[f] /= NoAccount =>
           (row[f] /= NoAccount /\ row'[f][k] = row[f][k]) \/ inbox[f][k] = <<>>
    BY <2>3, <2>10 DEF AccountsInv, InboxesFit
  <2>21. ~overlapped' => UsedCodesAreSpent' /\ UsedOnce' /\ LastStands'
    BY <2>1, <2>9, <2>11, <2>14, <2>15, <2>20, SpentKept, UsedOnceKept, LastKept
  <2>22. MailedCodesWorkOnce'
    BY <2>21, WorkOnce, PTL
  <2>23. CallFits(c)' /\ ReadsHold(c)'
    <3>1. Known(c)' /\ Row(c)' = r
      BY <1>1, <2>4, <2>5, <2>7 DEF Known, Row
    <3> QED BY <1>2, <2>2, <2>4, <2>5, <3>1 DEF CallFits, ReadsHold
  <2>24. TypeOK'
    <3>1. access' \subseteq Emails
      BY <2>1 DEF AccountsInv, TypeOK
    <3> QED BY <2>1, <2>2, <2>7, <3>1, TypesKept DEF AccountsInv, TypeOK
  <2>25. \A d \in AccountCall : CallFits(d)'
    BY <2>1, <2>2, <2>11, <2>23, FitsAll
  <2>26. InTurn'
    BY <2>2, <2>21, <2>23, ReadsAll DEF InTurn
  <2> QED BY <2>12, <2>13, <2>14, <2>16, <2>17, <2>18, <2>19, <2>22, <2>24, <2>25, <2>26 DEF AccountsInv
<1> QED BY <1>3, <1>4

(***************************************************************************)
(* The theorems.                                                           *)
(***************************************************************************)
LEMMA NextInv == AccountsInv /\ [Next]_vars => AccountsInv'
<1> SUFFICES ASSUME AccountsInv, [Next]_vars PROVE AccountsInv' OBVIOUS
<1>1. ASSUME NEW c \in AccountCall, CallStep(c) PROVE AccountsInv'
  <2>1. CASE Arrive(c)
    BY <2>1, Arrives
  <2>2. CASE \/ ReadEmail(c) \/ ReadPhone(c) \/ ReadToMail(c) \/ CheckPassword(c)
             \/ ValidateGoogleToken(c) \/ FindByEmail(c) \/ Admit(c)
    BY <2>2, Reads
  <2>3. CASE ReadName(c) \/ ReadPrefix(c) \/ ReadSuffix(c)
    BY <2>3, ReadsNames
  <2>4. CASE Create(c)
    BY <2>4, Creates
  <2>5. CASE StoreCode(c)
    BY <2>5, StoresCode
  <2>6. CASE SendMail(c)
    BY <2>6, SendsMail
  <2>7. CASE CheckCode(c)
    BY <2>7, ChecksCode
  <2>8. CASE Confirm(c)
    BY <2>8, Confirms
  <2>9. CASE StoreSession(c) \/ Logout(c)
    BY <2>9, Sessions
  <2>10. CASE Answer(c)
    BY <2>10, Answers
  <2>11. CASE Refresh(c)
    BY <2>11, Refreshes
  <2> QED BY <1>1, <2>1, <2>2, <2>3, <2>4, <2>5, <2>6, <2>7, <2>8, <2>9, <2>10, <2>11 DEF CallStep
<1>2. CASE (Fail \/ Crash) /\ UNCHANGED accountVars
  BY <1>2, Fails
<1>3. CASE (\E week \in BOOLEAN : TimePasses(week)) \/ (\E e \in Emails : OtherWrite(e)) \/ UNCHANGED vars
  BY <1>3, Outside
<1> QED BY <1>1, <1>2, <1>3 DEF Next

\* Calls, rows, in-boxes and histories fit together at every await.
THEOREM InductiveInvariant == Spec => []AccountsInv
<1>1. Init => AccountsInv
  BY InitInv
<1>2. AccountsInv /\ [Next]_vars => AccountsInv'
  BY NextInv
<1> QED BY <1>1, <1>2, PTL DEF Spec

\* The accounts, the in-boxes and the calls have their types.
THEOREM TypeCorrect == Spec => []TypeOK
<1>1. AccountsInv => TypeOK
  BY DEF AccountsInv
<1> QED BY <1>1, InductiveInvariant, PTL

\* However signups and sign-ins interleave, users share neither name nor number, and whoever was
\* told that the account was created has it (users.service.ts:22-69).
THEOREM AccountsStayDistinct == Spec => []AccountsAreDistinct
<1>1. AccountsInv => AccountsAreDistinct
  BY DEF AccountsInv, CallFits, AccountsAreDistinct
<1> QED BY <1>1, InductiveInvariant, PTL

\* An account that signed up is verified by its code alone, and only a verified one gets a session
\* (users.service.ts:130-161, :178-181).
THEOREM VerificationsAreEarned == Spec => []VerificationsWereMailed
<1>1. AccountsInv => VerificationsWereMailed
  BY DEF AccountsInv
<1> QED BY <1>1, InductiveInvariant, PTL

\* In turn a code works once, and the last one mailed works until it has (users.service.ts:130-161,
\* :255-333).
THEOREM CodesWorkOnce == Spec => []MailedCodesWorkOnce
<1>1. AccountsInv => MailedCodesWorkOnce
  BY DEF AccountsInv
<1> QED BY <1>1, InductiveInvariant, PTL

\* A session that left its row is never refreshed again (auth.service.ts:245-254).
THEOREM RetiredTokensAreRefused == Spec => RetiredTokensStayRetired
<1> DEFINE Refused == \A c \in AccountCall : at[c] = "read" /\ at'[c] = "done" /\ Op(c) = "refresh" =>
                        <<Email(c), request[c].secret>> \notin retired
<1>1. AccountsInv /\ [Next]_vars => [Refused]_vars
  <2> SUFFICES ASSUME AccountsInv, Next, NEW c \in AccountCall, at[c] = "read", at'[c] = "done", Op(c) = "refresh"
               PROVE  <<Email(c), request[c].secret>> \notin retired
    BY DEF Refused
  <2>1. ASSUME Refresh(c) PROVE <<Email(c), request[c].secret>> \notin retired
    <3>1. Row(c).session = request[c].secret
      BY <2>1, GotoStep DEF Refresh, Current, Moves, AccountPlaces, Ends
    <3> QED BY <3>1 DEF Row, AccountsInv, SessionsFit
  <2>2. Refresh(c)
    <3>1. c \in Calls /\ DOMAIN at = Calls
      BY AccountsAssumption DEF AccountsInv, TypeOK, ServerTypeOK
    <3>2. ~(Fail \/ Crash)
      <4> SUFFICES ASSUME NEW dead \in SUBSET InFlight, Lose(dead) PROVE FALSE
        BY DEF Fail, Crash
      <4>1. at'[c] \in {"lost", at[c]}
        BY LoseStep
      <4> QED BY <4>1
    <3>3. ~(\E week \in BOOLEAN : TimePasses(week)) /\ ~(\E e \in Emails : OtherWrite(e))
      BY DEF TimePasses, OtherWrite
    <3>4. PICK d \in AccountCall : CallStep(d)
      BY <3>2, <3>3 DEF Next
    <3>5. at[d] = "idle" \/ \E place : Goto(d, place)
      <4>1. CASE Arrive(d)
        BY <4>1 DEF Arrive, Enter
      <4>2. CASE \/ ReadEmail(d) \/ ReadPhone(d) \/ ReadToMail(d) \/ CheckPassword(d)
                 \/ ValidateGoogleToken(d) \/ FindByEmail(d) \/ Admit(d)
        BY <4>2 DEF Moves, ReadEmail, ReadPhone, ReadToMail, CheckPassword, ValidateGoogleToken, FindByEmail, Admit
      <4>3. CASE ReadName(d) \/ ReadPrefix(d) \/ ReadSuffix(d) \/ Answer(d) \/ SendMail(d)
        BY <4>3 DEF ReadName, ReadPrefix, ReadSuffix, Answer, SendMail
      <4>4. CASE Create(d) \/ StoreCode(d) \/ Confirm(d) \/ StoreSession(d) \/ Logout(d)
        BY <4>4 DEF Moves, Create, StoreCode, Confirm, StoreSession, Logout
      <4>5. CASE CheckCode(d) \/ Refresh(d)
        BY <4>5 DEF Moves, CheckCode, Refresh
      <4> QED BY <3>4, <4>1, <4>2, <4>3, <4>4, <4>5 DEF CallStep
    <3>6. d = c
      <4>1. ASSUME d /= c, NEW place, Goto(d, place) PROVE FALSE
        BY <3>1, <4>1 DEF Goto
      <4>2. ASSUME d /= c, Arrive(d) PROVE FALSE
        BY <3>1, <4>2 DEF Arrive, Enter
      <4>3. ASSUME d /= c, at[d] = "idle" PROVE FALSE
        <5>1. CallFits(d) /\ ~Arrive(d)
          BY <4>2, <4>3 DEF AccountsInv
        <5> QED BY <3>4, <4>3, <5>1
                DEF CallStep, ReadEmail, ReadPhone, ReadName, Create, ReadToMail, StoreCode, SendMail,
                    CheckCode, Confirm, CheckPassword, ValidateGoogleToken, FindByEmail, ReadPrefix,
                    ReadSuffix, StoreSession, Answer, Refresh, Admit, Logout
      <4> QED BY <3>5, <4>1, <4>3
    <3>7. ~Arrive(c) /\ at[c] = "read" /\ Op(c) = "refresh"
      BY DEF Arrive, Enter
    <3> QED BY <3>4, <3>6, <3>7
            DEF CallStep, ReadEmail, ReadPhone, ReadName, Create, ReadToMail, StoreCode, SendMail,
                CheckCode, Confirm, CheckPassword, ValidateGoogleToken, FindByEmail, ReadPrefix, ReadSuffix,
                StoreSession, Answer, Admit, Logout
  <2> QED BY <2>1, <2>2
<1> QED BY <1>1, InductiveInvariant, PTL DEF Spec, RetiredTokensStayRetired
=============================================================================
