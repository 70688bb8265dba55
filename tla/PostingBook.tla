---------------------------- MODULE PostingBook ----------------------------
(***************************************************************************)
(* What idempotent money endpoints promise their clients, whatever goes    *)
(* on inside: a book with at most one posting per key.  A caller who is    *)
(* answered is answered with the posting made under its own key, by its    *)
(* own call or by an earlier one; a caller who gets an error, or nothing   *)
(* at all, may or may not have caused the posting.                         *)
(***************************************************************************)
EXTENDS Naturals

CONSTANTS
  Caller,
  Ref,        \* the references clients may give
  NoRef       \* what a call that has not been made asks for

VARIABLES
  asked,      \* asked[c] : the reference in the call of c
  posted,     \* the postings: [key, by]
  answer      \* answer[c] : nothing yet, an error, or the posting returned

book == <<asked, posted, answer>>

Pending == <<"pending">>
Error == <<"error">>
Returned(p) == <<"returned", p>>

Init ==
  /\ asked \in [Caller -> Ref \cup {NoRef}]
  /\ posted = {}
  /\ answer = [c \in Caller |-> Pending]

\* A call is made.
Ask(c) ==
  /\ asked[c] = NoRef
  /\ \E r \in Ref : asked' = [asked EXCEPT ![c] = r]
  /\ UNCHANGED <<posted, answer>>

Unposted(k) == \A p \in posted : p.key /= k

\* The first call to get that far under its key makes the posting.
Post(c) ==
  /\ answer[c] = Pending
  /\ asked[c] \in Ref
  /\ Unposted(asked[c])
  /\ posted' = posted \cup {[key |-> asked[c], by |-> c]}
  /\ UNCHANGED <<asked, answer>>

\* A successful answer returns the posting of the key.
Return(c) ==
  /\ answer[c] = Pending
  /\ \E p \in posted :
       /\ p.key = asked[c]
       /\ answer' = [answer EXCEPT ![c] = Returned(p)]
  /\ UNCHANGED <<asked, posted>>

\* Calls fail one by one, or together when the server dies.
Fail(S) ==
  /\ \A c \in S : answer[c] = Pending
  /\ answer' = [c \in Caller |-> IF c \in S THEN Error ELSE answer[c]]
  /\ UNCHANGED <<asked, posted>>

Next ==
  \/ \E c \in Caller : Ask(c) \/ Post(c) \/ Return(c)
  \/ \E S \in SUBSET Caller : Fail(S)

Spec == Init /\ [][Next]_book
=============================================================================
