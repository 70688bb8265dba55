------------------------------- MODULE Server -------------------------------
(***************************************************************************)
(* The process that serves the calls.  A call is an HTTP request or a      *)
(* socket message; it runs once, and stands at one of its awaits while     *)
(* others run.  The components whose handlers hold no row locks extend     *)
(* this module, so that they can be put together over the same process.    *)
(***************************************************************************)
EXTENDS Integers, FiniteSets

CONSTANTS
  Calls,         \* every call that may be made
  NoRequest,     \* a call that has not been made asks for nothing
  MaxCalls,      \* bound: calls in all
  MaxInFlight,   \* bound: calls the process serves at the same time
  MaxFaults      \* bound: statements that fail, and process crashes

ASSUME CallBounds ==
  /\ IsFiniteSet(Calls)
  /\ MaxCalls \in Nat /\ MaxInFlight \in Nat /\ MaxFaults \in Nat

VARIABLES
  request,     \* request[c] : what call c asks for
  at,          \* at[c] : the await at which call c stands
  overlapped,  \* history: have two calls been in flight together?
  faults

callVars == <<request, overlapped, faults>>

Ends == {"done", "failed", "lost"}
InFlight == {c \in Calls : at[c] \notin {"idle"} \cup Ends}

ServerTypeOK ==
  /\ DOMAIN request = Calls /\ DOMAIN at = Calls
  /\ overlapped \in BOOLEAN
  /\ faults \in 0..MaxFaults

CallsInit ==
  /\ request = [c \in Calls |-> NoRequest]
  /\ at = [c \in Calls |-> "idle"]
  /\ overlapped = FALSE
  /\ faults = 0

Goto(c, place) == at' = [at EXCEPT ![c] = place] /\ UNCHANGED callVars

Enter(c, requests, first) ==
  /\ at[c] = "idle"
  /\ Cardinality({d \in Calls : at[d] /= "idle"}) < MaxCalls
  /\ Cardinality(InFlight) < MaxInFlight
  /\ \E r \in requests : request' = [request EXCEPT ![c] = r]
  /\ at' = [at EXCEPT ![c] = first]
  /\ overlapped' = (overlapped \/ InFlight /= {})
  /\ UNCHANGED faults

Lose(dead) ==
  /\ faults < MaxFaults
  /\ faults' = faults + 1
  /\ at' = [c \in Calls |-> IF c \in dead THEN "lost" ELSE at[c]]
  /\ UNCHANGED <<request, overlapped>>

\* A statement fails and its handler throws.
Fail == \E c \in InFlight : Lose({c})

\* The process dies with all calls.
Crash == InFlight /= {} /\ Lose(InFlight)
=============================================================================
