------------------------------ MODULE RateLimit ------------------------------
(***************************************************************************)
(* SprayRateLimitGuard: in the memory of the server, the times at which    *)
(* each user's sprays were let through.  The guard does not await, so a    *)
(* request passes it in one action; a timer set by each request that was   *)
(* let through filters the entry later, with that request's idea of now.   *)
(* The entry is a list of times in the code; no order of it matters, so it *)
(* is a set here, in which a time bears the request that left it.          *)
(***************************************************************************)
EXTENDS Server

CONSTANTS
  Sprayers,
  SprayCall,     \* requests that reach the guard
  MaxRequests,   \* maxRequests
  Window,        \* windowMs
  MaxClock       \* bound: the time at which the observation ends

ASSUME RateLimitAssumption ==
  /\ SprayCall \subseteq Calls
  /\ MaxRequests \in Nat \ {0} /\ Window \in Nat \ {0} /\ MaxClock \in Nat

VARIABLES
  clock,       \* the time at which the guard or a timer has run last
  requests,    \* requests[u] : the entry of user u in requestStore; none is an empty one
  timers,      \* the cleanups to come, as <<user, time of the request>>
  passed       \* history: the sprays of the user this process has let through

rateVars == <<clock, requests, timers, passed>>

LetThrough == [by : SprayCall, time : 0..MaxClock]

RateTypeOK ==
  /\ \A c \in SprayCall : request[c] \in IF at[c] = "idle" THEN {NoRequest} ELSE [user : Sprayers]
  /\ \A c \in SprayCall : at[c] \in {"idle"} \cup Ends
  /\ clock \in 0..MaxClock
  /\ requests \in [Sprayers -> SUBSET LetThrough]
  /\ \A u \in Sprayers : Cardinality(requests[u]) <= MaxRequests
  /\ timers \subseteq Sprayers \X (0..MaxClock)
  /\ passed \in [Sprayers -> SUBSET LetThrough]

Nothing == [u \in Sprayers |-> {}]

RateInit ==
  /\ clock = 0
  /\ requests = Nothing
  /\ timers = {}
  /\ passed = Nothing

\* Slip: only the entries of this instant count.
RecentFromNow(entry, now) == {r \in entry : r.time = now}

\* The entries less than a window old.
Recent(entry, now) == {r \in entry : r.time > now - Window}

\* JwtAuthGuard stands before this guard (sprays.controller.ts:27), so the request
\* has a user and the way past for one without is not taken.
CanActivate(c) ==
  /\ clock' \in clock..MaxClock
  /\ \E u \in Sprayers :
       LET recent == Recent(requests[u], clock') IN
       IF Cardinality(recent) >= MaxRequests
       THEN Enter(c, {[user |-> u]}, "failed") /\ UNCHANGED <<requests, timers, passed>>
       ELSE /\ Enter(c, {[user |-> u]}, "done")
            /\ requests' = [requests EXCEPT ![u] = recent \cup {[by |-> c, time |-> clock']}]
            /\ timers' = timers \cup {<<u, clock'>>}
            /\ passed' = [passed EXCEPT ![u] = @ \cup {[by |-> c, time |-> clock']}]

\* The timer of a request at time t: at the earliest two windows later, with
\* the time of the request for now.
Cleanup ==
  /\ clock' \in clock..MaxClock
  /\ \E timer \in timers :
       /\ clock' >= timer[2] + 2 * Window
       /\ timers' = timers \ {timer}
       /\ requests' = [requests EXCEPT ![timer[1]] = Recent(@, timer[2])]
  /\ UNCHANGED <<callVars, at, passed>>

RateStep == (\E c \in SprayCall : CanActivate(c)) \/ Cleanup

\* The store and the timers go with the process.
RateCrash ==
  /\ requests' = Nothing /\ timers' = {} /\ passed' = Nothing
  /\ UNCHANGED clock

\* "Maximum 5 sprays per second allowed": a process lets no more than
\* MaxRequests sprays of one user through in any window, wherever in time the
\* window begins and whenever the cleanups run (spray-rate-limit.guard.ts:11-43).
WindowIsKept ==
  \A u \in Sprayers, t \in 0..MaxClock :
    Cardinality({r \in passed[u] : t <= r.time /\ r.time < t + Window}) <= MaxRequests
=============================================================================
