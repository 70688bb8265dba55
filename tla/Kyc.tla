-------------------------------- MODULE Kyc --------------------------------
(***************************************************************************)
(* CustomerKycService: a user becomes a customer, and the customer rises   *)
(* through the tiers by checks of a NIN, a BVN and an address.  A check    *)
(* asks the provider, stores a row, looks whether the other row is there   *)
(* and writes the tier, each in a statement of its own.  Two handlers are  *)
(* made of others: createCustomerWithBvn and upgradeWithNinAndAddress.     *)
(*                                                                         *)
(* One action per stretch of code between two awaits.  Customers are never *)
(* deleted, so reads that only find the row again are left out.            *)
(***************************************************************************)
EXTENDS Customers

CONSTANTS
  KycCall,       \* the calls of this service
  AskedTiers,    \* the tiers a client may ask createCustomer to start with
  Profiles       \* the customers there may be when the observation starts

VARIABLES
  row,         \* row[u][k] : the verification row of kind k, or "none"
  vouched,     \* history: the checks the provider has found verified
  given,       \* history: the tier the customer was created with, or NoCustomer
  registered,  \* the calls for which the provider has made a customer
  local        \* local[c] : the kind of check call c is at, its verdict, the tier
               \* it will write and whether there was an address row before;
               \* history: were both rows there when it came

kycVars == <<row, vouched, given, registered, local>>

Kinds == {"nin", "bvn", "address"}

\* The tier of a profile is the one it was given or has been come by through its checks.
Earned(p) ==
  /\ p.tier >= 1 => p.given >= 1 \/ {"nin", "bvn"} \cap p.checks /= {}
  /\ p.tier >= 2 => p.given >= 2 \/ {"nin", "bvn"} \subseteq p.checks
  /\ {"nin", "bvn"} \subseteq p.checks => p.tier >= 2
  /\ p.tier = 3 => p.given = 3 \/ "address" \in p.checks
  /\ p.tier = NoCustomer => p.given = NoCustomer /\ p.checks = {}

ASSUME KycAssumption ==
  /\ KycCall \subseteq Calls /\ AskedTiers \subseteq Tiers
  /\ \A p \in Profiles : /\ {p.tier, p.given} \subseteq Tiers \cup {NoCustomer}
                         /\ p.checks \subseteq Kinds /\ Earned(p)

Operations == {"createCustomer", "createCustomerWithBvn", "upgradeWithNin", "upgradeWithBvn",
               "verifyAddress", "upgradeWithNinAndAddress"}
\* Only the body of createCustomer can name a tier.
KycRequests ==
  [op : {"createCustomer"}, user : Users, tier : AskedTiers]
    \cup [op : Operations \ {"createCustomer"}, user : Users, tier : {0}]
KycPlaces == {"find", "readCustomer", "register", "insertCustomer", "reread", "ask", "store",
              "readOther", "writeTier", "refresh", "checkTier", "enquire"}
States == {"none", "verified", "unverified"}
Fresh == [kind |-> "nin", verdict |-> "none", tier |-> 0, addressed |-> FALSE, hadBoth |-> FALSE]
Locals == [kind : Kinds, verdict : States, tier : Tiers, addressed : BOOLEAN, hadBoth : BOOLEAN]

KycTypeOK ==
  /\ \A c \in KycCall : request[c] \in IF at[c] = "idle" THEN {NoRequest} ELSE KycRequests
  /\ \A c \in KycCall : at[c] \in {"idle"} \cup KycPlaces \cup Ends
  /\ row \in [Users -> [Kinds -> States]]
  /\ vouched \subseteq Users \X Kinds
  /\ given \in [Users -> Tiers \cup {NoCustomer}]
  /\ registered \subseteq KycCall
  /\ local \in [KycCall -> Locals]

\* The customers there are were given their tier, or came by it through verified checks.
KycInit ==
  /\ \E profile \in [Users -> Profiles] :
       /\ tier = [u \in Users |-> profile[u].tier]
       /\ given = [u \in Users |-> profile[u].given]
       /\ row = [u \in Users |-> [k \in Kinds |-> IF k \in profile[u].checks THEN "verified" ELSE "none"]]
       /\ vouched = {p \in Users \X Kinds : p[2] \in profile[p[1]].checks}
  /\ reached = tier
  /\ registered = {}
  /\ local = [c \in KycCall |-> Fresh]

User(c) == request[c].user
Op(c) == request[c].op
Has(u, k) == row[u][k] /= "none"
HasBoth(u) == Has(u, "nin") /\ Has(u, "bvn")
Known(u) == tier[u] /= NoCustomer

\* A handler that ends drops its locals.
Finish(c, place) ==
  /\ Goto(c, place)
  /\ local' = [local EXCEPT ![c] = Fresh]

Throw(c) == Finish(c, "failed") /\ UNCHANGED <<customerVars, row, vouched, given, registered>>

\* A read that only moves the handler on.
Proceed(c, place) ==
  /\ Goto(c, place)
  /\ UNCHANGED <<customerVars, row, vouched, given, registered, local>>

Turn(c, kind) ==
  /\ Goto(c, "ask")
  /\ local' = [local EXCEPT ![c].kind = kind]
  /\ UNCHANGED <<customerVars, row, vouched, given, registered>>

\* createCustomerWithBvn does not repeat a check that is there.
TurnToBvn(c) == IF Has(User(c), "bvn") THEN Throw(c) ELSE Turn(c, "bvn")

KycArrive(c) ==
  /\ Enter(c, KycRequests, "find")
  /\ local' = [local EXCEPT ![c].hadBoth = HasBoth(request'[c].user)]
  /\ UNCHANGED <<customerVars, row, vouched, given, registered>>

(***************************************************************************)
(* The first read of each handler.                                         *)
(***************************************************************************)
FindForCreation(c) ==
  /\ at[c] = "find"
  /\ \/ Op(c) = "createCustomer" /\ Proceed(c, "readCustomer")
     \/ /\ Op(c) = "createCustomerWithBvn"
        /\ \/ ~Known(User(c)) /\ Proceed(c, "readCustomer")
           \/ Known(User(c)) /\ TurnToBvn(c)

FindForCheck(c) ==
  /\ at[c] = "find"
  /\ Op(c) \in {"upgradeWithNin", "upgradeWithBvn", "verifyAddress"}
  /\ \/ ~Known(User(c)) /\ Throw(c)
     \/ Known(User(c)) /\ Op(c) = "upgradeWithNin" /\ Turn(c, "nin")
     \/ Known(User(c)) /\ Op(c) = "upgradeWithBvn" /\ Turn(c, "bvn")
     \/ Known(User(c)) /\ Op(c) = "verifyAddress" /\ Proceed(c, "checkTier")

\* A NIN that is there is not checked again; a new one needs a BVN before it.
FindForBoth(c) ==
  /\ at[c] = "find" /\ Op(c) = "upgradeWithNinAndAddress"
  /\ IF ~Known(User(c)) \/ (~Has(User(c), "nin") /\ tier[User(c)] = 0)
     THEN Throw(c)
     ELSE /\ Goto(c, IF Has(User(c), "nin") THEN "refresh" ELSE "ask")
          /\ local' = [local EXCEPT ![c].addressed = Has(User(c), "address")]
          /\ UNCHANGED <<customerVars, row, vouched, given, registered>>

(***************************************************************************)
(* createCustomer                                                          *)
(***************************************************************************)
ReadCustomer(c) ==
  /\ at[c] = "readCustomer"
  /\ \/ Known(User(c)) /\ Throw(c)
     \/ ~Known(User(c)) /\ Proceed(c, "register")

\* Registered, registered with the answer lost, or refused.
Register(c) ==
  /\ at[c] = "register"
  /\ \/ /\ registered' = registered \cup {c}
        /\ Goto(c, "insertCustomer") \/ Goto(c, "failed")
        /\ UNCHANGED <<customerVars, row, vouched, given, local>>
     \/ Throw(c)

AfterInsert(c) == IF Op(c) = "createCustomer" THEN "done" ELSE "reread"

\* Customer.userId is unique: of two calls that have registered one is refused here.
InsertCustomer(c) ==
  /\ at[c] = "insertCustomer"
  /\ \/ Known(User(c)) /\ Throw(c)
     \/ /\ ~Known(User(c))
        /\ SetTier(User(c), request[c].tier)
        /\ given' = [given EXCEPT ![User(c)] = request[c].tier]
        /\ Goto(c, AfterInsert(c))
        /\ UNCHANGED <<row, vouched, registered, local>>

Reread(c) ==
  /\ at[c] = "reread"
  /\ TurnToBvn(c)

(***************************************************************************)
(* upgradeWithNin, upgradeWithBvn, verifyAddress                           *)
(***************************************************************************)

\* What is left to do when a check is over.
After(c) ==
  IF Op(c) /= "upgradeWithNinAndAddress" THEN "done"
  ELSE IF local[c].kind = "nin" THEN "refresh" ELSE "enquire"

Leave(c) == IF After(c) = "done" THEN Finish(c, "done") ELSE Goto(c, After(c)) /\ UNCHANGED local

CheckTier(c) ==
  /\ at[c] = "checkTier"
  /\ \/ tier[User(c)] /= 2 /\ Throw(c)
     \/ tier[User(c)] = 2 /\ Turn(c, "address")

\* The provider verifies or does not, and its answer may be lost.
Ask(c) ==
  /\ at[c] = "ask"
  /\ \/ \E v \in {"verified", "unverified"} :
          /\ vouched' = IF v = "verified" THEN vouched \cup {<<User(c), local[c].kind>>} ELSE vouched
          /\ \/ Goto(c, "store") /\ local' = [local EXCEPT ![c].verdict = v]
             \/ Finish(c, "failed")
          /\ UNCHANGED <<customerVars, row, given, registered>>
     \/ Throw(c)

StoreRow(c) == row' = [row EXCEPT ![User(c)][local[c].kind] = local[c].verdict]

\* Slip: the tier rises whatever the verdict.
StoreUnjudged(c) ==
  /\ at[c] = "store"
  /\ StoreRow(c)
  /\ IF local[c].kind = "address"
     THEN Goto(c, "writeTier") /\ local' = [local EXCEPT ![c].tier = 3]
     ELSE Goto(c, "readOther") /\ UNCHANGED local
  /\ UNCHANGED <<customerVars, vouched, given, registered>>

\* The upsert of the row; only a verified check goes on to the tier.
Store(c) ==
  /\ at[c] = "store"
  /\ StoreRow(c)
  /\ \/ local[c].verdict /= "verified" /\ Leave(c)
     \/ /\ local[c].verdict = "verified" /\ local[c].kind = "address"
        /\ Goto(c, "writeTier")
        /\ local' = [local EXCEPT ![c].tier = 3]
     \/ /\ local[c].verdict = "verified" /\ local[c].kind /= "address"
        /\ Goto(c, "readOther") /\ UNCHANGED local
  /\ UNCHANGED <<customerVars, vouched, given, registered>>

Other(kind) == IF kind = "nin" THEN "bvn" ELSE "nin"

\* Slip: the other row counts only while its last verdict is a good one.
TierIfVerified(c) == IF row[User(c)][Other(local[c].kind)] = "verified" THEN 2 ELSE 1

\* The second check makes it Tier_2, whatever the first one's verdict was.
NewTier(c) == IF Has(User(c), Other(local[c].kind)) THEN 2 ELSE 1

ReadOther(c) ==
  /\ at[c] = "readOther"
  /\ Goto(c, "writeTier")
  /\ local' = [local EXCEPT ![c].tier = NewTier(c)]
  /\ UNCHANGED <<customerVars, row, vouched, given, registered>>

WriteTier(c) ==
  /\ at[c] = "writeTier"
  /\ SetTier(User(c), local[c].tier)
  /\ Leave(c)
  /\ UNCHANGED <<row, vouched, given, registered>>

(***************************************************************************)
(* The rest of upgradeWithNinAndAddress                                    *)
(***************************************************************************)
Refresh(c) ==
  /\ at[c] = "refresh"
  /\ \/ local[c].addressed /\ Proceed(c, "enquire")
     \/ ~local[c].addressed /\ tier[User(c)] /= 2 /\ Throw(c)
     \/ ~local[c].addressed /\ tier[User(c)] = 2 /\ Proceed(c, "checkTier")

\* A name enquiry that fails fails the call, and takes nothing back.
Enquire(c) ==
  /\ at[c] = "enquire"
  /\ Finish(c, "done") \/ Finish(c, "failed")
  /\ UNCHANGED <<customerVars, row, vouched, given, registered>>

KycStep(c) ==
  \/ KycArrive(c)
  \/ FindForCreation(c) \/ FindForCheck(c) \/ FindForBoth(c)
  \/ ReadCustomer(c) \/ Register(c) \/ InsertCustomer(c) \/ Reread(c)
  \/ CheckTier(c) \/ Ask(c) \/ Store(c) \/ ReadOther(c) \/ WriteTier(c)
  \/ Refresh(c) \/ Enquire(c)

(***************************************************************************)
(*                              PROPERTIES                                 *)
(***************************************************************************)

\* A tier other than the one a customer was created with has been earned, however the
\* checks overlap: Tier_1 has a NIN or a BVN behind it that the provider found verified,
\* Tier_2 both rows, and Tier_3 a verified address.  The other way round only while
\* calls have come one at a time and none has died: then a customer with both checks
\* verified is in Tier_2 at least.  (createCustomer gives the tier the body asks for,
\* customer-kyc.service.ts:99.)
TiersFollowTheChecks ==
  \A u \in Users :
    /\ tier[u] >= 1 => given[u] >= 1 \/ <<u, "nin">> \in vouched \/ <<u, "bvn">> \in vouched
    /\ tier[u] >= 2 => given[u] >= 2 \/ HasBoth(u)
    /\ tier[u] = 3 => given[u] = 3 \/ <<u, "address">> \in vouched
    /\ (~overlapped /\ InFlight = {} /\ faults = 0 /\ Known(u)
          /\ row[u]["nin"] = "verified" /\ row[u]["bvn"] = "verified") => tier[u] >= 2

\* The tier is written without looking at the one that is there (:467-477, :586-594).
\* It falls below Tier_2 only by the hand of a check that came before the customer had
\* both rows: such a check may have missed the row of another one that overlapped it,
\* or belong to a customer who was created at Tier_2.  Once both rows are there and
\* the checks that came before are over, no check takes Tier_2 away, whatever it finds
\* and however checks, faults and lost answers follow each other.
OnlyEarlierChecksTakeTierTwo ==
  [][\A u \in Users : tier[u] >= 2 /\ tier'[u] < 2 =>
       \E c \in KycCall : /\ at[c] = "writeTier" /\ at'[c] /= at[c]
                         /\ User(c) = u /\ ~local[c].hadBoth]_<<tier, at>>
=============================================================================
