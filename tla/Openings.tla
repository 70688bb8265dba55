------------------------------ MODULE Openings ------------------------------
(***************************************************************************)
(* WalletModuleService as far as it makes wallets: createWalletByUserId,   *)
(* which inserts a temporary row, asks the provider, and then completes    *)
(* the row or deletes it, and getWalletByAccountNumber, which takes over   *)
(* the provider's balances.  One action per stretch of code between two    *)
(* awaits; there is no database transaction around the three statements.   *)
(* A wallet, and its account number, is named by the call that made it.    *)
(***************************************************************************)
EXTENDS Customers

CONSTANTS
  OpenWallet,    \* calls of createWalletByUserId
  LookUp,        \* calls of getWalletByAccountNumber
  NoWallet

OpeningCall == OpenWallet \cup LookUp

VARIABLES
  wallet,      \* wallet[c] : the Wallet row inserted by c, or NoWallet
  held         \* the wallets the provider has made

openingVars == <<wallet, held>>

\* linked : has a providerWalletId; numbered : has an account number.
WalletRow == [owner : Users, linked : BOOLEAN, numbered : BOOLEAN,
              balance : {"zero", "opening", "provider's"}]

ASSUME OpeningsAssumption ==
  /\ OpeningCall \subseteq Calls /\ OpenWallet \cap LookUp = {}
  /\ NoWallet \notin WalletRow

OpeningRequests(c) == IF c \in OpenWallet THEN [opens : Users] ELSE [number : OpenWallet]
OpeningPlaces ==
  {"findCustomer", "insertWallet", "askForWallet", "deleteWallet", "linkWallet", "linkUnnumbered",
   "findWallet", "askForBalance", "findLinked", "updateBalance"}

OpeningsTypeOK ==
  /\ \A c \in OpeningCall : request[c] \in IF at[c] = "idle" THEN {NoRequest} ELSE OpeningRequests(c)
  /\ \A c \in OpeningCall : at[c] \in {"idle"} \cup OpeningPlaces \cup Ends
  /\ wallet \in [OpenWallet -> WalletRow \cup {NoWallet}]
  /\ held \subseteq OpenWallet

OpeningsInit == wallet = [c \in OpenWallet |-> NoWallet] /\ held = {}

OpeningArrive(c) ==
  /\ Enter(c, OpeningRequests(c), IF c \in OpenWallet THEN "findCustomer" ELSE "findWallet")
  /\ UNCHANGED <<customerVars, openingVars>>

Passes(c, place) == Goto(c, place) /\ UNCHANGED <<customerVars, openingVars>>

(***************************************************************************)
(* createWalletByUserId                                                    *)
(***************************************************************************)
\* Slip: any customer may have a wallet.
MayOpenAnyTier(u) == tier[u] /= NoCustomer

MayOpen(u) == tier[u] /= NoCustomer /\ tier[u] >= 1

FindCustomer(c) ==
  /\ at[c] = "findCustomer"
  /\ Passes(c, IF MayOpen(request[c].opens) THEN "insertWallet" ELSE "failed")

InsertWallet(c) ==
  /\ at[c] = "insertWallet"
  /\ wallet' = [wallet EXCEPT ![c] =
       [owner |-> request[c].opens, linked |-> FALSE, numbered |-> FALSE, balance |-> "zero"]]
  /\ Goto(c, "askForWallet")
  /\ UNCHANGED <<customerVars, held>>

\* The provider makes the wallet, at once with an account number or not, or
\* refuses; or makes it, and the answer does not come.
AskForWallet(c) ==
  /\ at[c] = "askForWallet"
  /\ \/ /\ held' = held \cup {c}
        /\ \E place \in {"linkWallet", "linkUnnumbered", "deleteWallet"} : Goto(c, place)
     \/ UNCHANGED held /\ Goto(c, "deleteWallet")
  /\ UNCHANGED <<customerVars, wallet>>

\* Slip: the row is left when the provider has refused.
KeepWallet(c) == UNCHANGED wallet

RemoveWallet(c) == wallet' = [wallet EXCEPT ![c] = NoWallet]

DeleteWallet(c) ==
  /\ at[c] = "deleteWallet"
  /\ RemoveWallet(c)
  /\ Goto(c, "failed")
  /\ UNCHANGED <<customerVars, held>>

LinkWallet(c) ==
  /\ at[c] \in {"linkWallet", "linkUnnumbered"}
  /\ wallet' = [wallet EXCEPT ![c].linked = TRUE,
                                ![c].numbered = (at[c] = "linkWallet"),
                                ![c].balance = "opening"]
  /\ Goto(c, "done")
  /\ UNCHANGED <<customerVars, held>>

(***************************************************************************)
(* getWalletByAccountNumber                                                *)
(***************************************************************************)
FindWallet(c) ==
  /\ at[c] = "findWallet"
  /\ LET row == wallet[request[c].number] IN
     Passes(c, IF row /= NoWallet /\ row.numbered THEN "done" ELSE "askForBalance")

AskForBalance(c) ==
  /\ at[c] = "askForBalance"
  /\ \/ request[c].number \in held /\ Passes(c, "findLinked")
     \/ Passes(c, "failed")

\* Without a row of that wallet the provider's answer is handed on.
FindLinked(c) ==
  /\ at[c] = "findLinked"
  /\ LET row == wallet[request[c].number] IN
     Passes(c, IF row /= NoWallet /\ row.linked THEN "updateBalance" ELSE "done")

UpdateBalance(c) ==
  /\ at[c] = "updateBalance"
  /\ wallet' = [wallet EXCEPT ![request[c].number].balance = "provider's"]
  /\ Goto(c, "done")
  /\ UNCHANGED <<customerVars, held>>

OpeningStep ==
  \/ \E c \in OpenWallet : OpeningArrive(c) \/ FindCustomer(c) \/ InsertWallet(c) \/ AskForWallet(c)
                           \/ DeleteWallet(c) \/ LinkWallet(c)
  \/ \E c \in LookUp : OpeningArrive(c) \/ FindWallet(c) \/ AskForBalance(c)
                       \/ FindLinked(c) \/ UpdateBalance(c)

(***************************************************************************)
(* Properties                                                              *)
(***************************************************************************)
\* A wallet's owner has been a customer of Tier_1 or higher; a wallet with an
\* account or a balance is the provider's too; and one without is that of a call
\* which is still to link or delete it, or has died before, whatever the provider
\* answers, lookups of the number included (walletmodule.service.ts:63-126).
WalletsAreTheProviders ==
  /\ \A c \in OpenWallet : wallet[c] /= NoWallet =>
       /\ reached[wallet[c].owner] >= 1
       /\ IF wallet[c].linked THEN c \in held
          ELSE wallet[c].balance = "zero" /\ ~wallet[c].numbered /\ at[c] \notin {"done", "failed"}
  /\ \A c \in OpenWallet : at[c] = "done" => wallet[c] /= NoWallet /\ wallet[c].linked
=============================================================================
