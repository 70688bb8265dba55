------------------------------- MODULE Guests -------------------------------
(***************************************************************************)
(* Customers, wallets and events together: a user earns a tier by checks   *)
(* (Kyc), opens a wallet (Openings) and takes a part in events (Events)    *)
(* that need one.  The three services share the Customer rows and the      *)
(* process that serves their calls.                                        *)
(***************************************************************************)
EXTENDS Kyc, Openings, Events

ASSUME GuestAssumption == 
  /\ KycCall \cup OpeningCall \cup EventCall = Calls
  /\ KycCall \cap EventCall = {} /\ OpeningCall \cap (KycCall \cup EventCall) = {}

vars == <<customerVars, callVars, at, kycVars, openingVars, eventVars>>

TypeOK == CustomersTypeOK /\ KycTypeOK /\ OpeningsTypeOK /\ EventsTypeOK

Init == CallsInit /\ KycInit /\ OpeningsInit /\ EventsInit

Next ==
  \/ (\E c \in KycCall : KycStep(c)) /\ UNCHANGED <<openingVars, eventVars>>
  \/ OpeningStep /\ UNCHANGED <<kycVars, eventVars>>
  \/ EventStep /\ UNCHANGED <<kycVars, openingVars>>
  \/ (Fail \/ Crash) /\ UNCHANGED <<customerVars, kycVars, openingVars, eventVars>>

Spec == Init /\ [][Next]_vars
=============================================================================
