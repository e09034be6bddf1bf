----------------------------- MODULE MCAccounts -----------------------------
(* Commands on accounts and the principals they are authorised by, how an        *)
(* account is entered, and the requests a session is used for, checked side by   *)
(* side: SignIn and FirstParty have the account changes they depend on as        *)
(* actions of their own, with the accounts' data reduced to what they read.      *)
EXTENDS AdminAccounts, SignIn, FirstParty, TLC

VARIABLE part

PrincipalCommands == {"softDelete", "hardDelete", "batchDisable", "batchHardDelete", "restore", "revoke"}

(* A behaviour of the one leaves the others in an initial state.                 *)
SignInAtRest ==
  /\ person = [u \in People |-> NewPerson] /\ bound = [x \in ExternalAccounts |-> Unbound] /\ rows = 1
  /\ passkey = [k \in Passkeys |-> Nobody]
  /\ tickets = {} /\ issued = 0 /\ handoffs = {} /\ sessions = {}
  /\ flow = [f \in Flows |-> Idle] /\ elsewhere = 0
AccountsAtRest ==
  /\ users = [u \in Users |-> NewAccount("admin")]
  /\ cache = [u \in Users |-> NoPrincipal] /\ fill = [u \in Users |-> NoPrincipal]
  /\ pc = [r \in Requests |-> "idle"] /\ job = [r \in Requests |-> NoJob]
FirstPartyAtRest ==
  /\ holder = [u \in Holders |-> AccountInfo("admin", "active", 1)] /\ principal = [u \in Holders |-> NotCached]
  /\ click = [r \in Clicks |-> NoClick] /\ rewrites = 0

MCInit ==
  \/ part = "commands" /\ Init /\ SignInAtRest /\ FirstPartyAtRest
  \/ part = "signin" /\ SignInInit /\ AccountsAtRest /\ FirstPartyAtRest
  \/ part = "requests" /\ FirstPartyInit /\ AccountsAtRest /\ SignInAtRest
MCNext ==
  \/ part = "commands" /\ Next /\ UNCHANGED <<part, signInVars, firstPartyVars>>
  \/ part = "signin" /\ SignInNext /\ UNCHANGED <<part, vars, firstPartyVars>>
  \/ part = "requests" /\ FirstPartyNext /\ UNCHANGED <<part, vars, signInVars>>
MCSpec == MCInit /\ [][MCNext]_<<part, vars, signInVars, firstPartyVars>>

(* The requests of all parts are the same values, the accounts of SignIn and of  *)
(* FirstParty are; those of AdminAccounts differ by who visits.                  *)
AccountsSymmetry == Permutations(Requests) \cup Permutations(People) \cup Permutations(Passwords)
=============================================================================
