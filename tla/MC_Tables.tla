------------------------------ MODULE MC_Tables ------------------------------
(***************************************************************************)
(* Constants for model checking, in one run, the two components whose      *)
(* calls write shared tables statement by statement: the passports with    *)
(* the attestation service, and the DID manager.  They share no table: a   *)
(* behaviour is one of one of them and leaves the other where it starts    *)
(* (for the DID manager, with a symmetric value in every variable).        *)
(***************************************************************************)
EXTENDS Passports, DIDManager

\* Of the DIDs two have the names of passports, and the calls of both parts have the same
\* names: every permutation in Symmetry leaves the constants of both parts as they are.
ASSUME MCTablesAssumption == Calls = Requests /\ Owners = Users /\ Passports \subseteq DIDs

CONSTANT Parts    \* those that a run checks

VARIABLE part

mcVars == <<vars, didVars, part>>

MCInit ==
    /\ Init
    /\ part \in Parts
    /\ \/ part = "dids" /\ DIDInit
       \/ /\ part = "passports"
          /\ userDids = [d \in DIDs |-> NoRow]
          /\ rowLock = NoRequest /\ req = NoRequest /\ didRestarts = NoRequest

MCNext ==
    \/ part = "passports" /\ Next /\ UNCHANGED <<didVars, part>>
    \/ part = "dids" /\ DIDNext /\ UNCHANGED <<vars, part>>

MCSpec == MCInit /\ [][MCNext]_mcVars

\* No call of the DID manager is under way in the other part.
MCFairSpec == MCSpec /\ \A r \in Requests : SF_didVars(Step(r))
=============================================================================
