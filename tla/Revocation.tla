----------------------------- MODULE Revocation -----------------------------
(***************************************************************************)
(* What the status list of packages/vc-toolkit promises: a set of revoked  *)
(* credentials, and a published copy of it that those who check see.       *)
(***************************************************************************)
CONSTANTS Slots   \* credentials that the list has room for

VARIABLES
    revoked,     \* the credentials that are revoked
    announced,   \* those that were when the list was last published
    asked        \* the last request: a credential and what it asked for

RInit == revoked = {} /\ announced = {} /\ asked = <<>>

Revoke(s)  == revoked' = revoked \cup {s} /\ asked' = <<s, TRUE>>  /\ UNCHANGED announced
Restore(s) == revoked' = revoked \ {s}    /\ asked' = <<s, FALSE>> /\ UNCHANGED announced
Announce   == announced' = revoked /\ UNCHANGED <<revoked, asked>>

RNext == (\E s \in Slots : Revoke(s) \/ Restore(s)) \/ Announce

RSpec == RInit /\ [][RNext]_<<revoked, announced, asked>>
=============================================================================
