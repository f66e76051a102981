------------------------------ MODULE MCClients ------------------------------
(***************************************************************************)
(* TLC instance of what an MCP client sends: its registration              *)
(* (ClientRecords), its assertions (ClientAssertions) and its forms        *)
(* (Forms).  They share no state, so each is explored with the others at   *)
(* rest: moving says which.                                                *)
(***************************************************************************)
EXTENDS ClientRecords, ClientAssertions, Forms, TLC

VARIABLE moving

CONSTANTS k1, k2, kid1, j1, token, revoke

\* k1 and k2 are keys; kid1 names k2's record and, twice in one set, a record of
\* k1's that may not verify.
MCKeyRecords ==
    {[material |-> k1, kid |-> NoKid, permits |-> TRUE],
     [material |-> k1, kid |-> kid1, permits |-> FALSE],
     [material |-> k2, kid |-> kid1, permits |-> TRUE]}

K(m, kid, permits) == [material |-> m, kid |-> kid, permits |-> permits]

MCKeySets ==
    {<<K(k1, NoKid, TRUE)>>, <<K(k2, kid1, TRUE), K(k1, kid1, FALSE)>>}

MCDocuments ==
    {[method |-> "private_key_jwt", inline |-> Hosted, stored |-> TRUE],
     [method |-> "private_key_jwt", inline |-> <<K(k1, NoKid, TRUE)>>, stored |-> FALSE],
     [method |-> "none", inline |-> <<K(k2, kid1, TRUE), K(k1, kid1, FALSE)>>, stored |-> TRUE]}

\* Two with one jti: one that names both endpoints, and an early one for revocation
\* alone.
MCAssertions ==
    {[jti |-> j1, aud |-> {token, revoke}, material |-> k2, kid |-> kid1, early |-> FALSE],
     [jti |-> j1, aud |-> {revoke}, material |-> k1, kid |-> NoKid, early |-> TRUE]}

\* The form at rest where it does not move.
Unasked == [endpoint |-> "revoke", method |-> "POST", pairs |-> <<>>, body |-> "form"]

MCInit ==
    /\ moving \in {"records", "assertions", "forms"}
    /\ RecordsInit /\ AssertionsInit
    /\ moving # "assertions" =>
          /\ hosted = CHOOSE keys \in KeySets : TRUE
          /\ document = CHOOSE d \in Documents : TRUE
    /\ IF moving = "forms" THEN FormsInit
       ELSE sent = Unasked /\ handed = <<>> /\ reply = ""

RecordsMove ==
    moving = "records" /\ RecordsNext /\ UNCHANGED <<moving, assertionVars, formVars>>
AssertionsMove ==
    moving = "assertions" /\ AssertionsNext /\ UNCHANGED <<moving, recordVars, formVars>>
FormsMove ==
    moving = "forms" /\ FormsNext /\ UNCHANGED <<moving, recordVars, assertionVars>>

MCNext == RecordsMove \/ AssertionsMove \/ FormsMove

MCSpec == MCInit /\ [][MCNext]_<<moving, recordVars, assertionVars, formVars>>

ClientSymmetry == Permutations(Clients) \cup Permutations(Authenticating)

=============================================================================
