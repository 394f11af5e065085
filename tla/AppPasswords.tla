---------------------------- MODULE AppPasswords ----------------------------
(***************************************************************************)
(* App passwords (core/accounts/app_passwords.py): how many a user may     *)
(* have, and what still signs in.  The limit and the name are looked up    *)
(* before the INSERT begins the write transaction, so two requests of the  *)
(* same user interleave there.                                             *)
(***************************************************************************)
EXTENDS Integers, FiniteSets

CONSTANTS
    Labels,         \* names of app passwords, compared without case
    AppThreads,
    AppLimit,       \* MAX_APP_PASSWORDS
    AppRowsMax      \* bound: rows ever inserted (AUTOINCREMENT)

VARIABLES
    appRows,        \* app_passwords of one user: id |-> [label, legacy, expired]
    appNext,
    appThread,      \* the request of each thread
    keyUsed         \* the row the last authentication matched, 0 for none

appVars == <<appRows, appNext, appThread, keyUsed>>

NotAsking == [pc |-> "none"]

ASSUME AppAssumption == AppLimit \in Nat \ {0} /\ AppRowsMax \in Nat /\ IsFiniteSet(AppThreads)

AppInit ==
    /\ appRows = << >> /\ appNext = 1 /\ keyUsed = 0
    /\ appThread = [t \in AppThreads |-> NotAsking]

Live == DOMAIN appRows
With(ids) == [i \in ids |-> appRows[i]]

RoomFor(label) ==
    /\ \A i \in Live : appRows[i].label # label
    /\ Cardinality(Live) < AppLimit

(* create_app_password(): the two SELECTs; a request that is refused ends.  *)
AskApp(t, label, legacy) ==
    /\ appThread[t] = NotAsking /\ RoomFor(label)
    /\ appThread' = [appThread EXCEPT ![t] = [pc |-> "insert", label |-> label, legacy |-> legacy]]
    /\ keyUsed' = 0
    /\ UNCHANGED <<appRows, appNext>>

(* The INSERT.  A key without `as_password` has no secret to compare.       *)
InsertApp(t) ==
    /\ appThread[t].pc = "insert" /\ appNext <= AppRowsMax
    /\ appRows' = [i \in Live \cup {appNext} |->
          IF i = appNext THEN [label |-> appThread[t].label, legacy |-> appThread[t].legacy,
                               expired |-> FALSE]
          ELSE appRows[i]]
    /\ appNext' = appNext + 1 /\ keyUsed' = 0
    /\ appThread' = [appThread EXCEPT ![t] = NotAsking]

(* Mutant of Revoked: an id is taken for the number of a line in the list.  *)
RevokedByLine(ids) == {i \in Live : Cardinality({j \in Live : j <= i}) \in ids}

Revoked(ids) == Live \cap ids

(* revoke_app_password(): one id, or 'all'.                                 *)
Revoke(ids) ==
    /\ appRows' = With(Live \ Revoked(ids))
    /\ keyUsed' = 0 /\ UNCHANGED <<appNext, appThread>>

ExpireApp(i) ==
    /\ ~appRows[i].expired
    /\ appRows' = [appRows EXCEPT ![i].expired = TRUE]
    /\ keyUsed' = 0 /\ UNCHANGED <<appNext, appThread>>

(* authenticate_api_key() and authenticate_legacy(), given the secret that  *)
(* was handed out for row i.                                                *)
Authenticate(i, legacy) ==
    /\ keyUsed' = IF i \in Live /\ (legacy => appRows[i].legacy) /\ ~appRows[i].expired
                  THEN i ELSE 0
    /\ UNCHANGED <<appRows, appNext, appThread>>

AppNext ==
    \/ \E t \in AppThreads :
          InsertApp(t) \/ \E l \in Labels, legacy \in BOOLEAN : AskApp(t, l, legacy)
    \/ \E i \in Live : ExpireApp(i)
    \/ \E i \in 1..AppRowsMax : Revoke({i})
    \/ Revoke(Live)
    \/ \E i \in 1..AppRowsMax, legacy \in BOOLEAN : Authenticate(i, legacy)

AppSpec == AppInit /\ [][AppNext]_appVars

-----------------------------------------------------------------------------
(* A user has no more app passwords than the limit and one for each other   *)
(* request that counted them at the same time; likewise for one name.       *)
AppQuota ==
    LET waiting == Cardinality({t \in AppThreads : appThread[t] # NotAsking}) IN
    /\ Cardinality(Live) + waiting <= AppLimit - 1 + Cardinality(AppThreads)
    /\ \A l \in Labels :
          Cardinality({i \in Live : appRows[i].label = l}) <= Cardinality(AppThreads)

(* A revoked secret never signs in again, and revoking one of several with  *)
(* the same name leaves the others.                                         *)
RevokedForGood ==
    [][/\ \A i \in 1..(appNext - 1) : i \notin Live => i \notin Live' /\ keyUsed' # i
       /\ \A i \in 1..AppRowsMax : Revoke({i}) => i \notin Live' /\ Live \ {i} \subseteq Live']_appVars

(* What app passwords promise: both hold.                                   *)
AppPasswordsHold == []AppQuota /\ RevokedForGood
=============================================================================
