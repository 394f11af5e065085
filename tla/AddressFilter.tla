--------------------------- MODULE AddressFilter ---------------------------
(***************************************************************************)
(* The address filter (IPFilter of core/accounts/security.py).  Each of    *)
(* its two lists is kept twice, as strings and as networks, and a setter   *)
(* replaces one after the other while requests are being checked; a check  *)
(* reads the networks up to three times, or the strings when the client's  *)
(* address cannot be parsed.  A network is the set of addresses in it.     *)
(***************************************************************************)
EXTENDS Naturals, FiniteSets

CONSTANTS
    Hosts,          \* addresses
    Unparsed,       \* what a client without an address is called ('unknown')
    FilterThreads,
    FilterChangesMax    \* bound: changes of the lists

VARIABLES
    whiteRaw, whiteNets, blackRaw, blackNets,
    setter,         \* the setter of the settings store, and what it has to do
    filterChanges,
    check,          \* the check of each thread
    inForce         \* for each thread the pairs of lists the settings held
                    \* since its check began

filterLists == <<whiteRaw, whiteNets, blackRaw, blackNets>>
filterVars  == <<filterLists, setter, filterChanges, check, inForce>>

Lists   == SUBSET Hosts
NotChecking == [pc |-> "rest"]
NoCheck == [pc |-> "none"]
Clients == Hosts \cup {Unparsed}

ASSUME FilterAssumption == Unparsed \notin Hosts /\ FilterChangesMax \in Nat

FilterInit ==
    /\ whiteRaw \in Lists /\ whiteNets = whiteRaw
    /\ blackRaw \in Lists /\ blackNets = blackRaw
    /\ setter = NotChecking /\ filterChanges = 0
    /\ check = [t \in FilterThreads |-> NoCheck]
    /\ inForce = [t \in FilterThreads |-> {}]

(* The decision the two lists call for.                                     *)
Allows(white, black, c) == c \notin black /\ (white = {} \/ c \in white)

(* A check that is under way sees the lists that come into force.           *)
Seen(white, black) ==
    [t \in FilterThreads |-> IF check[t].pc \in {"black", "any", "white"}
                             THEN inForce[t] \cup {<<white, black>>} ELSE inForce[t]]

-----------------------------------------------------------------------------
(* Mutant of Meanwhile: a list that is replaced is emptied before.          *)
MeanwhileEmpty(nets) == {}

(* The networks of a list whose strings have been replaced: the old ones.   *)
Meanwhile(nets) == nets

(* The whitelist and blacklist setters: first the strings ...               *)
SetStrings(which, list) ==
    /\ setter = NotChecking /\ filterChanges < FilterChangesMax
    /\ filterChanges' = filterChanges + 1
    /\ setter' = [pc |-> which, list |-> list]
    /\ IF which = "white"
       THEN /\ whiteRaw' = list /\ whiteNets' = Meanwhile(whiteNets)
            /\ inForce' = Seen(list, blackRaw) /\ UNCHANGED <<blackRaw, blackNets>>
       ELSE /\ blackRaw' = list /\ blackNets' = Meanwhile(blackNets)
            /\ inForce' = Seen(whiteRaw, list) /\ UNCHANGED <<whiteRaw, whiteNets>>
    /\ UNCHANGED check

(* ... then the networks made from them.                                    *)
SetNetworks ==
    /\ setter # NotChecking /\ setter' = NotChecking
    /\ whiteNets' = IF setter.pc = "white" THEN setter.list ELSE whiteNets
    /\ blackNets' = IF setter.pc = "black" THEN setter.list ELSE blackNets
    /\ UNCHANGED <<whiteRaw, blackRaw, filterChanges, check, inForce>>

-----------------------------------------------------------------------------
(* is_allowed(): a client that cannot be parsed is looked up in the strings *)
(* (which are read one after the other as well: the model reads them at     *)
(* once, the outcome for a name that no list can hold is the same).         *)
CheckUnparsed(t) ==
    /\ check[t] = NoCheck
    /\ check' = [check EXCEPT ![t] = [client |-> Unparsed, pc |->
                    IF Allows(whiteRaw, blackRaw, Unparsed) THEN "passed" ELSE "refused"]]
    /\ inForce' = [inForce EXCEPT ![t] = {<<whiteRaw, blackRaw>>}]
    /\ UNCHANGED <<filterLists, setter, filterChanges>>

(* The networks still in use count as being in force.                       *)
CheckStart(t, h) ==
    /\ check[t] = NoCheck
    /\ check' = [check EXCEPT ![t] = [pc |-> "black", client |-> h]]
    /\ inForce' = [inForce EXCEPT ![t] = {<<whiteRaw, blackRaw>>, <<whiteNets, blackNets>>}]
    /\ UNCHANGED <<filterLists, setter, filterChanges>>

(* Is it in the blacklist?  Is there a whitelist?  Is it in that?           *)
Reads(c, pc) ==
    CASE pc = "black" -> IF c \in blackNets THEN "refused" ELSE "any"
      [] pc = "any"   -> IF whiteNets = {} THEN "passed" ELSE "white"
      [] pc = "white" -> IF c \in whiteNets THEN "passed" ELSE "refused"

CheckRead(t) ==
    /\ check[t].pc \in {"black", "any", "white"}
    /\ check' = [check EXCEPT ![t].pc = Reads(check[t].client, @)]
    /\ UNCHANGED <<filterLists, setter, filterChanges, inForce>>

CheckEnd(t) ==
    /\ check[t].pc \in {"passed", "refused"}
    /\ check' = [check EXCEPT ![t] = NoCheck]
    /\ inForce' = [inForce EXCEPT ![t] = {}]
    /\ UNCHANGED <<filterLists, setter, filterChanges>>

FilterNext ==
    \/ \E which \in {"white", "black"}, l \in Lists : SetStrings(which, l)
    \/ SetNetworks
    \/ \E t \in FilterThreads :
          CheckUnparsed(t) \/ CheckRead(t) \/ CheckEnd(t) \/ \E h \in Hosts : CheckStart(t, h)

FilterSpec == FilterInit /\ [][FilterNext]_filterVars

-----------------------------------------------------------------------------
(* A client is let in only if a blacklist in force during its check did not *)
(* name it, and a whitelist in force did or was empty: replacing a list     *)
(* opens no gap, however its three reads fall among the assignments.        *)
AdmittedByLists ==
    \A t \in FilterThreads : check[t].pc = "passed" =>
        LET c == check[t].client IN
        /\ \E ls \in inForce[t] : c \notin ls[2]
        /\ \E ls \in inForce[t] : ls[1] = {} \/ c \in ls[1]
=============================================================================
