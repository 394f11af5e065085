---------------------------- MODULE LoginLimiter ----------------------------
(***************************************************************************)
(* The login rate limiter (core/accounts/security.py) with the requests of *)
(* middleware.py around it.  Failures are counted twice, per (address,     *)
(* name) and per address.  A request is checked first and authenticated    *)
(* later, so others fail in between; an administrator changes the limits,  *)
(* sweeps and purges at any moment.  Times are ticks of limClock.          *)
(***************************************************************************)
EXTENDS Subsequences

CONSTANTS
    Addresses,      \* client addresses, none of them a loopback one
    Names,          \* user names
    NoName,         \* what a request with an API key gives as its name
    LoginThreads,   \* worker threads
    LimitSettings,  \* the values of the four settings the administrator uses
    LimClockMax,    \* bound: the last tick
    LimFailuresMax  \* bound: failures kept for one address

VARIABLES
    limClock,
    limits,         \* the limits in force
    limTuned,       \* whether they were changed
    pairs,          \* _store
    addresses,      \* _ip_store
    login           \* the request of each thread

limVars == <<limClock, limits, limTuned, pairs, addresses, login>>

NoLogin == [pc |-> "idle"]
Keys    == Addresses \X (Names \cup {NoName})

ASSUME LimAssumption ==
    /\ LimitSettings \subseteq
          [max : Nat \ {0}, window : Nat \ {0}, ipMax : Nat \ {0}, ipWindow : Nat \ {0}]
    /\ LimClockMax \in Nat /\ LimFailuresMax \in Nat /\ NoName \notin Names
    /\ IsFiniteSet(LoginThreads)

LimInit ==
    /\ limClock = 0 /\ limTuned = FALSE
    /\ limits \in LimitSettings
    /\ pairs = [k \in Keys |-> << >>]
    /\ addresses = [ip \in Addresses |-> << >>]
    /\ login = [t \in LoginThreads |-> NoLogin]

(* The failures of a bucket that still count.                               *)
Counting(times, window) == {i \in DOMAIN times : limClock - times[i] < window}
Recent(times, window)   == Kept(times, Counting(times, window))

PairCount(k)   == Len(Recent(pairs[k], limits.window))
AddrCount(ip)  == Len(Recent(addresses[ip], limits.ipWindow))
AddrBlocked(ip) == AddrCount(ip) >= limits.ipMax

(* Mutant of Blocked: the attempt that reaches the limit is not the last.   *)
BlockedLate(k) == AddrBlocked(k[1]) \/ PairCount(k) > limits.max

Blocked(k) == AddrBlocked(k[1]) \/ PairCount(k) >= limits.max

-----------------------------------------------------------------------------
(* is_blocked(): the buckets that are read lose their old failures; the     *)
(* pair's is not read when the address is blocked.                          *)
Check(t, k) ==
    /\ login[t] = NoLogin
    /\ addresses' = [addresses EXCEPT ![k[1]] = Recent(@, limits.ipWindow)]
    /\ pairs' = IF AddrBlocked(k[1]) THEN pairs
                ELSE [pairs EXCEPT ![k] = Recent(@, limits.window)]
    /\ login' = IF Blocked(k) THEN login
                ELSE [login EXCEPT ![t] = [pc |-> "checked", key |-> k]]
    /\ UNCHANGED <<limClock, limits, limTuned>>

(* record()                                                                 *)
Fail(t) ==
    /\ login[t].pc = "checked"
    /\ LET k == login[t].key IN
       /\ Len(addresses[k[1]]) < LimFailuresMax
       /\ pairs' = [pairs EXCEPT ![k] = Append(@, limClock)]
       /\ addresses' = [addresses EXCEPT ![k[1]] = Append(@, limClock)]
    /\ login' = [login EXCEPT ![t] = NoLogin]
    /\ UNCHANGED <<limClock, limits, limTuned>>

(* reset(): the pair of the name that was given, or of the account an API   *)
(* key turned out to belong to, is forgotten; the address's bucket is not.  *)
Succeed(t) ==
    /\ login[t].pc = "checked"
    /\ \E name \in Names :
          /\ login[t].key[2] \in {name, NoName}
          /\ pairs' = [pairs EXCEPT ![<<login[t].key[1], name>>] = << >>]
    /\ login' = [login EXCEPT ![t] = NoLogin]
    /\ UNCHANGED <<limClock, limits, limTuned, addresses>>

(* sweep(): buckets whose last failure is older than the window go.         *)
Stale(times, window) == times # << >> /\ limClock - Last(times) > window

Sweep ==
    /\ pairs' = [k \in Keys |-> IF Stale(pairs[k], limits.window) THEN << >> ELSE pairs[k]]
    /\ addresses' = [ip \in Addresses |->
                        IF Stale(addresses[ip], limits.ipWindow) THEN << >> ELSE addresses[ip]]
    /\ UNCHANGED <<limClock, limits, limTuned, login>>

Purge ==
    /\ pairs' = [k \in Keys |-> << >>]
    /\ addresses' = [ip \in Addresses |-> << >>]
    /\ UNCHANGED <<limClock, limits, limTuned, login>>

(* The settings store's setters, once in a behaviour.                       *)
Tune ==
    /\ ~limTuned /\ limTuned' = TRUE
    /\ limits' \in LimitSettings \ {limits}
    /\ UNCHANGED <<limClock, pairs, addresses, login>>

Tick ==
    /\ limClock < LimClockMax
    /\ limClock' = limClock + 1
    /\ UNCHANGED <<limits, limTuned, pairs, addresses, login>>

LimNext ==
    \/ \E t \in LoginThreads, k \in Keys : Check(t, k)
    \/ \E t \in LoginThreads : Fail(t) \/ Succeed(t)
    \/ Sweep \/ Purge \/ Tune \/ Tick

LimSpec == LimInit /\ [][LimNext]_limVars

-----------------------------------------------------------------------------
(* Until the limits change, the failures that count for a pair exceed its   *)
(* limit by no more than the requests that were under way when it was       *)
(* reached: checking first and recording later costs one attempt per other  *)
(* worker thread, whatever expires, is swept or is reset in between.        *)
Overshoot ==
    limTuned \/ \A k \in Keys :
        PairCount(k) + Cardinality({t \in LoginThreads : login[t].pc = "checked" /\ login[t].key = k})
           <= limits.max - 1 + Cardinality(LoginThreads)

(* Until the limits change, an address answers for all its failures: each   *)
(* one that counts for some pair counts for the address, so that succeeding *)
(* with one name, sweeping and pruning never lower the address's count      *)
(* below that of the names tried from it.  (The address's window is the     *)
(* longer one, as in the defaults.)                                         *)
AddressCountsAll ==
    limTuned \/ limits.window > limits.ipWindow \/ \A ip \in Addresses :
        AddrCount(ip) >= Cardinality(
            UNION {{n} \X Counting(pairs[<<ip, n>>], limits.window) : n \in Names \cup {NoName}})

(* What the limiter promises: both hold.                                    *)
LimitHolds == Overshoot /\ AddressCountsAll
=============================================================================
