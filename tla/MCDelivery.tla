----------------------------- MODULE MCDelivery -----------------------------
(* Calls of others: the outbox of listens and the jukebox.  They share no   *)
(* state, so each behaviour is of one of them (`subject`), and fair to it.  *)
(* One user has an account on two services, the first of which may never    *)
(* answer; one client uses every operation of the jukebox on an mpv that    *)
(* dies, or two clients use it while the backend is changed.                *)
EXTENDS Scrobbling, Jukebox

CONSTANTS r1, r2, a, b

VARIABLE subject

deliveryVars == <<subject, vars, jukeboxVars>>

MCReachable == {<<"user", "lastfm">>}

MCLists == {<< >>, <<a>>, <<a, b>>}

MCBudgets ==
    {[plays |-> 2, saves |-> 2, toggles |-> 0, crashes |-> 0],
     [plays |-> 1, saves |-> 2, toggles |-> 2, crashes |-> 1],
     [plays |-> 2, saves |-> 1, toggles |-> 1, crashes |-> 1]}

MCEdits == {[name |-> "set", entries |-> <<a>>], [name |-> "clear"]}

MCLimits ==
    {[clients |-> {r1}, edits |-> 3, deaths |-> 1, switches |-> 0,
      ops |-> {op \in Ops : op.name \in {"set", "add"} => op.entries \in MCLists}],
     [clients |-> {r1, r2}, edits |-> 2, deaths |-> 0, switches |-> 1, ops |-> MCEdits],
     [clients |-> {r1, r2}, edits |-> 1, deaths |-> 1, switches |-> 1, ops |-> MCEdits]}

DeliveryInit ==
    /\ subject \in {"outbox", "jukebox"}
    /\ Init /\ (subject # "outbox" => budget.saves = 1)
    /\ JukeboxInit /\ (subject # "jukebox" => allowed.clients = {r1} /\ setting = "sonos")

OfOutbox(A)  == subject = "outbox" /\ A /\ UNCHANGED <<subject, jukeboxVars>>
OfJukebox(A) == subject = "jukebox" /\ A /\ UNCHANGED <<subject, vars>>

DeliveryNext == OfOutbox(Next) \/ OfJukebox(JukeboxNext)

(* As in Fairness and in JukeboxFairness.                                   *)
OutboxFair ==
    /\ WF_deliveryVars(OfOutbox(RetryLater))
    /\ WF_deliveryVars(OfOutbox(TakeJob \/ Sends \/ Record \/ RecordFails))

JukeboxFair == \A r \in Clients :
    WF_deliveryVars(OfJukebox(Step(r))) /\ WF_deliveryVars(OfJukebox(Ask(r, Status)))

(* Strong fairness of an action of each: in a behaviour only one of them is *)
(* ever enabled, so that this is strong fairness of both.                   *)
BothFair ==
    /\ SF_deliveryVars(
          \/ OfOutbox(worker.pc = "sending" /\ \E x \in Reachable : Settle(x))
          \/ OfJukebox(Swap(r1) \/ Begin(r1)))
    /\ SF_deliveryVars(
          \/ OfOutbox(worker.pc = "answered" /\ \E x \in Reachable : RecordOf(x, Statuses \ {"retry"}))
          \/ OfJukebox(Swap(r2) \/ Begin(r2)))
    /\ SF_deliveryVars(
          OfOutbox(worker.pc = "answered" /\ \E x \in Accounts \ Reachable : RecordOf(x, Statuses)))

DeliverySpec ==
    /\ DeliveryInit /\ [][DeliveryNext]_deliveryVars
    /\ OutboxFair /\ JukeboxFair /\ BothFair
=============================================================================
