----------------------------- MODULE Scrobbling -----------------------------
(***************************************************************************)
(* The outbox of listens (core/services/scrobbling/service.py): users      *)
(* connect accounts of listening-history services, every finished play is  *)
(* queued in the database once per working connection, and one worker      *)
(* thread sends what is queued, in batches, outside any transaction.       *)
(*                                                                         *)
(* A transaction is a step, and so is a call of a service.  Between them   *)
(* users reconnect, disconnect and switch connections, plays are queued,   *)
(* and the process may crash.                                              *)
(***************************************************************************)
EXTENDS Subsequences

CONSTANTS
    Users, Services,
    Reachable,      \* the accounts whose service answers again and again
    BatchSize,      \* most listens in one call
    DueLimit,       \* most listens one job looks at (LIMIT 1000)
    Budgets,        \* the bounds a behaviour may have: rows of scrobble_queue
                    \* ever inserted, connections saved and toggled, crashes
    MaxJobs         \* bound: jobs waiting (all are the same)

Accounts == Users \X Services

ASSUME ReachableAssumption == Reachable \subseteq Accounts /\ IsFiniteSet(Accounts)
ASSUME SizesAssumption == BatchSize \in Nat \ {0} /\ DueLimit \in Nat \ {0}
ASSUME BoundsAssumption ==
    Budgets \subseteq [plays : Nat, saves : Nat, toggles : Nat, crashes : Nat] /\ MaxJobs \in Nat \ {0}

VARIABLES
    connection,     \* user_connections
    queue,          \* scrobble_queue, in the order of played_at
    jobs,           \* deliver_queued jobs in the pool of one thread
    worker,         \* what its thread is doing
    budget, played, saves, toggles, crashes,
    sent,           \* how often a service took a listen
    gone,           \* listens that left the queue for a reason of their own:
                    \* disconnected, refused by the service, or too old
    doubtful,       \* listens a service took without the server knowing
    refused         \* the credentials recorded as rejected

ghosts == <<sent, gone, doubtful, refused>>
bounds == <<budget, played, saves, toggles, crashes>>
vars   == <<connection, queue, jobs, worker, bounds, ghosts>>

-----------------------------------------------------------------------------
Statuses == {"ok", "retry", "invalid_auth", "drop"}

\* `credentials` is the number of the save they came with, 0 without a row.
Connection == [credentials: Nat, broken: BOOLEAN, enabled: BOOLEAN]
NoRow      == [credentials |-> 0, broken |-> FALSE, enabled |-> FALSE]

\* A row: its id, its connection, and which of all listens it is (history).
Listen == [id: Nat, account: Accounts, nr: Nat]

\* What a job has still to send, one entry per connection (per_connection).
Share == [account: Accounts, credentials: Nat, listens: Seq(Listen)]

Worker == [pc: {"idle", "sending", "answered"}, todo: Seq(Share), status: Statuses]

Idle == [pc |-> "idle", todo |-> << >>, status |-> "ok"]

TypeOK ==
    /\ connection \in [Accounts -> Connection]
    /\ queue \in Seq(Listen)
    /\ jobs \in 0..MaxJobs
    /\ worker \in Worker
    /\ budget \in Budgets
    /\ played \in 0..budget.plays /\ saves \in 0..budget.saves
    /\ toggles \in 0..budget.toggles /\ crashes \in 0..budget.crashes
    /\ sent \in [1..budget.plays -> 0..2]
    /\ gone \subseteq 1..played /\ doubtful \subseteq 1..played
    /\ refused \subseteq 1..saves

Init ==
    /\ connection = [a \in Accounts |-> NoRow]
    /\ queue = << >> /\ jobs = 0 /\ worker = Idle
    /\ budget \in Budgets /\ played = 0 /\ saves = 0 /\ toggles = 0 /\ crashes = 0
    /\ sent = [n \in 1..budget.plays |-> 0]
    /\ gone = {} /\ doubtful = {} /\ refused = {}

-----------------------------------------------------------------------------
Numbers(listens) == {l.nr : l \in ToSet(listens)}

Connected(a) == connection[a].credentials # 0

(* WHERE last_error IS NULL AND enabled = 1                                 *)
Working(a) == Connected(a) /\ ~connection[a].broken /\ connection[a].enabled

Submit == jobs' = IF jobs < MaxJobs THEN jobs + 1 ELSE jobs

(* save_connection(): connecting, and reconnecting with other credentials.  *)
SaveConnection(a) ==
    /\ saves < budget.saves /\ saves' = saves + 1
    /\ connection' = [connection EXCEPT ![a] =
          [credentials |-> saves + 1, broken |-> FALSE, enabled |-> TRUE]]
    /\ Submit
    /\ UNCHANGED <<queue, worker, budget, played, toggles, crashes, ghosts>>

(* delete_connection(): the queued listens go with the row.                 *)
DeleteConnection(a) ==
    /\ Connected(a)
    /\ connection' = [connection EXCEPT ![a] = NoRow]
    /\ gone' = gone \cup {l.nr : l \in {m \in ToSet(queue) : m.account = a}}
    /\ queue' = Kept(queue, {i \in DOMAIN queue : queue[i].account # a})
    /\ UNCHANGED <<jobs, worker, bounds, sent, doubtful, refused>>

SetEnabled(a, enabled) ==
    /\ toggles < budget.toggles /\ toggles' = toggles + 1
    /\ connection' = IF Connected(a) THEN [connection EXCEPT ![a].enabled = enabled]
                     ELSE connection
    /\ IF enabled THEN Submit ELSE UNCHANGED jobs
    /\ UNCHANGED <<queue, worker, budget, played, saves, crashes, ghosts>>

(* Mutant of NextId: without AUTOINCREMENT an id is used again.             *)
NextIdReused == 1 + Max({0} \cup {l.id : l \in ToSet(queue)})

(* AUTOINCREMENT: the id of a row is never used for another one.            *)
NextId == played + 1

(* scrobble(): one row for each working connection of the user.  Clients    *)
(* may report plays late and in any order.  A play that is too short, too   *)
(* old, has no title, or is not allowed to be shared changes nothing.       *)
Scrobble(user) ==
    LET targets == SetToSeq({a \in Accounts : a[1] = user /\ Working(a)})
        rows == [k \in DOMAIN targets |->
                    [id |-> NextId + k - 1, account |-> targets[k], nr |-> played + k]]
    IN  /\ targets # << >> /\ played + Len(rows) <= budget.plays
        /\ played' = played + Len(rows)
        /\ \E i \in 0..Len(queue) :
              queue' = SubSeq(queue, 1, i) \o rows \o SubSeq(queue, i + 1, Len(queue))
        /\ Submit
        /\ UNCHANGED <<connection, worker, budget, saves, toggles, crashes, ghosts>>

(* run_periodic() submits a job every SCROBBLE_RETRY_INTERVAL_SEC.          *)
RetryLater ==
    /\ jobs = 0 /\ Submit
    /\ UNCHANGED <<connection, queue, worker, bounds, ghosts>>

-----------------------------------------------------------------------------
Firsts(due)      == {i \in DOMAIN due : \A j \in 1..i - 1 : due[j].account # due[i].account}
RowsOf(due, a)   == Kept(due, {i \in DOMAIN due : due[i].account = a})

\* The rows of each connection, in the order in which the connections turn up.
PerConnection(due) ==
    LET first == Kept(due, Firsts(due))
    IN  [k \in DOMAIN first |->
            [account |-> first[k].account,
             credentials |-> connection[first[k].account].credentials,
             listens |-> RowsOf(due, first[k].account)]]

Upto(n, s) == SubSeq(s, 1, IF Len(s) < n THEN Len(s) ELSE n)

Due(rows) == Upto(DueLimit, Kept(rows, {i \in DOMAIN rows : Working(rows[i].account)}))

(* deliver_queued(), up to the end of its first transaction: what is too    *)
(* old is deleted, and the oldest rows of the working connections are read  *)
(* together with the credentials.                                           *)
TakeJob ==
    /\ worker.pc = "idle" /\ jobs > 0 /\ jobs' = jobs - 1
    /\ \E old \in 0..Len(queue) :
        /\ queue' = SubSeq(queue, old + 1, Len(queue))
        /\ gone' = gone \cup Numbers(SubSeq(queue, 1, old))
    /\ LET due == Due(queue')
       IN  worker' = IF due = << >> THEN Idle
                     ELSE [Idle EXCEPT !.pc = "sending", !.todo = PerConnection(due)]
    /\ UNCHANGED <<connection, bounds, sent, doubtful, refused>>

Current == Head(worker.todo)
Batch   == Upto(BatchSize, Current.listens)

(* One call of scrobbler.submit().  The service takes the listens or not,   *)
(* and what it took may be answered with an error or not at all.            *)
Send(status) ==
    /\ worker.pc = "sending"
    /\ \E taken \in BOOLEAN :
        /\ status = "ok" => taken
        /\ status \in {"drop", "invalid_auth"} => ~taken
        /\ sent' = [n \in 1..budget.plays |->
                       IF taken /\ n \in Numbers(Batch) /\ sent[n] < 2
                       THEN sent[n] + 1 ELSE sent[n]]
        /\ doubtful' = IF taken /\ status = "retry"
                       THEN doubtful \cup Numbers(Batch) ELSE doubtful
    /\ worker' = [worker EXCEPT !.pc = "answered", !.status = status]
    /\ UNCHANGED <<connection, queue, jobs, bounds, gone, refused>>

(* Mutant of GoesOn: an answer that is no success ends the whole job.       *)
GoesOnOrStops ==
    LET rest == SubSeq(Current.listens, Len(Batch) + 1, Len(Current.listens))
        todo == IF worker.status \notin {"ok", "drop"} THEN << >>
                ELSE IF rest = << >> THEN Tail(worker.todo)
                ELSE <<[Current EXCEPT !.listens = rest]>> \o Tail(worker.todo)
    IN  worker' = IF todo = << >> THEN Idle
                  ELSE [Idle EXCEPT !.pc = "sending", !.todo = todo]

(* The next batch of the connection; after a failure, or when there is      *)
(* none, the next connection.                                               *)
GoesOn ==
    LET rest == SubSeq(Current.listens, Len(Batch) + 1, Len(Current.listens))
        todo == IF worker.status \notin {"ok", "drop"} \/ rest = << >> THEN Tail(worker.todo)
                ELSE <<[Current EXCEPT !.listens = rest]>> \o Tail(worker.todo)
    IN  worker' = IF todo = << >> THEN Idle
                  ELSE [Idle EXCEPT !.pc = "sending", !.todo = todo]

Deletes(status) == status \in {"ok", "drop"}

(* The transaction after a call.                                            *)
Record ==
    /\ worker.pc = "answered"
    /\ LET ids == {l.id : l \in ToSet(Batch)}
       IN  queue' = IF Deletes(worker.status)
                    THEN Kept(queue, {i \in DOMAIN queue : queue[i].id \notin ids}) ELSE queue
    /\ gone' = IF worker.status = "drop" THEN gone \cup Numbers(Batch) ELSE gone
    /\ IF worker.status = "invalid_auth"
       THEN /\ connection' = [connection EXCEPT
                  ![Current.account].broken = Connected(Current.account)]
            /\ refused' = refused \cup {Current.credentials}
       ELSE UNCHANGED <<connection, refused>>
    /\ GoesOn
    /\ UNCHANGED <<jobs, bounds, sent, doubtful>>

Unrecorded == IF worker.pc = "answered" /\ worker.status = "ok"
              THEN Numbers(Batch) ELSE {}

(* ... or it raises, which ends the job.                                    *)
RecordFails ==
    /\ worker.pc = "answered"
    /\ doubtful' = doubtful \cup Unrecorded
    /\ worker' = Idle
    /\ UNCHANGED <<connection, queue, jobs, bounds, sent, gone, refused>>

(* The process dies and is started again: the pool's jobs are lost.         *)
Crash ==
    /\ crashes < budget.crashes /\ crashes' = crashes + 1
    /\ doubtful' = doubtful \cup Unrecorded
    /\ worker' = Idle /\ jobs' = 0
    /\ UNCHANGED <<connection, queue, budget, played, saves, toggles, sent, gone, refused>>

-----------------------------------------------------------------------------
Requests ==
    \/ \E a \in Accounts : SaveConnection(a) \/ DeleteConnection(a)
    \/ \E a \in Accounts, enabled \in BOOLEAN : SetEnabled(a, enabled)
    \/ \E user \in Users : Scrobble(user)

Sends == \E status \in Statuses : Send(status)

Next == \/ Requests \/ RetryLater
        \/ TakeJob \/ Sends \/ Record \/ RecordFails
        \/ Crash

Spec == Init /\ [][Next]_vars

(* The worker is scheduled, calls time out, run_periodic() comes round, a   *)
(* reachable service gives again and again an answer that settles the       *)
(* matter, and the database is not busy each time one is to be recorded.    *)
Settle(a) == Current.account = a /\ \E status \in Statuses \ {"retry"} : Send(status)

RecordOf(a, statuses) == Current.account = a /\ worker.status \in statuses /\ Record

Fairness ==
    /\ WF_vars(RetryLater) /\ WF_vars(TakeJob \/ Sends \/ Record \/ RecordFails)
    /\ \A a \in Accounts \ Reachable : SF_vars(worker.pc = "answered" /\ RecordOf(a, Statuses))
    /\ \A a \in Reachable :
          /\ SF_vars(worker.pc = "sending" /\ Settle(a))
          /\ SF_vars(worker.pc = "answered" /\ RecordOf(a, Statuses \ {"retry"}))

FairSpec == Spec /\ Fairness

-----------------------------------------------------------------------------
Queued(n) == n \in Numbers(queue)

(* No listen is lost: until a service took it, it stays queued, whatever    *)
(* fails, crashes, or is reconnected meanwhile, unless the user             *)
(* disconnected, the service refused it, or it got too old.                 *)
NoListenLost ==
    \A n \in 1..played : Queued(n) \/ sent[n] > 0 \/ n \in gone

(* A listen is sent twice only when the server could not know, or not       *)
(* record, that the service had taken it the first time.                    *)
SentOnce ==
    \A n \in 1..played : sent[n] > 1 => n \in doubtful

(* Credentials a service has rejected are not used again ("Stop sending     *)
(* until user reconnects"), neither by the job that learnt of it nor by     *)
(* later ones.                                                              *)
RejectedNotUsed ==
    worker.pc = "sending" =>
        \A share \in ToSet(worker.todo) : share.credentials \notin refused

(* All three, and every part of the state has its type.                     *)
OutboxSound == TypeOK /\ NoListenLost /\ SentOnce /\ RejectedNotUsed

Backlog(a) == \E l \in ToSet(queue) : l.account = a

(* The backlog of a connection that stays in working order comes to its     *)
(* end, delivered or settled otherwise, even when other services are down   *)
(* for ever (there is a last play).                                         *)
Delivered ==
    \A a \in Reachable : Backlog(a) ~> (~Backlog(a) \/ ~Working(a))

(* A connection is broken only because the credentials it has were          *)
(* rejected: "Reconnecting clears any error".                               *)
BrokenByItsOwn ==
    \A a \in Accounts : connection[a].broken => connection[a].credentials \in refused

=============================================================================
