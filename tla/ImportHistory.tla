----------------------------- MODULE ImportHistory -----------------------------
(***************************************************************************)
(* What an import reports of each album, and the history made of it        *)
(* (beetstreamnext_events.py, core/library/import_history.py).  The child  *)
(* process chooses what to do with each album, may merge it with the copy  *)
(* in the library, and then moves its files; its plugin writes a record    *)
(* when an album is skipped, when its files are done, and at the exit for  *)
(* what is left, which it remembers by the id() of the task.  The server   *)
(* then turns the records of the run into rows.  A folder is the sequence  *)
(* of its names, so that a folder is below its prefixes.                   *)
(***************************************************************************)
EXTENDS Subsequences

CONSTANTS
    Inbox, Library,                 \* the folders of albums; where their files go if they are moved
    TaskIds,                        \* values id() may return
    HistoryMaxRows, HistoryRunsMax  \* HISTORY_MAX_ROWS; bound on the runs

ASSUME HistoryAssumption == {HistoryMaxRows, HistoryRunsMax} \subseteq Nat \ {0}

VARIABLES
    moves,          \* import.move or import.copy of the config of beets
    imported,       \* the inbox folders whose album is in the library
    todo,           \* folders the run has still to look at
    tasks,          \* the tasks it chose to import and did not finish: id -> folders
    pending,        \* _pending of the plugin: id -> folders
    results,        \* the results file
    runPath, runs,  \* the folder of the run, and the runs there were
    outcomes        \* import_history, oldest first

childVars   == <<imported, todo, tasks, pending, results>>
historyVars == <<moves, childVars, runPath, runs, outcomes>>

NoRun == << >>

HistoryInit ==
    /\ moves \in BOOLEAN /\ imported = {} /\ todo = {} /\ tasks = << >> /\ pending = << >>
    /\ results = << >> /\ runPath = NoRun /\ runs = 0 /\ outcomes = << >>

Below(path, folder) == IsPrefix(folder, path)
Minus(f, keys)      == [k \in DOMAIN f \ keys |-> f[k]]
Plus(f, k, v)       == [x \in DOMAIN f \cup {k} |-> IF x = k THEN v ELSE f[x]]

(* _describe(): one folder, or what its folders have in common.             *)
PathOf(folders) == LongestCommonPrefix(folders)

ReportOf(event, cause, folders) ==
    [event |-> event, cause |-> cause, folders |-> folders, path |-> PathOf(folders)]

-----------------------------------------------------------------------------
(* The child.                                                               *)

(* start(): any part of what is below the folder may be new to beets.       *)
StartRun(path) ==
    /\ runPath = NoRun /\ runs < HistoryRunsMax /\ runs' = runs + 1
    /\ runPath' = path /\ results' = << >> /\ pending' = << >> /\ tasks' = << >>
    /\ todo' \in SUBSET {f \in Inbox : Below(f, path)} \ {{}}
    /\ UNCHANGED <<moves, imported, outcomes>>

(* _on_choice(): a task with these folders, which gets a free id.           *)
Chosen(id, folders, others) ==
    \/ /\ results' = Append(results, ReportOf("skipped", "user", folders))
       /\ tasks' = others /\ UNCHANGED pending
    \/ /\ tasks' = Plus(others, id, folders) /\ pending' = Plus(pending, id, folders)
       /\ UNCHANGED results

Choose(f, id) ==
    /\ f \in todo /\ id \notin DOMAIN tasks /\ todo' = todo \ {f}
    /\ Chosen(id, {f}, tasks)
    /\ UNCHANGED <<moves, imported, runPath, runs, outcomes>>

(* A duplicate of an album of the library is dropped...                     *)
DropDuplicate(id) ==
    /\ id \in DOMAIN tasks /\ imported # {} /\ tasks' = Minus(tasks, {id})
    /\ UNCHANGED <<moves, imported, todo, pending, results, runPath, runs, outcomes>>

(* ...or merged with it: a new task, of the folders of both, is chosen, and *)
(* what was merged is not looked at again in place.                         *)
InLibrary(f) == IF moves THEN Library ELSE f

Merge(id, f, new) ==
    /\ id \in DOMAIN tasks /\ f \in imported /\ new \notin DOMAIN tasks
    /\ \A k \in DOMAIN tasks : InLibrary(f) \notin tasks[k]
    /\ todo' = todo \ {InLibrary(f)}
    /\ Chosen(new, tasks[id] \cup {InLibrary(f)}, Minus(tasks, {id}))
    /\ UNCHANGED <<moves, imported, runPath, runs, outcomes>>

Replaced(id, folders) == {id} \cup {k \in DOMAIN pending : pending[k] \subseteq folders}

(* The files were moved: _on_files().                                       *)
Files(id) ==
    /\ id \in DOMAIN tasks /\ tasks' = Minus(tasks, {id})
    /\ pending' = Minus(pending, Replaced(id, tasks[id]))
    /\ results' = Append(results, ReportOf("imported", "none", tasks[id]))
    /\ imported' = imported \cup (tasks[id] \cap Inbox)
    /\ UNCHANGED <<moves, todo, runPath, runs, outcomes>>

(* The user aborts, and the tasks on their way are dropped.                 *)
Abort ==
    /\ runPath # NoRun /\ (todo # {} \/ DOMAIN tasks # {}) /\ todo' = {} /\ tasks' = << >>
    /\ UNCHANGED <<moves, imported, pending, results, runPath, runs, outcomes>>

-----------------------------------------------------------------------------
(* The server.                                                              *)
Of(event, records) == Kept(records, {i \in DOMAIN records : records[i].event = event})

(* _merge_imports(): without what a bigger or a later report contains.      *)
MergeImports(records) ==
    LET larger(i, j) == /\ records[i].folders \subseteq records[j].folders
                        /\ records[i].folders = records[j].folders => j > i
    IN  Kept(records, {i \in DOMAIN records : ~\E j \in DOMAIN records \ {i} : larger(i, j)})

Imported(records) == MergeImports(Of("imported", records))

Settled(records) ==
    UNION {r.folders \cup {r.path} : r \in ToSet(Imported(records))}

SettledPath(path, settled) == \E folder \in settled : Below(path, folder)

(* The last report of each path, unless the run imported what is there.     *)
SkippedOf(records) ==
    LET skipped == Of("skipped", records)
        settled == Settled(records)
        last(i) == ~\E j \in DOMAIN skipped : j > i /\ skipped[j].path = skipped[i].path
    IN  Kept(skipped, {i \in DOMAIN skipped : last(i) /\ ~SettledPath(skipped[i].path, settled)})

(* Mutant of Superseded: only the rows that were skipped again go.             *)
SkippedAgain(row, settled, again) == row.event = "skipped" /\ row.path \in again

(* _drop_superseded().                                                      *)
Superseded(row, settled, again) ==
    row.event = "skipped" /\ (row.path \in again \/ SettledPath(row.path, settled))

RowOf(r) ==
    [run |-> runs, event |-> r.event, cause |-> r.cause, path |-> r.path, runPath |-> runPath]

NewestRows(seq) == IF Len(seq) > HistoryMaxRows THEN SubSeq(seq, Len(seq) - HistoryMaxRows + 1, Len(seq)) ELSE seq

RecordRun(records) ==
    LET settled == Settled(records)
        skipped == SkippedOf(records)
        new     == Imported(records) \o skipped
        again   == {r.path : r \in ToSet(skipped)}
        kept    == Kept(outcomes, {i \in DOMAIN outcomes : ~Superseded(outcomes[i], settled, again)})
        added   == [i \in DOMAIN new |-> RowOf(new[i])]
    IN  outcomes' = IF new = << >> THEN outcomes ELSE NewestRows(kept \o added)

(* _on_exit() reports what is left as duplicates; then _finish() reads it.  *)
Leftovers == {ReportOf("skipped", "duplicate", pending[k]) : k \in DOMAIN pending}

FinishRun ==
    /\ runPath # NoRun /\ todo = {} /\ DOMAIN tasks = {}
    /\ results' = results \o SetToSeq(Leftovers) /\ pending' = << >>
    /\ RecordRun(results') /\ runPath' = NoRun
    /\ UNCHANGED <<moves, imported, todo, tasks, runs>>

(* reimport_parent(): a folder below that of the run, or that very one.     *)
ReimportParent(row) ==
    IF row.path # << >> /\ Below(Front(row.path), row.runPath) THEN {Front(row.path)} ELSE {}

Reimport(i) ==
    \E path \in {outcomes[i].path} \cup ReimportParent(outcomes[i]) : path # NoRun /\ StartRun(path)

RemoveEntry(i) == outcomes' = RemoveAt(outcomes, i) /\ UNCHANGED <<moves, childVars, runPath, runs>>
ClearHistory   == outcomes' = << >> /\ UNCHANGED <<moves, childVars, runPath, runs>>

HistoryNext ==
    \/ StartRun(<<"inbox">>) \/ Abort \/ FinishRun \/ ClearHistory
    \/ \E f \in Inbox, id \in TaskIds :
         \/ Choose(f, id)
         \/ \E new \in TaskIds : Merge(id, f, new)
    \/ \E id \in TaskIds : DropDuplicate(id) \/ Files(id)
    \/ \E i \in DOMAIN outcomes : Reimport(i) \/ RemoveEntry(i)

HistorySpec == HistoryInit /\ [][HistoryNext]_historyVars

-----------------------------------------------------------------------------
(* The history tells the last outcome of each folder: no two rows say that  *)
(* it was skipped, and none says so once the same run or a later one has    *)
(* imported what is there (_drop_superseded() and the filter of             *)
(* record_run(), over every order of the reports).                          *)
LastOutcome ==
    \A i, j \in DOMAIN outcomes : i # j /\ outcomes[j].event = "skipped" =>
        /\ outcomes[i].event = "skipped" => outcomes[i].path # outcomes[j].path
        /\ outcomes[i].event = "imported" /\ outcomes[j].run <= outcomes[i].run => ~Below(outcomes[j].path, outcomes[i].path)

(* No run reports as already in the library an album that it imported,      *)
(* alone or merged into another task (_on_files() and _on_exit()).          *)
ReportsAgree ==
    \A r, s \in ToSet(results) :
        r.event = "imported" /\ s.cause = "duplicate" => ~(s.folders \subseteq r.folders)

HistoryHolds == LastOutcome /\ ReportsAgree
=============================================================================
