------------------------------- MODULE MCLive -------------------------------
(* Background work that must come to its end: the folder watcher, the       *)
(* podcast downloads and the transcodes.  They share no state, so each      *)
(* behaviour is of one of them (`subject`), and the fairness is that of     *)
(* the one it is about.                                                     *)
EXTENDS ImportWatcher, PodcastDownloads, Transcodes

VARIABLE subject

liveVars == <<subject, stepVars, vars, transVars>>

MCPinned == <<"music", "torrents">>

LiveInit ==
    /\ subject \in {"watcher", "downloads", "transcodes"}
    /\ WatchInit /\ (subject # "watcher" => watched = {})
    /\ Init /\ TransInit

LiveNext ==
    \/ subject = "watcher" /\ WatchNext /\ UNCHANGED <<subject, vars, transVars>>
    \/ subject = "downloads" /\ Next /\ UNCHANGED <<subject, stepVars, transVars>>
    \/ subject = "transcodes" /\ TransNext /\ UNCHANGED <<subject, stepVars, vars>>

(* As in WatchSpec.                                                         *)
WatcherFair ==
    /\ WF_stepVars(subject = "watcher" /\ Watcher) /\ WF_stepVars(subject = "watcher" /\ Session)
    /\ SF_stepVars(subject = "watcher" /\ TickAsks)
    /\ \A p \in PinnedPaths : WF_stepVars(subject = "watcher" /\ Settle(p))

(* As in Fairness.                                                          *)
DownloadsFair ==
    /\ \A t \in Threads : WF_vars(subject = "downloads" /\ Handler(t))
    /\ \A a \in Threads \cup {Maintenance} : WF_vars(subject = "downloads" /\ Background(a))
    /\ \A w \in Workers : WF_vars(subject = "downloads" /\ TakeJob(w))
    /\ \A a \in Threads \cup Workers : WF_vars(subject = "downloads" /\ Fetch(a))
    /\ WF_vars(subject = "downloads" /\ Maintain) /\ WF_vars(subject = "downloads" /\ Serve)
    /\ SF_vars(subject = "downloads" /\ Resume)

(* As in TransFairness.                                                     *)
TranscodesFair ==
    \A r \in StreamRequests : WF_transVars(subject = "transcodes" /\ Proceeds(r))

LiveSpec ==
    LiveInit /\ [][LiveNext]_liveVars /\ WatcherFair /\ DownloadsFair /\ TranscodesFair
=============================================================================
