---------------------------- MODULE ImportProofs ----------------------------
(***************************************************************************)
(* The import session, for any folders, requests and bounds: one import at *)
(* a time, answers for the run they were meant for, every question shown,  *)
(* no queue left alone; and it implements ImportQueue.                     *)
(***************************************************************************)
EXTENDS ImportSession, SequenceTheorems, FiniteSetTheorems, TLAPS

-----------------------------------------------------------------------------
(***************************************************************************)
(* Proofs, for any number of folders and requests, that the import session *)
(* runs one import at a time, keeps an admin's answers away from any other *)
(* import, shows every question beets waits on, and never leaves a queued  *)
(* folder without a thread that will start it.                             *)
(***************************************************************************)

(* What _finish() stored as the path of the run it ends is a folder.        *)
CreditKnown ==
    \A r \in RunIds : runs[r].pump \in {"finished", "recorded"} => runs[r].credit \in Paths

(* The inductive invariant. *)
IInv ==
    /\ TypeOK
    /\ CreditKnown
    /\ OneImport
    /\ TerminalOfTheRun
    /\ PromptVisible
    /\ QueueServed

(* A step of one child or pump replaces one entry of the run table.         *)
LEMMA ReplaceRun ==
    ASSUME NEW s \in Seq(Run), NEW r \in 1..Len(s), NEW e \in Run,
           NEW t, t = [s EXCEPT ![r] = e]
    PROVE  /\ t \in Seq(Run)
           /\ Len(t) = Len(s)
           /\ t[r] = e
           /\ \A q \in 1..Len(s) : q # r => t[q] = s[q]
  <1>1. t \in Seq(Run) /\ Len(t) = Len(s)
    BY ExceptSeq
  <1>2. DOMAIN s = 1..Len(s)
    BY LenProperties
  <1> QED
    BY <1>1, <1>2

(* Starting an import adds one entry.                                       *)
LEMMA AddRun ==
    ASSUME NEW s \in Seq(Run), NEW path \in Paths, NEW quiet \in BOOLEAN,
           NEW t, t = Append(s, NewRun(path, quiet))
    PROVE  /\ t \in Seq(Run)
           /\ Len(t) = Len(s) + 1
           /\ t[Len(t)] = NewRun(path, quiet)
           /\ \A q \in 1..Len(s) : t[q] = s[q]
  <1>1. NewRun(path, quiet) \in Run
    BY BoundsAssumption DEF NewRun, Run, PumpStates
  <1> QED
    BY <1>1, AppendProperties

(* ... when nothing runs, whatever the caller does to the queue and to the  *)
(* pump it runs in.                                                         *)
LEMMA LaunchKeeps ==
    ASSUME IInv, NEW path \in Paths, NEW quiet \in BOOLEAN, NEW rs \in Seq(Run),
           Len(rs) = Len(runs),
           \A q \in RunIds : rs[q].child = runs[q].child /\ rs[q].pump \notin Unfinished
                             /\ (rs[q].pump = "dead" <=> runs[q].pump = "dead")
                             /\ (rs[q].pump \in {"finished", "recorded"} => rs[q].credit \in Paths),
           Launch(path, quiet, rs),
           queue' \in Seq(Entry), UNCHANGED history, asked' \in 0..MaxAsked
    PROVE  IInv'
  <1> DEFINE n == Len(rs) + 1
  <1>1. /\ runs' \in Seq(Run) /\ Len(runs') = n /\ runs'[n] = NewRun(path, quiet)
        /\ \A q \in 1..Len(rs) : runs'[q] = rs[q]
    BY AddRun DEF Launch
  <1>2. /\ state' = "running" /\ current' = path /\ fd' = n /\ results' = {}
        /\ ~IsRunning
    BY DEF Launch
  <1>3. /\ NewRun(path, quiet).child = "busy" /\ NewRun(path, quiet).pump = "opening"
        /\ NewRun(path, quiet).path = path
    BY DEF NewRun
  <1>4. Len(rs) \in Nat
    BY LenProperties
  <1>5. TypeOK'
    BY <1>1, <1>2, <1>4 DEF IInv, TypeOK, States
  <1>6. CreditKnown'
    BY <1>1, <1>3, <1>4 DEF CreditKnown, RunIds
  <1>7. OneImport'
    BY <1>1, <1>2, <1>3, <1>4 DEF IInv, OneImport, RunIds, Unfinished, IsRunning
  <1>8. TerminalOfTheRun'
    BY <1>1, <1>2, <1>3, <1>4 DEF TerminalOfTheRun, IsRunning
  <1>9. PromptVisible'
    <2>1. \A q \in RunIds' : runs'[q].child # "waiting"
      BY <1>1, <1>2, <1>3, <1>4 DEF IInv, OneImport, RunIds
    <2> QED
      BY <2>1 DEF PromptVisible
  <1>10. QueueServed'
    BY <1>1, <1>3, <1>4 DEF QueueServed, RunIds, Live, PumpStates
  <1> QED
    BY <1>5, <1>6, <1>7, <1>8, <1>9, <1>10 DEF IInv

(* A request that start() refuses.                                          *)
LEMMA RefuseKeeps ==
    ASSUME IInv, Refuse, UNCHANGED <<runs, history>>, asked' \in 0..MaxAsked,
           queue' = queue \/ queue' = << >>
    PROVE  IInv'
  <1>1. UNCHANGED <<state, current, fd, runs, history>> /\ results' \in {results, {}}
    BY DEF Refuse
  <1>2. TypeOK'
    <2>1. queue' \in Seq(Entry)
      BY EmptySeq DEF IInv, TypeOK
    <2> QED
      BY <1>1, <2>1 DEF IInv, TypeOK
  <1>3. CreditKnown'
    BY <1>1 DEF IInv, CreditKnown, RunIds
  <1>4. OneImport'
    BY <1>1 DEF IInv, OneImport, RunIds, IsRunning
  <1>5. TerminalOfTheRun'
    BY <1>1 DEF IInv, TerminalOfTheRun, IsRunning
  <1>6. PromptVisible'
    BY <1>1 DEF IInv, PromptVisible, RunIds
  <1>7. QueueServed'
    BY <1>1 DEF IInv, QueueServed, NoPumpDied, RunIds
  <1> QED
    BY <1>2, <1>3, <1>4, <1>5, <1>6, <1>7 DEF IInv

(* A request that is queued: the import it waits for has a pump thread.     *)
LEMMA WaitKeeps ==
    ASSUME IInv, IsRunning, queue' \in Seq(Entry), asked' \in 0..MaxAsked,
           UNCHANGED <<state, current, fd, runs, results, history>>
    PROVE  IInv'
  <1>1. TypeOK'
    BY DEF IInv, TypeOK
  <1>2. CreditKnown'
    BY DEF IInv, CreditKnown, RunIds
  <1>3. OneImport'
    BY DEF IInv, OneImport, RunIds, IsRunning
  <1>4. TerminalOfTheRun'
    BY DEF IInv, TerminalOfTheRun, IsRunning
  <1>5. PromptVisible'
    BY DEF IInv, PromptVisible, RunIds
  <1>6. QueueServed'
    <2>1. Len(runs) \in RunIds /\ runs[Len(runs)].pump \in Unfinished \cup {"dead"}
      BY DEF IInv, OneImport, RunIds, TypeOK
    <2> QED
      BY <2>1 DEF QueueServed, NoPumpDied, RunIds, Unfinished, Live, PumpStates
  <1> QED
    BY <1>1, <1>2, <1>3, <1>4, <1>5, <1>6 DEF IInv

(* An import that is not over is the last one, and the session is running.  *)
LEMMA LastOne ==
    ASSUME IInv, NEW r \in RunIds,
           runs[r].child # "exited" \/ runs[r].pump \in Unfinished
    PROVE  r = Len(runs) /\ IsRunning
  BY LenProperties DEF IInv, OneImport, RunIds, TypeOK

LEMMA InitIInv == Init => IInv
  <1> SUFFICES ASSUME Init PROVE IInv
    OBVIOUS
  <1>1. RunIds = {}
    BY DEF Init, RunIds
  <1>2. TypeOK
    BY BoundsAssumption DEF Init, TypeOK, States
  <1> QED
    BY <1>1, <1>2 DEF IInv, Init, CreditKnown, OneImport, TerminalOfTheRun,
                      PromptVisible, QueueServed, IsRunning

LEMMA RequestsKeep == IInv /\ Requests => IInv'
  <1> SUFFICES ASSUME IInv, Requests PROVE IInv'
    OBVIOUS
  <1> USE DEF Ask
  <1>1. /\ queue \in Seq(Entry) /\ asked \in Nat /\ runs \in Seq(Run) /\ MaxAsked \in Nat
        /\ Pinned \in Seq(Paths) /\ Pinned # << >> /\ Pinned[1] \in Paths
        /\ Len(Pinned) \in Nat
    BY BoundsAssumption, PinnedAssumption DEF IInv, TypeOK
  <1>2. ~IsRunning => \A q \in RunIds :
            /\ runs[q].pump \notin Unfinished
            /\ runs[q].pump \in {"finished", "recorded"} => runs[q].credit \in Paths
    BY DEF IInv, OneImport, CreditKnown
  <1>3. ASSUME NEW p \in Paths, NEW quiet \in BOOLEAN, Launch(p, quiet, runs),
               queue' \in Seq(Entry), UNCHANGED history, asked' \in 0..MaxAsked
        PROVE  IInv'
    BY <1>1, <1>2, <1>3, LaunchKeeps DEF Launch
  <1>4. \A p \in Paths, quiet \in BOOLEAN :
          Append(queue, [path |-> p, quiet |-> quiet]) \in Seq(Entry)
    <2>1. \A p \in Paths, quiet \in BOOLEAN : [path |-> p, quiet |-> quiet] \in Entry
      BY DEF Entry
    <2> QED
      BY <1>1, <2>1, AppendProperties
  <1>5. CASE \E p \in Paths : Start(p)
    <2> PICK p \in Paths : Start(p)
      BY <1>5
    <2>1. asked' \in 0..MaxAsked /\ UNCHANGED <<queue, history>>
      BY <1>1 DEF Start
    <2>2. CASE Launch(p, FALSE, runs)
      BY <1>1, <1>3, <2>1, <2>2
    <2>3. CASE Refuse /\ UNCHANGED runs
      BY <2>1, <2>3, RefuseKeeps
    <2> QED
      BY <2>2, <2>3 DEF Start
  <1>6. CASE \E p \in Paths : EnqueuePinned(p)
    <2> PICK p \in Paths : EnqueuePinned(p)
      BY <1>6
    <2>1. asked' \in 0..MaxAsked
      BY <1>1 DEF EnqueuePinned
    <2>2. CASE IsRunning
      <3>1. queue' \in Seq(Entry)
        BY <1>1, <1>4, <2>2 DEF EnqueuePinned, Launch
      <3> QED
        BY <2>1, <2>2, <3>1, WaitKeeps DEF EnqueuePinned, Launch
    <2>3. CASE Launch(p, TRUE, runs) /\ UNCHANGED <<queue, history>>
      BY <1>1, <1>3, <2>1, <2>3
    <2>4. CASE Refuse /\ UNCHANGED <<runs, queue, history>>
      BY <2>1, <2>4, RefuseKeeps
    <2> QED
      BY <2>2, <2>3, <2>4 DEF EnqueuePinned
  <1>7. CASE \E p \in Paths, quiet \in BOOLEAN : Enqueue(p, quiet)
    <2> PICK p \in Paths, quiet \in BOOLEAN : Enqueue(p, quiet)
      BY <1>7
    <2>1. asked' \in 0..MaxAsked
      BY <1>1 DEF Enqueue
    <2>2. CASE IsRunning
      <3>1. queue' \in Seq(Entry)
        BY <1>1, <1>4, <2>2 DEF Enqueue, Launch
      <3> QED
        BY <2>1, <2>2, <3>1, WaitKeeps DEF Enqueue, Launch
    <2>3. CASE Launch(p, quiet, runs) /\ UNCHANGED <<queue, history>>
      BY <1>1, <1>3, <2>1, <2>3
    <2>4. CASE Refuse /\ UNCHANGED <<runs, queue, history>>
      BY <2>1, <2>4, RefuseKeeps
    <2> QED
      BY <2>2, <2>3, <2>4 DEF Enqueue
  <1>8. CASE StartPinned
    <2>1. asked' \in 0..MaxAsked
      BY <1>1, <1>8 DEF StartPinned
    <2>2. CASE Launch(Pinned[1], TRUE, runs)
               /\ queue' = [i \in 1..Len(Pinned) - 1 |->
                               [path |-> Pinned[i + 1], quiet |-> TRUE]]
      <3>1. \A i \in 1..Len(Pinned) - 1 : Pinned[i + 1] \in Paths
        BY <1>1
      <3>2. queue' \in Seq(Entry)
        BY <1>1, <2>2, <3>1, IsASeq DEF Entry
      <3> QED
        BY <1>1, <1>3, <1>8, <2>1, <2>2, <3>2 DEF StartPinned
    <2> QED
      BY <1>8, <2>1, <2>2, RefuseKeeps DEF StartPinned
  <1>9. CASE SendInput
    <2> DEFINE e == [runs[fd] EXCEPT !.tty = @ + 1]
    <2>1. fd \in RunIds /\ fd = Len(runs) /\ runs[fd].pump \in {"opening", "reading", "dead"}
      BY <1>9 DEF SendInput, IInv, TypeOK, RunIds, TerminalOfTheRun
    <2>0. runs[fd] \in Run
      BY <1>1, <2>1 DEF RunIds
    <2>2. e \in Run
      <3>1. runs[fd].tty + 1 \in 0..MaxLines
        BY <1>9, <2>0, BoundsAssumption DEF SendInput, Run
      <3> QED
        BY <2>0, <3>1 DEF Run
    <2>3. runs' = [runs EXCEPT ![fd] = e]
      BY <1>9 DEF SendInput
    <2>4. /\ runs' \in Seq(Run) /\ Len(runs') = Len(runs) /\ RunIds' = RunIds
          /\ runs'[fd] = e /\ \A q \in RunIds : q # fd => runs'[q] = runs[q]
      BY <1>1, <2>1, <2>2, <2>3, ReplaceRun DEF RunIds
    <2>5. /\ e.tty > 0 /\ e.pump = runs[fd].pump /\ e.child = runs[fd].child
          /\ e.path = runs[fd].path /\ e.credit = runs[fd].credit
      BY <2>0, BoundsAssumption DEF Run
    <2> HIDE DEF e
    <2>6. state' = "running" /\ UNCHANGED <<current, fd, queue, results, history, asked>>
          /\ IsRunning /\ IsRunning'
      BY <1>9 DEF SendInput, IsRunning
    <2>7. TypeOK'
      BY <2>4, <2>6 DEF IInv, TypeOK, States
    <2>8. CreditKnown'
      BY <2>4, <2>5, <2>6 DEF IInv, CreditKnown
    <2>9. OneImport'
      BY <2>1, <2>4, <2>5, <2>6 DEF IInv, OneImport
    <2>10. TerminalOfTheRun'
      BY <2>1, <2>4, <2>5, <2>6 DEF TerminalOfTheRun
    <2>11. PromptVisible'
      <3>1. \A q \in RunIds : q # fd => runs[q].child = "exited"
        BY <1>1, <2>1, LenProperties DEF IInv, OneImport, RunIds
      <3> QED
        BY <2>4, <2>5, <3>1 DEF PromptVisible
    <2>12. QueueServed'
      BY <2>1, <2>4, <2>5, <2>6 DEF IInv, QueueServed, NoPumpDied
    <2> QED
      BY <2>7, <2>8, <2>9, <2>10, <2>11, <2>12 DEF IInv
  <1> QED
    BY <1>5, <1>6, <1>7, <1>8, <1>9 DEF Requests

(* A step of the import that runs, or of its pump before it is over.        *)
LEMMA RunningStep ==
    ASSUME IInv, IsRunning, NEW r \in RunIds, r = Len(runs), NEW e \in Run,
           runs' = [runs EXCEPT ![r] = e],
           e.path = runs[r].path,
           e.pump \in Unfinished \cup {"dead"},
           runs[r].pump = "dead" => e.pump = "dead",
           state' \in {"running", "needs_input"},
           \/ fd' = 0
           \/ fd' = fd /\ (fd # 0 => e.pump \in {"opening", "reading", "dead"}),
           /\ e.child = "waiting" /\ e.tty = 0 /\ ~e.unread
           /\ e.pump \in {"opening", "reading"}
           => state' = "needs_input",
           UNCHANGED <<current, queue, results, history, asked>>
    PROVE  IInv'
  <1>1. /\ runs' \in Seq(Run) /\ Len(runs') = Len(runs) /\ RunIds' = RunIds
        /\ runs'[r] = e /\ \A q \in RunIds : q # r => runs'[q] = runs[q]
    BY ReplaceRun DEF IInv, TypeOK, RunIds
  <1>2. TypeOK'
    BY <1>1 DEF IInv, TypeOK, States
  <1>3. CreditKnown'
    BY <1>1 DEF IInv, CreditKnown, Unfinished
  <1>4. OneImport'
    BY <1>1 DEF IInv, OneImport, IsRunning, RunIds
  <1>5. TerminalOfTheRun'
    BY <1>1 DEF IInv, TerminalOfTheRun, IsRunning
  <1>6. PromptVisible'
    <2>1. \A q \in RunIds : q # r => runs[q].child = "exited"
      BY LenProperties DEF IInv, OneImport, RunIds, TypeOK
    <2> QED
      BY <1>1, <2>1 DEF PromptVisible
  <1>7. QueueServed'
    BY <1>1 DEF QueueServed, NoPumpDied, Unfinished, Live, PumpStates
  <1> QED
    BY <1>2, <1>3, <1>4, <1>5, <1>6, <1>7 DEF IInv

LEMMA ChildKeeps == ASSUME IInv, NEW r \in RunIds, Child(r) PROVE IInv'
  <1>1. /\ runs[r] \in Run /\ runs \in Seq(Run) /\ r = Len(runs) /\ IsRunning
        /\ runs[r].pump \in Unfinished \cup {"dead"} /\ state \in {"running", "needs_input"}
        /\ fd # 0 => runs[r].pump \in {"opening", "reading", "dead"}
    <2>1. runs[r] \in Run /\ runs \in Seq(Run)
      BY DEF IInv, TypeOK, RunIds
    <2>2. runs[r].child # "exited"
      BY DEF Child, ChildPrompts, ChildWarns, ChildReads, ChildReports, ChildExits
    <2>3. r = Len(runs) /\ IsRunning
      BY <2>2, LastOne
    <2> QED
      BY <2>1, <2>3 DEF IInv, OneImport, IsRunning, TerminalOfTheRun
  <1>2. CASE ChildPrompts(r)
    <2> DEFINE e == [runs[r] EXCEPT !.child = "waiting", !.unread = TRUE]
    <2>1. e \in Run /\ e.path = runs[r].path /\ e.pump = runs[r].pump /\ e.unread
      BY <1>1 DEF Run
    <2>2. /\ runs' = [runs EXCEPT ![r] = e]
          /\ UNCHANGED <<state, current, fd, queue, results, history, asked>>
      BY <1>2 DEF ChildPrompts
    <2> HIDE DEF e
    <2> QED
      BY <1>1, <2>1, <2>2, RunningStep
  <1>3. CASE ChildWarns(r)
    <2> DEFINE e == [runs[r] EXCEPT !.unread = TRUE]
    <2>1. e \in Run /\ e.path = runs[r].path /\ e.pump = runs[r].pump /\ e.unread
      BY <1>1 DEF Run
    <2>2. /\ runs' = [runs EXCEPT ![r] = e]
          /\ UNCHANGED <<state, current, fd, queue, results, history, asked>>
      BY <1>3 DEF ChildWarns
    <2> HIDE DEF e
    <2> QED
      BY <1>1, <2>1, <2>2, RunningStep
  <1>4. CASE ChildReads(r)
    <2> DEFINE e == [runs[r] EXCEPT !.child = "busy", !.tty = @ - 1]
    <2>0. runs[r].tty - 1 \in 0..MaxLines
      BY <1>1, <1>4, BoundsAssumption DEF Run, ChildReads
    <2>1. e \in Run /\ e.path = runs[r].path /\ e.pump = runs[r].pump /\ e.child = "busy"
      BY <1>1, <2>0 DEF Run
    <2>2. /\ runs' = [runs EXCEPT ![r] = e]
          /\ UNCHANGED <<state, current, fd, queue, results, history, asked>>
      BY <1>4 DEF ChildReads
    <2> HIDE DEF e
    <2> QED
      BY <1>1, <2>1, <2>2, RunningStep
  <1>5. CASE ChildReports(r)
    <2>1. results' \subseteq 1..Len(runs) /\ UNCHANGED <<state, current, fd, queue, runs, history, asked>>
      BY <1>5 DEF ChildReports, IInv, TypeOK, RunIds
    <2>2. TypeOK'
      BY <2>1 DEF IInv, TypeOK
    <2>3. CreditKnown' /\ OneImport' /\ TerminalOfTheRun' /\ PromptVisible'
      BY <2>1 DEF IInv, CreditKnown, OneImport, TerminalOfTheRun, PromptVisible, RunIds, IsRunning
    <2>4. QueueServed'
      BY <2>1 DEF IInv, QueueServed, NoPumpDied, RunIds
    <2> QED
      BY <2>2, <2>3, <2>4 DEF IInv
  <1>6. CASE ChildExits(r)
    <2> DEFINE e == [runs[r] EXCEPT !.child = "exited"]
    <2>1. e \in Run /\ e.path = runs[r].path /\ e.pump = runs[r].pump /\ e.child = "exited"
      BY <1>1 DEF Run
    <2>2. /\ runs' = [runs EXCEPT ![r] = e]
          /\ UNCHANGED <<state, current, fd, queue, results, history, asked>>
      BY <1>6 DEF ChildExits
    <2> HIDE DEF e
    <2> QED
      BY <1>1, <2>1, <2>2, RunningStep
  <1> QED
    BY <1>2, <1>3, <1>4, <1>5, <1>6 DEF Child

(* The steps of a pump before the session is marked over.                   *)
LEMMA PumpRunsKeeps ==
    ASSUME IInv, NEW r \in RunIds,
           \/ PumpOpens(r) \/ PumpReadsPrompt(r) \/ PumpSeesEnd(r) \/ PumpLogFails(r)
    PROVE  IInv'
  <1>1. /\ runs[r] \in Run /\ runs \in Seq(Run) /\ r = Len(runs) /\ IsRunning
        /\ runs[r].pump \in Unfinished /\ state \in {"running", "needs_input"}
        /\ fd # 0 => fd = r
    <2>1. runs[r] \in Run /\ runs \in Seq(Run)
      BY DEF IInv, TypeOK, RunIds
    <2>2. runs[r].pump \in Unfinished
      BY DEF PumpOpens, PumpReadsPrompt, PumpSeesEnd, PumpLogFails, PumpCloses, Unfinished
    <2>3. r = Len(runs) /\ IsRunning
      BY <2>2, LastOne
    <2> QED
      BY <2>1, <2>2, <2>3 DEF IInv, IsRunning, TerminalOfTheRun
  <1>2. CASE PumpOpens(r)
    <2> PICK next \in {"reading", "dead"} : runs' = [runs EXCEPT ![r].pump = next]
      BY <1>2 DEF PumpOpens
    <2> DEFINE e == [runs[r] EXCEPT !.pump = next]
    <2>1. /\ e \in Run /\ e.path = runs[r].path /\ e.pump = next /\ e.child = runs[r].child
          /\ e.tty = runs[r].tty /\ e.unread = runs[r].unread
      BY <1>1 DEF Run, PumpStates
    <2>2. /\ runs' = [runs EXCEPT ![r] = e] /\ runs[r].pump = "opening"
          /\ UNCHANGED <<state, current, fd, queue, results, history, asked>>
      BY <1>2 DEF PumpOpens
    <2>3. /\ runs[r].child = "waiting" /\ runs[r].tty = 0 /\ ~runs[r].unread
          => state = "needs_input"
      BY <2>2 DEF IInv, PromptVisible
    <2> HIDE DEF e
    <2> QED
      BY <1>1, <2>1, <2>2, <2>3, RunningStep, ZenonT(40) DEF Unfinished
  <1>3. CASE PumpReadsPrompt(r)
    <2> DEFINE e == [runs[r] EXCEPT !.unread = FALSE]
    <2>1. e \in Run /\ e.path = runs[r].path /\ e.pump = runs[r].pump
      BY <1>1 DEF Run
    <2>2. /\ runs' = [runs EXCEPT ![r] = e] /\ runs[r].pump = "reading"
          /\ state' = "needs_input"
          /\ UNCHANGED <<current, fd, queue, results, history, asked>>
      BY <1>1, <1>3 DEF PumpReadsPrompt
    <2> HIDE DEF e
    <2> QED
      BY <1>1, <2>1, <2>2, RunningStep
  <1>4. CASE PumpCloses(r)
    <2> DEFINE e == [runs[r] EXCEPT !.pump = "closed", !.tty = 0, !.unread = FALSE]
    <2>0. 0 \in 0..MaxLines /\ "closed" \in PumpStates
      BY BoundsAssumption DEF PumpStates
    <2>1. e \in Run /\ e.path = runs[r].path /\ e.pump = "closed"
      BY <1>1, <2>0 DEF Run
    <2>2. /\ runs' = [runs EXCEPT ![r] = e] /\ runs[r].pump = "reading" /\ fd' = 0
          /\ UNCHANGED <<state, current, queue, results, history, asked>>
      BY <1>1, <1>4 DEF PumpCloses
    <2> HIDE DEF e
    <2> QED
      BY <1>1, <2>1, <2>2, RunningStep DEF Unfinished
  <1> QED
    BY <1>2, <1>3, <1>4 DEF PumpSeesEnd, PumpLogFails

(* The step that marks the session over, and those after it.                *)
LEMMA PumpFinishesKeeps == ASSUME IInv, NEW r \in RunIds, PumpFinishes(r) PROVE IInv'
  <1>1. /\ runs[r] \in Run /\ runs \in Seq(Run) /\ runs[r].pump = "closed"
        /\ runs[r].child = "exited" /\ r = Len(runs) /\ IsRunning
    <2>1. runs[r] \in Run /\ runs \in Seq(Run)
      BY DEF IInv, TypeOK, RunIds
    <2>2. runs[r].pump = "closed" /\ runs[r].child = "exited"
      BY DEF PumpFinishes
    <2> QED
      BY <2>1, <2>2, LastOne DEF Unfinished
  <1>2. current \in Paths /\ fd = 0
    BY <1>1 DEF IInv, OneImport, TerminalOfTheRun, Run
  <1>0. PICK next \in {"finished", "dead"} :
        runs' = [runs EXCEPT ![r].pump = next, ![r].credit = current]
    BY DEF PumpFinishes
  <1> DEFINE e == [runs[r] EXCEPT !.pump = next, !.credit = current]
  <1>3. e \in Run /\ e.pump = next /\ e.credit = current /\ e.child = "exited"
    BY <1>1, <1>2 DEF Run, PumpStates
  <1>4. /\ runs' = [runs EXCEPT ![r] = e] /\ state' \in {"completed", "failed"}
        /\ UNCHANGED <<current, fd, queue, results, history, asked>>
    BY <1>0 DEF PumpFinishes
  <1> HIDE DEF e
  <1>5. /\ runs' \in Seq(Run) /\ Len(runs') = Len(runs) /\ RunIds' = RunIds
        /\ runs'[r] = e /\ \A q \in RunIds : q # r => runs'[q] = runs[q]
    BY <1>1, <1>3, <1>4, ReplaceRun DEF RunIds
  <1>6. TypeOK'
    BY <1>4, <1>5 DEF IInv, TypeOK, States
  <1>7. CreditKnown'
    BY <1>2, <1>3, <1>5 DEF IInv, CreditKnown
  <1>8. OneImport'
    <2>1. \A q \in RunIds : q # r => /\ runs[q].child = "exited"
                                     /\ runs[q].pump \notin Unfinished
      BY <1>1, LenProperties DEF IInv, OneImport, RunIds
    <2>2. \A q \in RunIds' : runs'[q].child = "exited" /\ runs'[q].pump \notin Unfinished
      BY <1>3, <1>5, <2>1 DEF Unfinished
    <2> QED
      BY <1>4, <2>2 DEF OneImport, IsRunning
  <1>9. TerminalOfTheRun'
    BY <1>2, <1>4 DEF TerminalOfTheRun
  <1>10. PromptVisible'
    BY <1>1, <1>3, <1>5, LenProperties DEF IInv, OneImport, PromptVisible, RunIds
  <1>11. QueueServed'
    BY <1>3, <1>5 DEF QueueServed, NoPumpDied, Live, PumpStates
  <1> QED
    BY <1>6, <1>7, <1>8, <1>9, <1>10, <1>11 DEF IInv

LEMMA PumpRecordsKeeps == ASSUME IInv, NEW r \in RunIds, PumpRecords(r) PROVE IInv'
  <1> DEFINE e == [runs[r] EXCEPT !.pump = "recorded"]
  <1>1. /\ runs[r] \in Run /\ runs \in Seq(Run) /\ runs[r].pump = "finished"
        /\ runs[r].credit \in Paths /\ results \subseteq Nat
    BY LenProperties DEF PumpRecords, IInv, TypeOK, RunIds, CreditKnown
  <1>2. /\ e \in Run /\ e.pump = "recorded" /\ e.credit = runs[r].credit
        /\ e.child = runs[r].child /\ e.path = runs[r].path
    BY <1>1 DEF Run, PumpStates
  <1>3. /\ runs' = [runs EXCEPT ![r] = e]
        /\ UNCHANGED <<state, current, fd, queue, results, asked>>
    BY DEF PumpRecords
  <1>4. history' \subseteq Row
    BY <1>1 DEF PumpRecords, IInv, TypeOK, Row
  <1> HIDE DEF e
  <1>5. /\ runs' \in Seq(Run) /\ Len(runs') = Len(runs) /\ RunIds' = RunIds
        /\ runs'[r] = e /\ \A q \in RunIds : q # r => runs'[q] = runs[q]
    BY <1>1, <1>2, <1>3, ReplaceRun DEF RunIds
  <1>6. TypeOK'
    BY <1>3, <1>4, <1>5 DEF IInv, TypeOK
  <1>7. CreditKnown'
    BY <1>1, <1>2, <1>5 DEF IInv, CreditKnown
  <1>8. OneImport'
    <2>1. e.pump \notin Unfinished /\ runs[r].pump \notin Unfinished \cup {"dead"}
      BY <1>1, <1>2 DEF Unfinished
    <2>2. \A q \in RunIds : /\ runs'[q].child = runs[q].child
                            /\ runs'[q].pump \in Unfinished <=> runs[q].pump \in Unfinished
      BY <1>1, <1>2, <1>5, <2>1
    <2>3. IsRunning => runs'[Len(runs)] = runs[Len(runs)] /\ Len(runs) \in RunIds
      BY <1>1, <1>5, <2>1, LenProperties DEF IInv, OneImport, RunIds
    <2>4. IsRunning' = IsRunning /\ current' = current
      BY <1>3 DEF IsRunning
    <2> HIDE DEF e
    <2> QED
      BY <1>5, <2>2, <2>3, <2>4 DEF IInv, OneImport
  <1>9. TerminalOfTheRun'
    BY <1>1, <1>3, <1>5 DEF IInv, TerminalOfTheRun, IsRunning
  <1>10. PromptVisible'
    BY <1>2, <1>3, <1>5 DEF IInv, PromptVisible
  <1>11. QueueServed'
    BY <1>2, <1>5 DEF QueueServed, NoPumpDied, Live, PumpStates
  <1> QED
    BY <1>6, <1>7, <1>8, <1>9, <1>10, <1>11 DEF IInv

LEMMA PumpAdvancesKeeps == ASSUME IInv, NEW r \in RunIds, PumpAdvances(r) PROVE IInv'
  <1> DEFINE e    == Over(runs[r])
             rest == [runs EXCEPT ![r] = e]
  <1>1. /\ runs[r] \in Run /\ runs \in Seq(Run) /\ runs[r].pump = "recorded"
        /\ queue \in Seq(Entry) /\ asked \in 0..MaxAsked
    BY DEF PumpAdvances, IInv, TypeOK, RunIds
  <1>2. /\ e \in Run /\ e.pump = "done" /\ e.child = "exited" /\ e.path = runs[r].path
    <2>1. 0 \in 0..MaxLines /\ "opening" \in PumpStates /\ "done" \in PumpStates
          /\ runs[r].path \in Paths
      BY <1>1, BoundsAssumption DEF PumpStates, Run
    <2>2. NewRun(runs[r].path, TRUE) \in Run
          /\ NewRun(runs[r].path, TRUE).path = runs[r].path
      BY <2>1 DEF NewRun, Run
    <2> QED
      BY <2>1, <2>2 DEF Over, Run
  <1>3. \/ /\ queue = << >> /\ runs' = rest
           /\ UNCHANGED <<state, current, fd, queue, results, history, asked>>
        \/ /\ queue # << >> /\ Launch(Head(queue).path, Head(queue).quiet, rest)
           /\ queue' = Tail(queue) /\ UNCHANGED <<history, asked>>
        \/ /\ queue # << >> /\ Refuse /\ runs' = rest /\ queue' = << >>
           /\ UNCHANGED <<history, asked>>
    BY DEF PumpAdvances
  <1> HIDE DEF e
  <1>4. /\ rest \in Seq(Run) /\ Len(rest) = Len(runs)
        /\ rest[r] = e /\ \A q \in RunIds : q # r => rest[q] = runs[q]
    BY <1>1, <1>2, ReplaceRun DEF RunIds
  <1> HIDE DEF rest
  <1>5. runs[r].child = "exited" /\ runs[r].pump \notin Unfinished \cup {"dead"}
        /\ e.pump \notin Unfinished \cup {"dead"}
    <2>1. runs[r].pump \notin Unfinished \cup {"dead"} /\ e.pump \notin Unfinished \cup {"dead"}
      BY <1>1, <1>2 DEF Unfinished
    <2> QED
      BY <1>1, <2>1, LenProperties DEF IInv, OneImport, RunIds
  <1>6. CASE /\ queue # << >> /\ Launch(Head(queue).path, Head(queue).quiet, rest)
             /\ queue' = Tail(queue) /\ UNCHANGED <<history, asked>>
    <2>1. /\ Head(queue).path \in Paths /\ Head(queue).quiet \in BOOLEAN
          /\ queue' \in Seq(Entry)
      <3>1. Head(queue) \in Entry /\ Tail(queue) \in Seq(Entry)
        BY <1>1, <1>6, HeadTailProperties
      <3> QED
        BY <1>6, <3>1 DEF Entry
    <2>2. ~IsRunning
      BY <1>6 DEF Launch
    <2>3. \A q \in RunIds :
            /\ rest[q].child = runs[q].child /\ rest[q].pump \notin Unfinished
            /\ rest[q].pump = "dead" <=> runs[q].pump = "dead"
            /\ rest[q].pump \in {"finished", "recorded"} => rest[q].credit \in Paths
      BY <1>1, <1>2, <1>4, <1>5, <2>2 DEF IInv, OneImport, CreditKnown
    <2> QED
      BY <1>1, <1>4, <1>6, <2>1, <2>3, LaunchKeeps
  <1>7. CASE /\ runs' = rest /\ queue' = << >> /\ results' \in {results, {}}
             /\ UNCHANGED <<state, current, fd, history, asked>>
    <2>1. RunIds' = RunIds
      BY <1>4, <1>7 DEF RunIds
    <2>2. TypeOK'
      <3>1. << >> \in Seq(Entry)
        BY EmptySeq
      <3> QED
        BY <1>4, <1>7, <3>1 DEF IInv, TypeOK
    <2>3. CreditKnown'
      BY <1>2, <1>4, <1>7, <2>1 DEF IInv, CreditKnown
    <2>4. OneImport'
      <3>1. \A q \in RunIds : /\ runs'[q].child = runs[q].child
                              /\ runs'[q].pump \in Unfinished <=> runs[q].pump \in Unfinished
        BY <1>2, <1>4, <1>5, <1>7
      <3>2. IsRunning => runs'[Len(runs)] = runs[Len(runs)] /\ Len(runs) \in RunIds
        BY <1>1, <1>4, <1>5, <1>7, LenProperties DEF IInv, OneImport, RunIds
      <3>3. IsRunning' = IsRunning /\ current' = current /\ Len(runs') = Len(runs)
        BY <1>4, <1>7 DEF IsRunning
      <3> QED
        BY <2>1, <3>1, <3>2, <3>3 DEF IInv, OneImport
    <2>5. TerminalOfTheRun'
      BY <1>1, <1>4, <1>7 DEF IInv, TypeOK, TerminalOfTheRun, IsRunning, RunIds
    <2>6. PromptVisible'
      BY <1>2, <1>4, <1>7, <2>1 DEF IInv, PromptVisible
    <2>7. QueueServed'
      BY <1>7 DEF QueueServed
    <2> QED
      BY <2>2, <2>3, <2>4, <2>5, <2>6, <2>7 DEF IInv
  <1> QED
    BY <1>3, <1>6, <1>7 DEF Refuse

LEMMA NextKeeps == IInv /\ [Next]_vars => IInv'
  <1> SUFFICES ASSUME IInv, [Next]_vars PROVE IInv'
    OBVIOUS
  <1>1. CASE Requests
    BY <1>1, RequestsKeep
  <1>2. CASE \E r \in RunIds : Child(r)
    BY <1>2, ChildKeeps
  <1>3. CASE \E r \in RunIds : Pump(r)
    BY <1>3, PumpRunsKeeps, PumpFinishesKeeps, PumpRecordsKeeps, PumpAdvancesKeeps DEF Pump
  <1>4. CASE UNCHANGED vars
    BY <1>4 DEF vars, IInv, TypeOK, CreditKnown, OneImport, TerminalOfTheRun, PromptVisible,
                QueueServed, NoPumpDied, RunIds, IsRunning
  <1> QED
    BY <1>1, <1>2, <1>3, <1>4 DEF Next

THEOREM Invariance == Spec => []IInv
  BY InitIInv, NextKeeps, PTL DEF Spec

(* The session's variables keep their types.                                *)
THEOREM TypeCorrect == Spec => []TypeOK
  <1>1. IInv => TypeOK
    BY DEF IInv
  <1> QED
    BY <1>1, Invariance, PTL

(* At most one `beet import` runs, whoever asks for imports and whenever a  *)
(* pump thread dies: start()'s refusal under the lock is enough.            *)
THEOREM OneImportAtATime == Spec => []OneImport
  <1>1. IInv => OneImport
    BY DEF IInv
  <1> QED
    BY <1>1, Invariance, PTL

(* send_input() can only write to the terminal of the running import.       *)
THEOREM AnswersReachTheRun == Spec => []TerminalOfTheRun
  <1>1. IInv => TerminalOfTheRun
    BY DEF IInv
  <1> QED
    BY <1>1, Invariance, PTL

(* No interleaving of answers and output hides a question from the admin.   *)
THEOREM PromptsAreVisible == Spec => []PromptVisible
  <1>1. IInv => PromptVisible
    BY DEF IInv
  <1> QED
    BY <1>1, Invariance, PTL

(* A queued folder has a pump thread that still has to look at the queue.   *)
THEOREM QueueIsServed == Spec => []QueueServed
  <1>1. IInv => QueueServed
    BY DEF IInv
  <1> QED
    BY <1>1, Invariance, PTL

-----------------------------------------------------------------------------
(***************************************************************************)
(* The import session implements the queue its callers rely on, for any    *)
(* folders, pinned list and bounds: each of its steps is a step of         *)
(* ImportQueue, or changes nothing that module knows of.                   *)
(***************************************************************************)

(* The abstract state, as ImportSession's INSTANCE maps it.                 *)
QActive  == IF IsRunning THEN current ELSE NoPath
QWaiting == [i \in 1..Len(queue) |-> queue[i].path]
QEnding  == Cardinality(Ending)

LEMMA MappedSteps ==
    /\ \A p : QActive = NoPath /\ QActive' = p /\ QWaiting' = QWaiting /\ QEnding' = QEnding
              => Queue!Direct(p)
    /\ \A p : /\ QActive # NoPath /\ p \notin {QWaiting[i] : i \in 1..Len(QWaiting)}
              /\ QWaiting' = Append(QWaiting, p) /\ QActive' = QActive /\ QEnding' = QEnding
              => Queue!Wait(p)
    /\ /\ QActive = NoPath /\ QActive' = Pinned[1] /\ QWaiting' = Tail(Pinned) /\ QEnding' = QEnding
       => Queue!Scan
    /\ /\ QActive # NoPath /\ QActive' = NoPath /\ QEnding' = QEnding + 1 /\ QWaiting' = QWaiting
       => Queue!End
    /\ /\ QActive # NoPath /\ QActive' = NoPath /\ QEnding' = QEnding /\ QWaiting' = QWaiting
       => Queue!EndAlone
BY DEF QActive, QWaiting, QEnding, Queue!Direct, Queue!Wait, Queue!Scan, Queue!End, Queue!EndAlone,
       Queue!Begin, Queue!Busy, Queue!WaitingPaths

LEMMA MappedAdvances ==
    /\ /\ QEnding > 0 /\ QWaiting = << >> /\ QEnding' = QEnding - 1
       /\ QActive' = QActive /\ QWaiting' = QWaiting
       => Queue!NoneWaits
    /\ /\ QEnding > 0 /\ QWaiting # << >> /\ QActive = NoPath /\ QActive' = Head(QWaiting)
       /\ QWaiting' = Tail(QWaiting) /\ QEnding' = QEnding - 1
       => Queue!StartNext
    /\ /\ QEnding > 0 /\ QWaiting # << >> /\ QWaiting' = << >> /\ QEnding' = QEnding - 1
       /\ QActive' = QActive
       => Queue!DropAll
BY DEF QActive, QWaiting, QEnding, Queue!NoneWaits, Queue!StartNext, Queue!DropAll,
       Queue!Begin, Queue!Busy

LEMMA MappedStutter ==
    QActive' = QActive /\ QWaiting' = QWaiting /\ QEnding' = QEnding => UNCHANGED Queue!queueVars
BY DEF QActive, QWaiting, QEnding, Queue!queueVars

LEMMA EndingIsFinite ==
    ASSUME IInv
    PROVE  /\ IsFiniteSet(Ending) /\ QEnding \in Nat
           /\ \A r \in Ending : QEnding > 0 /\ Cardinality(Ending \ {r}) = QEnding - 1
           /\ \A r : r \notin Ending => Cardinality(Ending \cup {r}) = QEnding + 1
<1>1. Len(runs) \in Nat /\ Ending \subseteq 1..Len(runs)
  BY LenProperties DEF IInv, TypeOK, Ending, RunIds
<1>2. IsFiniteSet(1..Len(runs))
  BY <1>1, FS_Interval
<1>3. IsFiniteSet(Ending)
  BY <1>1, <1>2, FS_Subset
<1>4. QEnding \in Nat
  BY <1>3, FS_CardinalityType DEF QEnding
<1>5. \A r \in Ending : QEnding > 0 /\ Cardinality(Ending \ {r}) = QEnding - 1
  BY <1>3, <1>4, FS_RemoveElement, FS_EmptySet DEF QEnding
<1>6. \A r : r \notin Ending => Cardinality(Ending \cup {r}) = QEnding + 1
  BY <1>3, FS_AddElement DEF QEnding
<1> QED BY <1>3, <1>4, <1>5, <1>6

-----------------------------------------------------------------------------
(* The paths of a queue.                                                    *)
PathsOf(q) == [i \in 1..Len(q) |-> q[i].path]

LEMMA PathsAre ==
    ASSUME NEW q \in Seq(Entry)
    PROVE  /\ PathsOf(q) \in Seq(Paths) /\ Len(PathsOf(q)) = Len(q) /\ Len(q) \in Nat
           /\ \A i \in 1..Len(q) : PathsOf(q)[i] = q[i].path
           /\ PathsOf(q) = << >> <=> q = << >>
           /\ q # << >> => Head(PathsOf(q)) = Head(q).path
<1>1. Len(q) \in Nat /\ \A i \in 1..Len(q) : q[i].path \in Paths
  <2>1. Len(q) \in Nat /\ \A i \in 1..Len(q) : q[i] \in Entry
    BY LenProperties, ElementOfSeq
  <2> QED BY <2>1 DEF Entry
<1>2. PathsOf(q) \in Seq(Paths)
  BY <1>1, IsASeq DEF PathsOf
<1>3. Len(PathsOf(q)) = Len(q) /\ \A i \in 1..Len(q) : PathsOf(q)[i] = q[i].path
  BY <1>1 DEF PathsOf
<1>4. PathsOf(q) = << >> <=> q = << >>
  BY <1>1, <1>2, <1>3, EmptySeq
<1>5. q # << >> => Head(PathsOf(q)) = Head(q).path
  BY <1>1, <1>2, <1>3, <1>4
<1> QED BY <1>1, <1>2, <1>3, <1>4, <1>5

LEMMA PathsOfAppend ==
    ASSUME NEW q \in Seq(Entry), NEW e \in Entry
    PROVE  PathsOf(Append(q, e)) = Append(PathsOf(q), e.path)
<1> DEFINE s == PathsOf(Append(q, e))
           t == Append(PathsOf(q), e.path)
<1>1. Append(q, e) \in Seq(Entry) /\ Len(Append(q, e)) = Len(q) + 1 /\ Len(q) \in Nat /\ e.path \in Paths
  BY AppendProperties, LenProperties DEF Entry
<1>2. s \in Seq(Paths) /\ Len(s) = Len(q) + 1
      /\ \A i \in 1..Len(q) + 1 : s[i] = Append(q, e)[i].path
  BY <1>1, PathsAre
<1>3. t \in Seq(Paths) /\ Len(t) = Len(q) + 1 /\ t[Len(q) + 1] = e.path
      /\ \A i \in 1..Len(q) : t[i] = q[i].path
  BY <1>1, PathsAre, AppendProperties
<1>4. \A i \in 1..Len(s) : s[i] = t[i]
  BY <1>1, <1>2, <1>3, AppendProperties
<1> HIDE DEF s, t
<1>5. s = t
  BY <1>2, <1>3, <1>4, SeqEqual
<1> QED BY <1>5 DEF s, t

LEMMA PathsOfTail ==
    ASSUME NEW q \in Seq(Entry), q # << >>
    PROVE  PathsOf(Tail(q)) = Tail(PathsOf(q))
<1> DEFINE s == PathsOf(Tail(q))
           t == Tail(PathsOf(q))
<1>1. Tail(q) \in Seq(Entry) /\ Len(Tail(q)) = Len(q) - 1 /\ \A i \in 1..Len(Tail(q)) : Tail(q)[i] = q[i + 1]
  BY HeadTailProperties
<1>2. s \in Seq(Paths) /\ Len(s) = Len(q) - 1 /\ \A i \in 1..Len(s) : s[i] = q[i + 1].path
  BY <1>1, PathsAre, ZenonT(40)
<1>3. t \in Seq(Paths) /\ Len(t) = Len(q) - 1 /\ \A i \in 1..Len(t) : t[i] = PathsOf(q)[i + 1]
  BY PathsAre, HeadTailProperties
<1>4. \A i \in 1..Len(s) : s[i] = t[i]
  BY <1>2, <1>3, PathsAre
<1> HIDE DEF s, t
<1>5. s = t
  BY <1>2, <1>3, <1>4, SeqEqual
<1> QED BY <1>5 DEF s, t

(* What start_pinned() puts in the queue.                                   *)
LEMMA PathsOfPinned ==
    ASSUME NEW q, q = [i \in 1..Len(Pinned) - 1 |-> [path |-> Pinned[i + 1], quiet |-> TRUE]]
    PROVE  PathsOf(q) = Tail(Pinned)
<1>1. /\ Pinned \in Seq(Paths) /\ Pinned # << >> /\ Len(Pinned) \in Nat \ {0}
      /\ \A i \in 1..Len(Pinned) - 1 : Pinned[i + 1] \in Paths
  BY PinnedAssumption, EmptySeq
<1>2. q \in Seq(Entry)
  BY <1>1, IsASeq DEF Entry
<1>3. Len(q) = Len(Pinned) - 1 /\ \A i \in 1..Len(q) : q[i].path = Pinned[i + 1]
  BY <1>1
<1>4. /\ PathsOf(q) \in Seq(Paths) /\ Len(PathsOf(q)) = Len(Pinned) - 1
      /\ \A i \in 1..Len(PathsOf(q)) : PathsOf(q)[i] = Pinned[i + 1]
  BY <1>2, <1>3, PathsAre
<1>5. /\ Tail(Pinned) \in Seq(Paths) /\ Len(Tail(Pinned)) = Len(Pinned) - 1
      /\ \A i \in 1..Len(Tail(Pinned)) : Tail(Pinned)[i] = Pinned[i + 1]
  BY <1>1, HeadTailProperties
<1>6. \A i \in 1..Len(PathsOf(q)) : PathsOf(q)[i] = Tail(Pinned)[i]
  BY <1>4, <1>5
<1> QED BY <1>4, <1>5, <1>6, SeqEqual

LEMMA MappedState ==
    ASSUME IInv
    PROVE  /\ QWaiting = PathsOf(queue) /\ queue \in Seq(Entry) /\ runs \in Seq(Run)
           /\ {QWaiting[i] : i \in 1..Len(QWaiting)} = QueuedPaths
           /\ IsRunning => QActive = current /\ QActive # NoPath
           /\ ~IsRunning => QActive = NoPath
<1>1. queue \in Seq(Entry) /\ runs \in Seq(Run) /\ QWaiting = PathsOf(queue)
  BY DEF IInv, TypeOK, QWaiting, PathsOf
<1>2. {QWaiting[i] : i \in 1..Len(QWaiting)} = QueuedPaths
  BY <1>1, PathsAre DEF QueuedPaths
<1>3. IsRunning => current \in Paths
  <2> HAVE IsRunning
  <2>1. Len(runs) > 0 /\ Len(runs) \in Nat /\ runs[Len(runs)].path = current
    BY <1>1, LenProperties DEF IInv, OneImport
  <2>2. runs[Len(runs)] \in Run
    BY <1>1, <2>1
  <2> QED BY <2>1, <2>2 DEF Run
<1> QED BY <1>1, <1>2, <1>3, PathsAssumption DEF QActive

-----------------------------------------------------------------------------
(* The runs that are over and have not started the next one yet.            *)
Late == {"finished", "recorded"}

LEMMA EndingAfterStep ==
    ASSUME IInv, NEW r \in RunIds, NEW e, runs' = [runs EXCEPT ![r] = e]
    PROVE  /\ e.pump \in Late => Ending' = Ending \cup {r}
           /\ e.pump \notin Late => Ending' = Ending \ {r}
<1>1. /\ DOMAIN runs = 1..Len(runs) /\ DOMAIN runs' = 1..Len(runs) /\ Len(runs) \in Nat
      /\ runs'[r] = e /\ \A q \in RunIds : q # r => runs'[q] = runs[q]
  BY LenProperties DEF IInv, TypeOK, RunIds
<1>2. Len(runs') = Len(runs)
  BY <1>1 DEF IInv, TypeOK
<1> QED BY <1>1, <1>2 DEF Ending, RunIds, Late

LEMMA EndingAfterLaunch ==
    ASSUME IInv, NEW rs \in Seq(Run), Len(rs) = Len(runs),
           NEW p \in Paths, NEW quiet \in BOOLEAN, Launch(p, quiet, rs)
    PROVE  /\ Ending' = {q \in RunIds : rs[q].pump \in Late}
           /\ ~IsRunning /\ IsRunning' /\ current' = p
<1>1. runs' = Append(rs, NewRun(p, quiet)) /\ ~IsRunning /\ IsRunning' /\ current' = p
  BY DEF Launch, IsRunning
<1>2. /\ Len(runs') = Len(rs) + 1 /\ runs'[Len(runs')] = NewRun(p, quiet) /\ Len(rs) \in Nat
      /\ \A q \in 1..Len(rs) : runs'[q] = rs[q]
  BY <1>1, AddRun, LenProperties
<1>3. NewRun(p, quiet).pump \notin Late
  BY DEF NewRun, Late
<1> QED BY <1>1, <1>2, <1>3 DEF Ending, RunIds, Late

QueueStep == Queue!QueueNext \/ UNCHANGED Queue!queueVars

(* Requests.                                                                *)
LEMMA LaunchIsDirect ==
    ASSUME IInv, NEW p \in Paths, NEW quiet \in BOOLEAN, Launch(p, quiet, runs)
    PROVE  QActive = NoPath /\ QActive' = p /\ QEnding' = QEnding
<1>1. Ending' = Ending /\ ~IsRunning /\ IsRunning' /\ current' = p
  BY EndingAfterLaunch, MappedState DEF Ending, Late
<1> QED BY <1>1 DEF QActive, QEnding

LEMMA RefuseIsNothing ==
    ASSUME Refuse, UNCHANGED <<runs, queue>>
    PROVE  UNCHANGED Queue!queueVars
BY MappedStutter DEF Refuse, QActive, QWaiting, QEnding, IsRunning, Ending, RunIds

LEMMA EntryWaits ==
    ASSUME IInv, IsRunning, NEW p \in Paths, NEW quiet \in BOOLEAN, p \notin QueuedPaths,
           queue' = Append(queue, [path |-> p, quiet |-> quiet]), UNCHANGED <<state, current, runs>>
    PROVE  Queue!Wait(p)
<1>1. QWaiting' = Append(QWaiting, p)
  <2>1. PathsOf(Append(queue, [path |-> p, quiet |-> quiet])) = Append(PathsOf(queue), p)
    BY MappedState, PathsOfAppend DEF Entry
  <2> QED BY <2>1, MappedState DEF QWaiting, PathsOf
<1>2. QActive' = QActive /\ QEnding' = QEnding
  BY DEF QActive, QEnding, IsRunning, Ending, RunIds
<1> QED BY <1>1, <1>2, MappedState, MappedSteps

LEMMA RequestsMap == ASSUME IInv, Requests PROVE QueueStep
<1> USE DEF QueueStep, Queue!QueueNext
<1>0. Pinned[1] \in Paths
  BY PinnedAssumption, EmptySeq
<1>1. ASSUME NEW p \in Paths, NEW quiet \in BOOLEAN, Launch(p, quiet, runs), UNCHANGED queue
      PROVE  QueueStep
  <2>1. QWaiting' = QWaiting
    BY <1>1 DEF QWaiting
  <2> QED BY <1>1, <2>1, LaunchIsDirect, MappedSteps
<1>2. ASSUME UNCHANGED <<state, current, fd, queue, runs, results, history>>
      PROVE  QueueStep
  BY <1>2, MappedStutter DEF QActive, QWaiting, QEnding, IsRunning, Ending, RunIds
<1>3. ASSUME NEW p \in Paths, Start(p)
      PROVE  QueueStep
  BY <1>1, <1>3, RefuseIsNothing DEF Start
<1>4. ASSUME NEW p \in Paths, EnqueuePinned(p)
      PROVE  QueueStep
  <2>1. CASE IsRunning /\ UNCHANGED <<state, current, fd, runs, results, history>>
             /\ queue' = IF p \in QueuedPaths THEN queue
                         ELSE Append(queue, [path |-> p, quiet |-> TRUE])
    BY <1>2, <2>1, EntryWaits
  <2> QED BY <1>1, <1>4, <2>1, RefuseIsNothing DEF EnqueuePinned
<1>5. ASSUME NEW p \in Paths, NEW quiet \in BOOLEAN, Enqueue(p, quiet)
      PROVE  QueueStep
  <2>1. CASE IsRunning /\ UNCHANGED <<state, current, fd, runs, results, history>>
             /\ queue' = IF p = current \/ p \in QueuedPaths THEN queue
                         ELSE Append(queue, [path |-> p, quiet |-> quiet])
    BY <1>2, <2>1, EntryWaits
  <2> QED BY <1>1, <1>5, <2>1, RefuseIsNothing DEF Enqueue
<1>6. CASE StartPinned
  <2>1. CASE Refuse /\ UNCHANGED <<runs, queue>>
    BY <2>1, RefuseIsNothing
  <2>2. CASE Launch(Pinned[1], TRUE, runs)
             /\ queue' = [i \in 1..Len(Pinned) - 1 |-> [path |-> Pinned[i + 1], quiet |-> TRUE]]
    <3>1. PathsOf(queue') = Tail(Pinned)
      BY <2>2, PathsOfPinned
    <3>2. QWaiting' = Tail(Pinned)
      BY <3>1 DEF QWaiting, PathsOf
    <3> QED BY <1>0, <2>2, <3>2, LaunchIsDirect, MappedSteps
  <2> QED BY <1>6, <2>1, <2>2 DEF StartPinned
<1>7. CASE SendInput
  <2> DEFINE e == [runs[fd] EXCEPT !.tty = @ + 1]
  <2>1. fd \in RunIds
    BY <1>7 DEF SendInput, IInv, TypeOK, RunIds
  <2>2. runs' = [runs EXCEPT ![fd] = e] /\ e.pump = runs[fd].pump
    <3> runs[fd] \in Run
      BY <2>1, MappedState DEF RunIds
    <3> QED BY <1>7 DEF SendInput, Run
  <2> HIDE DEF e
  <2>3. Ending' = Ending
    <3>1. CASE e.pump \in Late
      BY <2>1, <2>2, <3>1, EndingAfterStep DEF Ending, Late
    <3>2. CASE e.pump \notin Late
      BY <2>1, <2>2, <3>2, EndingAfterStep DEF Ending, Late
    <3> QED BY <3>1, <3>2
  <2>4. QActive' = QActive /\ QWaiting' = QWaiting
    BY <1>7 DEF SendInput, QActive, QWaiting, IsRunning
  <2> QED BY <2>3, <2>4, MappedStutter DEF QEnding
<1> QED BY <1>3, <1>4, <1>5, <1>6, <1>7 DEF Requests

-----------------------------------------------------------------------------
(* A step of a child, or of a pump that does not end or start an import.    *)
LEMMA RunStepIsNothing ==
    ASSUME IInv, NEW r \in RunIds, NEW e, runs' = [runs EXCEPT ![r] = e],
           e.pump \in Late <=> runs[r].pump \in Late,
           IsRunning' = IsRunning, UNCHANGED <<current, queue>>
    PROVE  UNCHANGED Queue!queueVars
<1>1. Ending' = Ending
  <2>1. CASE e.pump \in Late
    BY <2>1, EndingAfterStep DEF Ending, Late
  <2>2. CASE e.pump \notin Late
    BY <2>2, EndingAfterStep DEF Ending, Late
  <2> QED BY <2>1, <2>2
<1>2. QActive' = QActive /\ QWaiting' = QWaiting
  BY DEF QActive, QWaiting
<1> QED BY <1>1, <1>2, MappedStutter DEF QEnding

LEMMA ChildMaps == ASSUME IInv, NEW r \in RunIds, Child(r) PROVE UNCHANGED Queue!queueVars
<1>0. runs[r] \in Run
  BY MappedState DEF RunIds
<1>1. CASE ChildReports(r)
  BY <1>1, MappedStutter DEF ChildReports, QActive, QWaiting, QEnding, IsRunning, Ending, RunIds
<1>2. CASE ChildPrompts(r)
  <2> DEFINE e == [runs[r] EXCEPT !.child = "waiting", !.unread = TRUE]
  <2>1. runs' = [runs EXCEPT ![r] = e] /\ e.pump = runs[r].pump
        /\ UNCHANGED <<state, current, queue>>
    BY <1>0, <1>2 DEF ChildPrompts, Run
  <2> HIDE DEF e
  <2> QED BY <2>1, RunStepIsNothing DEF IsRunning
<1>3. CASE ChildWarns(r)
  <2> DEFINE e == [runs[r] EXCEPT !.unread = TRUE]
  <2>1. runs' = [runs EXCEPT ![r] = e] /\ e.pump = runs[r].pump
        /\ UNCHANGED <<state, current, queue>>
    BY <1>0, <1>3 DEF ChildWarns, Run
  <2> HIDE DEF e
  <2> QED BY <2>1, RunStepIsNothing DEF IsRunning
<1>4. CASE ChildReads(r)
  <2> DEFINE e == [runs[r] EXCEPT !.child = "busy", !.tty = @ - 1]
  <2>1. runs' = [runs EXCEPT ![r] = e] /\ e.pump = runs[r].pump
        /\ UNCHANGED <<state, current, queue>>
    BY <1>0, <1>4 DEF ChildReads, Run
  <2> HIDE DEF e
  <2> QED BY <2>1, RunStepIsNothing DEF IsRunning
<1>5. CASE ChildExits(r)
  <2> DEFINE e == [runs[r] EXCEPT !.child = "exited"]
  <2>1. runs' = [runs EXCEPT ![r] = e] /\ e.pump = runs[r].pump
        /\ UNCHANGED <<state, current, queue>>
    BY <1>0, <1>5 DEF ChildExits, Run
  <2> HIDE DEF e
  <2> QED BY <2>1, RunStepIsNothing DEF IsRunning
<1> QED BY <1>1, <1>2, <1>3, <1>4, <1>5 DEF Child

LEMMA PumpRunsMap ==
    ASSUME IInv, NEW r \in RunIds,
           PumpOpens(r) \/ PumpReadsPrompt(r) \/ PumpSeesEnd(r) \/ PumpLogFails(r) \/ PumpRecords(r)
    PROVE  UNCHANGED Queue!queueVars
<1>0. runs[r] \in Run
  BY MappedState DEF RunIds
<1>1. CASE PumpOpens(r)
  <2> PICK next \in {"reading", "dead"} : runs' = [runs EXCEPT ![r].pump = next]
    BY <1>1 DEF PumpOpens
  <2> DEFINE e == [runs[r] EXCEPT !.pump = next]
  <2>1. runs' = [runs EXCEPT ![r] = e] /\ e.pump \notin Late /\ runs[r].pump \notin Late
        /\ UNCHANGED <<state, current, queue>>
    BY <1>0, <1>1 DEF PumpOpens, Run, Late
  <2> HIDE DEF e
  <2> QED BY <2>1, RunStepIsNothing DEF IsRunning
<1>2. CASE PumpReadsPrompt(r)
  <2> DEFINE e == [runs[r] EXCEPT !.unread = FALSE]
  <2>1. runs' = [runs EXCEPT ![r] = e] /\ e.pump = runs[r].pump /\ IsRunning' = IsRunning
        /\ UNCHANGED <<current, queue>>
    BY <1>0, <1>2 DEF PumpReadsPrompt, Run, IsRunning
  <2> HIDE DEF e
  <2> QED BY <2>1, RunStepIsNothing
<1>3. CASE PumpCloses(r)
  <2> DEFINE e == [runs[r] EXCEPT !.pump = "closed", !.tty = 0, !.unread = FALSE]
  <2>1. runs' = [runs EXCEPT ![r] = e] /\ e.pump \notin Late /\ runs[r].pump \notin Late
        /\ UNCHANGED <<state, current, queue>>
    BY <1>0, <1>3 DEF PumpCloses, Run, Late
  <2> HIDE DEF e
  <2> QED BY <2>1, RunStepIsNothing DEF IsRunning
<1>4. CASE PumpRecords(r)
  <2> DEFINE e == [runs[r] EXCEPT !.pump = "recorded"]
  <2>1. runs' = [runs EXCEPT ![r] = e] /\ e.pump \in Late /\ runs[r].pump \in Late
        /\ UNCHANGED <<state, current, queue>>
    BY <1>0, <1>4 DEF PumpRecords, Run, Late
  <2> HIDE DEF e
  <2> QED BY <2>1, RunStepIsNothing DEF IsRunning
<1> QED BY <1>1, <1>2, <1>3, <1>4 DEF PumpSeesEnd, PumpLogFails

LEMMA PumpFinishesMaps == ASSUME IInv, NEW r \in RunIds, PumpFinishes(r) PROVE Queue!End \/ Queue!EndAlone
<1>1. runs[r] \in Run /\ runs[r].pump = "closed"
  BY MappedState DEF RunIds, PumpFinishes
<1>2. IsRunning
  BY <1>1, LastOne DEF Unfinished
<1>3. PICK next \in {"finished", "dead"} :
        runs' = [runs EXCEPT ![r].pump = next, ![r].credit = current]
  BY DEF PumpFinishes
<1> DEFINE e == [runs[r] EXCEPT !.pump = next, !.credit = current]
<1>4. runs' = [runs EXCEPT ![r] = e] /\ e.pump = next /\ r \notin Ending
  BY <1>1, <1>3 DEF Run, Ending
<1> HIDE DEF e
<1>5. QActive # NoPath /\ QActive' = NoPath /\ QWaiting' = QWaiting
  BY <1>2, MappedState DEF PumpFinishes, QActive, QWaiting, IsRunning
<1>6. CASE next = "finished"
  <2>1. QEnding' = QEnding + 1
    BY <1>4, <1>6, EndingAfterStep, EndingIsFinite DEF Late, QEnding
  <2> QED BY <1>5, <2>1, MappedSteps
<1>7. CASE next = "dead"
  <2>1. Ending' = Ending
    <3>1. Ending' = Ending \ {r}
      BY <1>4, <1>7, EndingAfterStep DEF Late
    <3> QED BY <1>4, <3>1
  <2> QED BY <1>5, <2>1, MappedSteps DEF QEnding
<1> QED BY <1>6, <1>7

LEMMA PumpAdvancesMaps ==
    ASSUME IInv, NEW r \in RunIds, PumpAdvances(r)
    PROVE  Queue!NoneWaits \/ Queue!StartNext \/ Queue!DropAll
<1> DEFINE e == Over(runs[r])
           rest == [runs EXCEPT ![r] = e]
<1>1. /\ runs[r] \in Run /\ runs[r].pump = "recorded" /\ r \in Ending
      /\ queue \in Seq(Entry) /\ QWaiting = PathsOf(queue)
  BY MappedState DEF RunIds, PumpAdvances, Ending
<1>2. e.pump = "done" /\ e \in Run
  <2>1. 0 \in 0..MaxLines /\ "opening" \in PumpStates /\ "done" \in PumpStates /\ runs[r].path \in Paths
    BY <1>1, BoundsAssumption DEF PumpStates, Run
  <2> QED BY <2>1 DEF Over, NewRun, Run
<1>3. rest \in Seq(Run) /\ Len(rest) = Len(runs) /\ rest[r] = e /\ \A q \in RunIds : q # r => rest[q] = runs[q]
  BY <1>2, ReplaceRun, MappedState DEF RunIds
<1>4. \/ /\ queue = << >> /\ runs' = rest /\ UNCHANGED <<state, current, queue>>
      \/ /\ queue # << >> /\ Launch(Head(queue).path, Head(queue).quiet, rest) /\ queue' = Tail(queue)
      \/ /\ queue # << >> /\ UNCHANGED <<state, current>> /\ runs' = rest /\ queue' = << >>
  BY DEF PumpAdvances, Refuse
<1> HIDE DEF e
<1>5. runs' = rest => QEnding' = QEnding - 1
  BY <1>1, <1>2, EndingAfterStep, EndingIsFinite DEF Late, QEnding
<1>6. QEnding > 0
  BY <1>1, EndingIsFinite
<1> HIDE DEF rest
<1>7. CASE queue = << >> /\ runs' = rest /\ UNCHANGED <<state, current, queue>>
  <2>1. QWaiting = << >>
    BY <1>1, <1>7, PathsAre
  <2>2. QActive' = QActive /\ QWaiting' = QWaiting
    BY <1>7 DEF QActive, QWaiting, IsRunning
  <2> QED BY <1>5, <1>6, <1>7, <2>1, <2>2, MappedAdvances
<1>8. CASE /\ queue # << >> /\ Launch(Head(queue).path, Head(queue).quiet, rest)
           /\ queue' = Tail(queue)
  <2>1. Head(queue) \in Entry
    BY <1>1, <1>8, HeadTailProperties
  <2>2. Head(queue).path \in Paths /\ Head(queue).quiet \in BOOLEAN
    BY <2>1 DEF Entry
  <2>3. /\ Ending' = {q \in RunIds : rest[q].pump \in Late}
        /\ ~IsRunning /\ IsRunning' /\ current' = Head(queue).path
    BY <1>3, <1>8, <2>2, EndingAfterLaunch
  <2>4. Ending' = Ending \ {r}
    BY <1>2, <1>3, <2>3 DEF Ending, Late
  <2>5. QEnding' = QEnding - 1
    BY <1>1, <2>4, EndingIsFinite DEF QEnding
  <2>6. QWaiting # << >> /\ Head(QWaiting) = Head(queue).path
    BY <1>1, <1>8, PathsAre
  <2>7. QWaiting' = Tail(QWaiting)
    <3>1. QWaiting' = PathsOf(queue')
      BY DEF QWaiting, PathsOf
    <3> QED BY <1>1, <1>8, <3>1, PathsOfTail
  <2>8. QActive = NoPath /\ QActive' = Head(QWaiting)
    BY <2>3, <2>6 DEF QActive
  <2> QED BY <1>6, <2>5, <2>6, <2>7, <2>8, MappedAdvances
<1>9. CASE queue # << >> /\ UNCHANGED <<state, current>> /\ runs' = rest /\ queue' = << >>
  <2>1. QWaiting # << >>
    BY <1>1, <1>9, PathsAre
  <2>2. QWaiting' = << >>
    <3>1. << >> \in Seq(Entry) /\ PathsOf(<< >>) = << >>
      BY EmptySeq, PathsAre
    <3> QED BY <1>9, <3>1 DEF QWaiting, PathsOf
  <2>3. QActive' = QActive
    BY <1>9 DEF QActive, IsRunning
  <2> QED BY <1>5, <1>6, <1>9, <2>1, <2>2, <2>3, MappedAdvances
<1> QED BY <1>4, <1>7, <1>8, <1>9

(* The import session implements the queue that the watcher and the other   *)
(* callers rely on: one import at a time, queued folders started first in   *)
(* first out by the pump of the import that ended, or dropped together.     *)
THEOREM SessionIsAQueue == Spec => ImplementsQueue
<1>1. Init => Queue!QueueInit
  <2> SUFFICES ASSUME Init PROVE Queue!QueueInit
    OBVIOUS
  <2>1. IInv /\ ~IsRunning /\ queue = << >>
    BY InitIInv DEF Init, IsRunning
  <2>2. Ending = {}
    BY DEF Init, Ending, RunIds
  <2>3. QEnding = 0
    BY <2>2, FS_EmptySet DEF QEnding
  <2>4. QActive = NoPath /\ QWaiting = << >>
    BY <2>1, MappedState, PathsAre
  <2> QED BY <2>3, <2>4 DEF Queue!QueueInit, QActive, QWaiting, QEnding
<1>2. IInv /\ [Next]_vars => [Queue!QueueNext]_(Queue!queueVars)
  <2> SUFFICES ASSUME IInv, [Next]_vars PROVE QueueStep
    BY DEF QueueStep
  <2>1. CASE Requests
    BY <2>1, RequestsMap
  <2>2. CASE \E r \in RunIds : Child(r)
    BY <2>2, ChildMaps DEF QueueStep
  <2>3. CASE \E r \in RunIds : Pump(r)
    BY <2>3, PumpRunsMap, PumpFinishesMaps, PumpAdvancesMaps DEF Pump, QueueStep, Queue!QueueNext
  <2>4. CASE UNCHANGED vars
    BY <2>4, MappedStutter DEF QueueStep, vars, QActive, QWaiting, QEnding, IsRunning, Ending, RunIds
  <2> QED BY <2>1, <2>2, <2>3, <2>4 DEF Next
<1> QED BY <1>1, <1>2, Invariance, PTL DEF Spec, ImplementsQueue, Queue!QueueSpec

=============================================================================
