---------------------------- MODULE Notifications ----------------------------
(***************************************************************************)
(* The notifications of core/notifications.py: those of the admin panel,   *)
(* rows of a table, and those of the configuration file, which the panel   *)
(* shows by their position in the file and can only switch on and off: the *)
(* switch is kept in a table by event and URLs.  Whatever happens in the   *)
(* server starts a thread that lists the notifications of the event, drops *)
(* those that are off or whose options do not want this one, and sends     *)
(* each of the others to each of its URLs.                                 *)
(***************************************************************************)
EXTENDS Integers, Sequences, FiniteSets

CONSTANTS
    NoteEvents, Services,   \* kinds of event; Apprise URLs
    NoteConfigs,            \* the `notifications:` lists of the file
    NoteThreads,            \* threads of notify()
    NoteRowsMax, NotifiesMax, NoteEditsMax  \* bounds

VARIABLES
    noteConfig,     \* CONFIG_NOTIFICATIONS
    noteRows,       \* the table, by id
    lastNote,
    overrides,      \* notification_overrides: <<key, enabled>>
    sendings,
    switched,       \* history: how each key was switched last
    edits, notifies

noteVars == <<noteConfig, noteRows, lastNote, overrides, sendings, switched, edits, notifies>>

Item   == [event : NoteEvents, urls : SUBSET Services \ {{}}, on : BOOLEAN, strict : BOOLEAN]
Asleep == [pc |-> "none"]

ASSUME NotesAssumption ==
    /\ \A c \in NoteConfigs : c \in Seq(Item)
    /\ {NoteRowsMax, NotifiesMax, NoteEditsMax} \subseteq Nat

NotesInit ==
    /\ noteConfig \in NoteConfigs
    /\ noteRows = << >> /\ lastNote = 0 /\ overrides = {}
    /\ sendings = [t \in NoteThreads |-> Asleep]
    /\ switched = {} /\ edits = 0 /\ notifies = 0

Edit == edits < NoteEditsMax /\ edits' = edits + 1

-----------------------------------------------------------------------------
AddNote(item) ==
    /\ Edit /\ lastNote < NoteRowsMax /\ lastNote' = lastNote + 1
    /\ noteRows' = [n \in DOMAIN noteRows \cup {lastNote'} |->
                        IF n = lastNote' THEN item ELSE noteRows[n]]
    /\ UNCHANGED <<noteConfig, overrides, sendings, switched, notifies>>

(* The form leaves the switch as it is.                                     *)
UpdateNote(n, item) ==
    /\ Edit /\ n \in DOMAIN noteRows
    /\ noteRows' = [noteRows EXCEPT ![n] = [item EXCEPT !.on = noteRows[n].on]]
    /\ UNCHANGED <<noteConfig, lastNote, overrides, sendings, switched, notifies>>

DeleteNote(n) ==
    /\ Edit /\ n \in DOMAIN noteRows
    /\ noteRows' = [m \in DOMAIN noteRows \ {n} |-> noteRows[m]]
    /\ UNCHANGED <<noteConfig, lastNote, overrides, sendings, switched, notifies>>

SwitchNote(n, on) ==
    /\ Edit /\ n \in DOMAIN noteRows
    /\ noteRows' = [noteRows EXCEPT ![n].on = on]
    /\ UNCHANGED <<noteConfig, lastNote, overrides, sendings, switched, notifies>>

(* Mutant of Key: the place in the file.                                    *)
KeyByPlace(place) == place

(* What a switch of the configuration's notification at `place` is kept by. *)
Key(place) == <<noteConfig[place].event, noteConfig[place].urls>>

WithNote(pairs, key, on) == {p \in pairs : p[1] # key} \cup {<<key, on>>}

(* toggle_enabled() of a negative id: INSERT OR REPLACE.                    *)
SwitchConfig(place, on) ==
    /\ Edit /\ place \in DOMAIN noteConfig
    /\ overrides' = WithNote(overrides, Key(place), on)
    /\ switched' = WithNote(switched, <<noteConfig[place].event, noteConfig[place].urls>>, on)
    /\ UNCHANGED <<noteConfig, noteRows, lastNote, sendings, notifies>>

(* load_config() at a start, of a file edited meanwhile; threads are lost.  *)
RestartNotes(config) ==
    /\ Edit /\ noteConfig' = config
    /\ sendings' = [t \in NoteThreads |-> Asleep]
    /\ UNCHANGED <<noteRows, lastNote, overrides, switched, notifies>>

Enabled(place) ==
    LET kept == {p \in overrides : p[1] = Key(place)} IN
    IF kept = {} THEN noteConfig[place].on ELSE \E p \in kept : p[2]

-----------------------------------------------------------------------------
(* notify(): `fact` is what the options ask about the event.                *)
Notify(t, event, fact) ==
    /\ sendings[t] = Asleep /\ notifies < NotifiesMax /\ notifies' = notifies + 1
    /\ sendings' = [sendings EXCEPT ![t] = [pc |-> "list", event |-> event, fact |-> fact]]
    /\ UNCHANGED <<noteConfig, noteRows, lastNote, overrides, switched, edits>>

OfEvent(event) ==
    {[id |-> n, item |-> noteRows[n]] : n \in {m \in DOMAIN noteRows : noteRows[m].event = event}}
      \cup {[id |-> 0 - k, item |-> [noteConfig[k] EXCEPT !.on = Enabled(k)]] :
                k \in {m \in DOMAIN noteConfig : noteConfig[m].event = event}}

Wanted(item, fact) == item.on /\ (item.strict => fact)

List(t) ==
    /\ sendings[t].pc = "list"
    /\ LET s == sendings[t]  items == OfEvent(s.event) IN
       sendings' = [sendings EXCEPT ![t] =
           [pc |-> "send", event |-> s.event, fact |-> s.fact, listed |-> items, tried |-> {},
            left |-> {<<i.id, u>> : i \in {j \in items : Wanted(j.item, s.fact)}, u \in Services}
                        \cap UNION {{i.id} \X i.item.urls : i \in items}]]
    /\ UNCHANGED <<noteConfig, noteRows, lastNote, overrides, switched, edits, notifies>>

(* _send_all(): a URL that fails is counted, the others are tried.          *)
AfterSend(left, one, ok) == left \ {one}

Send(t) ==
    /\ sendings[t].pc = "send"
    /\ \E one \in sendings[t].left, ok \in BOOLEAN :
         sendings' = [sendings EXCEPT ![t].left = AfterSend(@, one, ok), ![t].tried = @ \cup {one}]
    /\ UNCHANGED <<noteConfig, noteRows, lastNote, overrides, switched, edits, notifies>>

Dispatched(t) ==
    /\ sendings[t].pc = "send" /\ sendings[t].left = {}
    /\ sendings' = [sendings EXCEPT ![t] = Asleep]
    /\ UNCHANGED <<noteConfig, noteRows, lastNote, overrides, switched, edits, notifies>>

NotesNext ==
    \/ \E item \in Item : AddNote(item) \/ \E n \in DOMAIN noteRows : UpdateNote(n, item)
    \/ \E n \in DOMAIN noteRows : DeleteNote(n) \/ \E on \in BOOLEAN : SwitchNote(n, on)
    \/ \E place \in DOMAIN noteConfig, on \in BOOLEAN : SwitchConfig(place, on)
    \/ \E config \in NoteConfigs : RestartNotes(config)
    \/ \E t \in NoteThreads :
          \/ \E event \in NoteEvents, fact \in BOOLEAN : Notify(t, event, fact)
          \/ List(t) \/ Send(t) \/ Dispatched(t)

NotesSpec == NotesInit /\ [][NotesNext]_noteVars

-----------------------------------------------------------------------------
(* A notification of the file stays as an administrator switched it, though *)
(* the file is edited and its entries move; one never switched is as the    *)
(* file says.                                                               *)
SwitchStays ==
    \A place \in DOMAIN noteConfig :
        LET item == noteConfig[place]
            last == {p \in switched : p[1] = <<item.event, item.urls>>}
        IN Enabled(place) = IF last = {} THEN item.on ELSE \E p \in last : p[2]

(* A dispatch ends with one attempt for each URL of each notification that  *)
(* was on and wanted the event when it was listed, whichever attempts fail  *)
(* and whatever is edited meanwhile, and with none for the others.          *)
AllTried ==
    \A t \in NoteThreads : sendings[t].pc = "send" /\ sendings[t].left = {} =>
        sendings[t].tried =
            UNION {{i.id} \X i.item.urls : i \in {j \in sendings[t].listed : Wanted(j.item, sendings[t].fact)}}

(* What the notifications promise: both hold.                               *)
NotesHold == SwitchStays /\ AllTried
=============================================================================
