------------------------------- MODULE Settings -------------------------------
(***************************************************************************)
(* The settings (core/config/store.py), changed from the admin panel       *)
(* (routes/settings.py, the address lists of routes/security.py).  A value *)
(* set outside (flag, variable, config file) locks a setting, or pins      *)
(* items of a list; the database keeps what is set in the panel.  Setting  *)
(* one persists it, then caches it, then applies it, with no lock over the *)
(* three.  Settings do not depend on each other, so there is one, a list   *)
(* or not.  Its value is a set of items; when it is not a list, the set    *)
(* stands for the value as a whole.                                        *)
(***************************************************************************)
EXTENDS Naturals

CONSTANTS
    SettingItems,
    SettingRequests,     \* requests of administrators
    Unset, NoSetting,
    RestartsMax          \* bound

VARIABLES
    isList,     \* the type of the setting
    outside,    \* yaml_defaults of this run of the server
    stored,     \* the settings table
    cached,     \* SettingsStore._cache
    applied,    \* the value the running server uses
    setting,    \* the request each administrator has under way
    restarts,
    overlapped, \* history: two requests changed it at once
    chosen      \* history: items the panel added, when not pinned

setVars == <<isList, outside, stored, cached, applied, setting, restarts, overlapped, chosen>>

Setting == [pc : {"persist", "cache", "apply"}, row : {Unset} \cup SUBSET SettingItems,
            value : SUBSET SettingItems]

ASSUME SettingsAssumption == (\A s \in SUBSET SettingItems : s # Unset) /\ \A s \in Setting : s # NoSetting

Outsides == {Unset} \cup {{i} : i \in SettingItems}

Pinned == IF isList /\ outside # Unset THEN outside ELSE {}
Locked == ~isList /\ outside # Unset

(* initialise(): outside, then database, then default; a list has both.     *)
Resolved(out, db) ==
    LET kept == IF db = Unset THEN {} ELSE db IN
    IF out = Unset THEN kept ELSE IF isList THEN out \cup kept ELSE out

SettingsInit ==
    /\ isList \in BOOLEAN /\ outside \in Outsides /\ stored = Unset
    /\ cached = Resolved(outside, stored)
    /\ applied = cached
    /\ setting = [r \in SettingRequests |-> NoSetting]
    /\ restarts = 0 /\ overlapped = FALSE /\ chosen = {}

-----------------------------------------------------------------------------

ToStore(v) == v \ Pinned

Final(v) == ToStore(v) \cup Pinned

Busy == \E r \in SettingRequests : setting[r] # NoSetting

BeginSetting(r, row, value) ==
    /\ setting[r] = NoSetting /\ ~Locked
    /\ setting' = [setting EXCEPT ![r] = [pc |-> "persist", row |-> row, value |-> value]]
    /\ overlapped' = (overlapped \/ Busy)
    /\ UNCHANGED <<isList, outside, stored, cached, applied, restarts>>

(* route_update_settings(): a field that is not changed is left out.        *)
SubmitSetting(r, v) ==
    /\ v # cached
    /\ BeginSetting(r, ToStore(v), Final(v))
    /\ chosen' = chosen \cup (v \ Pinned)

(* route_ip_add(), route_ip_remove(): the list as it is now, less or more   *)
(* one item.                                                                *)
AddItem(r, i)    == isList /\ i \notin cached /\ SubmitSetting(r, cached \cup {i})
RemoveItem(r, i) == isList /\ i \in cached \ Pinned /\ SubmitSetting(r, cached \ {i})

(* Mutant of Reset: a list goes back to the default, pinned or not.         *)
ResetToDefault(r) == BeginSetting(r, Unset, {}) /\ UNCHANGED chosen

(* reset()                                                                  *)
Reset(r) == BeginSetting(r, Unset, Pinned) /\ UNCHANGED chosen

-----------------------------------------------------------------------------
ToSetting(r, pc) == setting' = [setting EXCEPT ![r].pc = pc]

Persist(r) ==
    /\ setting[r] # NoSetting /\ setting[r].pc = "persist"
    /\ stored' = setting[r].row
    /\ ToSetting(r, "cache")
    /\ UNCHANGED <<isList, outside, cached, applied, restarts, overlapped, chosen>>

Cache(r) ==
    /\ setting[r] # NoSetting /\ setting[r].pc = "cache"
    /\ cached' = setting[r].value
    /\ ToSetting(r, "apply")
    /\ UNCHANGED <<isList, outside, stored, applied, restarts, overlapped, chosen>>

Apply(r) ==
    /\ setting[r] # NoSetting /\ setting[r].pc = "apply"
    /\ applied' = setting[r].value
    /\ setting' = [setting EXCEPT ![r] = NoSetting]
    /\ UNCHANGED <<isList, outside, stored, cached, restarts, overlapped, chosen>>

(* The server ends, at any point, and starts with other outside values.     *)
RestartServer(out) ==
    /\ restarts < RestartsMax /\ restarts' = restarts + 1
    /\ outside' = out
    /\ cached' = Resolved(out, stored) /\ applied' = cached'
    /\ setting' = [r \in SettingRequests |-> NoSetting] /\ overlapped' = FALSE
    /\ UNCHANGED <<isList, stored, chosen>>

SettingsNext ==
    \/ \E r \in SettingRequests :
          \/ \E v \in SUBSET SettingItems : SubmitSetting(r, v)
          \/ \E i \in SettingItems : AddItem(r, i) \/ RemoveItem(r, i)
          \/ Reset(r) \/ Persist(r) \/ Cache(r) \/ Apply(r)
    \/ \E out \in Outsides : RestartServer(out)

SettingsSpec == SettingsInit /\ [][SettingsNext]_setVars

-----------------------------------------------------------------------------
(* What the panel shows is what the server uses and what it would come up   *)
(* with if it were started again now - unless two requests changed it at    *)
(* once, or one is changing it.                                             *)
InForce ==
    ~overlapped /\ ~Busy => cached = Resolved(outside, stored) /\ applied = cached

(* A value set outside is in force whatever the panel is sent, in any       *)
(* order: a pinned item stays in its list, a locked setting as it is.       *)
OutsideHolds ==
    outside # Unset =>
        LET kept(v) == IF isList THEN outside \subseteq v ELSE v = outside IN
        kept(cached) /\ kept(applied)

(* An item leaves a list with the configuration that pinned it: a list has  *)
(* no others than those pinned now and those the panel once added.          *)
NoLeftover == isList => cached \subseteq Pinned \cup chosen

(* What the settings promise: all of them hold.                             *)
SettingsHold == InForce /\ OutsideHolds /\ NoLeftover
=============================================================================
