------------------------------ MODULE Settings ------------------------------
(* The settings of the program: layers of files, the settings page that saves *)
(* into one of them, edits by hand, and the watcher that loads them anew. A   *)
(* file is broken, missing, or gives some of the keys a value. What the       *)
(* program does with the files it does without an await, one file after the   *)
(* other; editors are other processes and write in between.                   *)
EXTENDS Naturals, FiniteSets

CONSTANTS
    Keys, Values,  \* of the settings; a key without a value has its default
    Layered,       \* BOOLEAN: APP_ENV names a layer of its own
    Fixed,         \* keys that an environment variable decides
    MaxEdits,      \* bound: edits by hand
    MaxSaves       \* bound: saves of the page

ASSUME SettingsAssumption == /\ Values \subseteq Nat \ {0} /\ Values # {}
                             /\ Layered \in BOOLEAN /\ Fixed \subseteq Keys
                             /\ MaxEdits \in Nat /\ MaxSaves \in Nat

VARIABLES
    file,     \* the files
    stamp,    \* their times of modification, 0 for a file that is not there
    stage,    \* of the program and its watcher: down, loaded, watching
    doing,    \* rest; first, stat or seen (a scan, seen: with a change); check, load
              \* (reload_settings); merge (the page has read user.yaml)
    todo,     \* files the scan or the load has still to look at
    read,     \* what the load or the page has read
    mtimes,   \* _mtimes
    live,     \* _settings
    edits, saves, clock,
    missed    \* history: no look can see a change since the last load began: it came
              \* before the first look, or took away a file no look has seen

settingsVars == <<file, stamp, stage, doing, todo, read, mtimes, live, edits, saves, clock, missed>>

Layers == IF Layered THEN {"base", "user", "env"} ELSE {"base", "user"}
First(ls) == IF "base" \in ls THEN "base" ELSE IF "user" \in ls THEN "user" ELSE "env"
Contents == [Keys -> Values \union {0}]
Empty == [k \in Keys |-> 0]
Unread == [l \in Layers |-> Empty]
Whole(c) == [is |-> "whole", says |-> c]
Broken == [is |-> "broken", says |-> Empty]
Missing == [is |-> "missing", says |-> Empty]
Files == {Whole(c) : c \in Contents} \union {Broken, Missing}

(* ---------------------- load_yaml_config, get_settings ------------------- *)
Said(texts, l, k) == IF l \in Layers THEN texts[l][k] ELSE 0
FirstOf(a, b, c) == IF a # 0 THEN a ELSE IF b # 0 THEN b ELSE c
EnvironmentSays == CHOOSE v \in Values : TRUE
Effective(texts) ==
    [k \in Keys |-> IF k \in Fixed THEN EnvironmentSays
                    ELSE FirstOf(Said(texts, "env", k), Said(texts, "user", k), Said(texts, "base", k))]
Texts == [l \in Layers |-> file[l].says]
Reloadable == (\A l \in Layers : file[l] # Broken) /\ file["base"].says # Empty

SettingsInit ==
    /\ file = [l \in Layers |-> IF l = "base" THEN Whole([k \in Keys |-> EnvironmentSays]) ELSE Missing]
    /\ stamp = [l \in Layers |-> IF l = "base" THEN 1 ELSE 0]
    /\ stage = "down" /\ doing = "rest" /\ todo = {} /\ read = Unread
    /\ mtimes = [l \in Layers |-> 0] /\ live = Empty
    /\ edits = 0 /\ saves = 0 /\ clock = 1 /\ missed = FALSE

FilesStay == UNCHANGED <<file, stamp, edits, clock>>
Rests == doing' = "rest" /\ todo' = {} /\ read' = Unread

(* ------------------------ loading and loading anew ----------------------- *)
\* settings() of the start.
Start == /\ stage = "down" /\ doing = "rest"
         /\ doing' = "load" /\ todo' = Layers /\ missed' = FALSE
         /\ FilesStay /\ UNCHANGED <<stage, read, mtimes, live, saves>>

\* POST config/reload; _mtimes stays as it is.
AskReload == /\ stage = "watching" /\ doing = "rest" /\ doing' = "check"
             /\ FilesStay /\ UNCHANGED <<stage, todo, read, mtimes, live, saves, missed>>

\* reload_settings: a base file that is broken or says nothing keeps the old settings.
Check == /\ doing = "check"
         /\ IF file["base"] # Broken /\ file["base"].says # Empty
            THEN doing' = "load" /\ todo' = Layers /\ missed' = FALSE /\ UNCHANGED read
            ELSE Rests /\ UNCHANGED missed
         /\ FilesStay /\ UNCHANGED <<stage, mtimes, live, saves>>

\* faulty variant: a file that is broken is taken for an empty one
UnreadableNever(l) == FALSE
Unreadable(l) == file[l] = Broken

\* get_settings reads the files in turn, base.yaml once more. One that is broken
\* keeps the old settings, or the program from starting.
ReadFile ==
    /\ doing = "load"
    /\ LET l == First(todo)  texts == [read EXCEPT ![l] = file[l].says] IN
       \/ Unreadable(l) /\ Rests /\ UNCHANGED <<stage, live>>
       \/ /\ ~Unreadable(l) /\ todo # {l}
          /\ todo' = todo \ {l} /\ read' = texts /\ UNCHANGED <<stage, doing, live>>
       \/ /\ ~Unreadable(l) /\ todo = {l}
          /\ live' = Effective(texts) /\ Rests
          /\ stage' = IF stage = "down" THEN "loaded" ELSE stage
    /\ FilesStay /\ UNCHANGED <<mtimes, saves, missed>>

(* ------------------------------ the watcher ----------------------------- *)
\* run(): the first scan, then poll_changed every interval
Scan == /\ stage # "down" /\ doing = "rest" /\ todo' = Layers
        /\ doing' = IF stage = "loaded" THEN "first" ELSE "stat"
        /\ FilesStay /\ UNCHANGED <<stage, read, mtimes, live, saves, missed>>

\* faulty variant: a new file is no change
ChangedNewer(l) == stamp[l] # mtimes[l] /\ mtimes[l] # 0
Changed(l) == stamp[l] # mtimes[l]

\* One file after the other is looked at; a change is followed by reload_config.
Stat ==
    /\ doing \in {"first", "stat", "seen"}
    /\ LET l == First(todo)
           now == IF doing = "stat" /\ Changed(l) THEN "seen" ELSE doing IN
       /\ mtimes' = [mtimes EXCEPT ![l] = stamp[l]] /\ todo' = todo \ {l}
       /\ IF todo # {l} THEN doing' = now /\ UNCHANGED stage
          ELSE /\ doing' = IF now = "seen" THEN "check" ELSE "rest"
               /\ stage' = "watching"
    /\ FilesStay /\ UNCHANGED <<read, live, saves, missed>>

\* The program ends or is killed.
Ends == /\ stage # "down" /\ stage' = "down" /\ Rests
        /\ live' = Empty /\ mtimes' = [l \in Layers |-> 0] /\ missed' = FALSE
        /\ FilesStay /\ UNCHANGED saves

(* ------------------------- the files are changed ------------------------ *)
Becomes(l, c) ==
    /\ file' = [file EXCEPT ![l] = c]
    /\ clock' = clock + 1
    /\ stamp' = [stamp EXCEPT ![l] = IF c = Missing THEN 0 ELSE clock']
    /\ missed' = (missed \/ stage = "loaded" \/ (stage = "down" /\ doing = "load")
                         \/ (c = Missing /\ mtimes[l] = 0))
    /\ UNCHANGED <<stage, mtimes, live>>

\* An editor writes a file, half of it, or removes it.
Edit(l, c) == /\ edits < MaxEdits /\ edits' = edits + 1 /\ c # file[l]
              /\ Becomes(l, c) /\ UNCHANGED <<doing, todo, read, saves>>

\* PUT: read_user_config refuses a broken file.
PutReads == /\ saves < MaxSaves /\ stage = "watching" /\ doing = "rest" /\ file["user"] # Broken
            /\ saves' = saves + 1 /\ doing' = "merge"
            /\ read' = [read EXCEPT !["user"] = file["user"].says]
            /\ FilesStay /\ UNCHANGED <<stage, todo, mtimes, live, missed>>

\* merge_section, _merge_devices: a value is put in, or the key taken out; what was
\* read replaces the file at once. A section that is none, or the disk, may refuse.
PutReplaces ==
    /\ doing = "merge" /\ Rests /\ UNCHANGED saves
    /\ \/ \E k \in Keys, v \in Values \union {0} :
             Becomes("user", Whole([read["user"] EXCEPT ![k] = v])) /\ UNCHANGED edits
       \/ FilesStay /\ UNCHANGED <<stage, mtimes, live, missed>>

SettingsNext ==
    \/ Start \/ AskReload \/ Check \/ ReadFile \/ Scan \/ Stat \/ Ends \/ PutReads \/ PutReplaces
    \/ \E l \in Layers, c \in Files : Edit(l, c)

SettingsSpec == SettingsInit /\ [][SettingsNext]_settingsVars

\* The watcher looks again and again; what the program has begun it goes through with.
SettingsFairness ==
    WF_settingsVars(Scan) /\ WF_settingsVars(Stat \/ Check \/ ReadFile \/ PutReplaces)
-----------------------------------------------------------------------------
(* Files, stamps and phases are those the code can meet; what is in effect    *)
(* while the program runs never went past the environment.                    *)
SettingsTypeOK ==
    /\ file \in [Layers -> Files] /\ read \in [Layers -> Contents] /\ todo \subseteq Layers
    /\ stage \in {"down", "loaded", "watching"} /\ live \in Contents
    /\ doing \in {"rest", "first", "stat", "seen", "check", "load", "merge"}
    /\ doing \in {"first", "stat", "seen", "load"} <=> todo # {}
    /\ doing = "first" => stage = "loaded"
    /\ doing \in {"stat", "seen", "check", "merge"} => stage = "watching"
    /\ \A l \in Layers : mtimes[l] <= clock /\ (stamp[l] = 0 <=> file[l] = Missing)
    /\ stage # "down" => \A k \in Fixed : live[k] = EnvironmentSays

(* Whatever was written between the looks of the watcher and the reads of a   *)
(* load, and whoever asked for the load: settings that can be loaded are in   *)
(* effect, or the next look will find a change (config_watch.py:88-113,       *)
(* settings.py:372-442).                                                      *)
StaleIsNoticed ==
    stage = "watching" /\ doing \in {"rest", "stat", "merge"} =>
        live = Effective(Texts) \/ ~Reloadable \/ stamp # mtimes \/ missed

(* New settings are those of files that are whole and belong together, or the *)
(* next look will find the change that was mixed in (settings.py:372-442).    *)
TakesWhole ==
    [][live' # live /\ stage = "watching" /\ stage' = "watching" =>
          (Reloadable /\ live' = Effective(Texts)) \/ stamp # mtimes \/ missed]_settingsVars

(* Settings that can be loaded are in effect in the end, whatever failed to   *)
(* load before or was read while it changed, and however often the page, an   *)
(* editor and POST config/reload met (config_watch.py:99-113).                *)
ChangesArrive ==
    <>[](stage = "watching" /\ doing = "rest" /\ ~missed /\ Reloadable => live = Effective(Texts))

(* What is in effect is what the files say, or a change is still to be seen,  *)
(* and it is taken whole (settings.py, config_watch.py, settings_store.py).   *)
SettingsHold == [](SettingsTypeOK /\ StaleIsNoticed) /\ TakesWhole

(* config_watch.py:7-9 and 18: a change of a file takes effect without a      *)
(* restart, whenever it comes.                                                *)
EveryChangeArrives ==
    <>[](stage = "watching" /\ doing = "rest" /\ Reloadable => live = Effective(Texts))

(* Docstring of reload_settings: an empty or missing base.yaml never makes    *)
(* the settings fall back to the defaults.                                    *)
NeverDefaults ==
    [][live' # live /\ stage = "watching" /\ stage' = "watching" => file["base"].says # Empty]_settingsVars

(* Docstring of put_settings_payload: a save merges what it was given, and    *)
(* nothing else of user.yaml is changed by it.                                *)
HandWorkKept ==
    [][doing = "merge" /\ doing' = "rest" =>
          Cardinality({k \in Keys : file'["user"].says[k] # file["user"].says[k]}) <= 1]_settingsVars
=============================================================================
