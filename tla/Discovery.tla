----------------------------- MODULE Discovery -----------------------------
(***************************************************************************)
(* From config.json to what Home Assistant offers and back: a start loads  *)
(* the presets, every connect describes the entities one by one in         *)
(* retained messages (src/src/ha_discovery.c, ha_entities.c), and a preset *)
(* chosen in Home Assistant is looked up by its name                       *)
(* (src/src/unifi_profiles_repo.c).  The file and the environment are      *)
(* edited between two starts, and descriptions outlive the process that    *)
(* published them.                                                         *)
(***************************************************************************)
EXTENDS Configuration

CONSTANTS Files,     \* what config.json may hold
          Envs,      \* what MQTT_INSTANCE may hold
          Instances, \* the instances they can name
          Room,      \* how many options a description holds before it is cut
          MaxEdits,  \* bound: edits of the file or the environment
          MaxLosses  \* bound: losses of the link

ASSUME SourcesAssumption ==
    \A file \in Files, env \in Envs :
        Instance(file, env) \in Instances \cup {TooLong}
ASSUME BoundsAssumption == Room \in Nat /\ MaxEdits \in Nat /\ MaxLosses \in Nat

\* An entry of the presets, which are an array; what it lacks is NoName or None.
Entry ==
    [name : [word : STRING, capitals : BOOLEAN, padded : BOOLEAN], directory : STRING]
ASSUME FilesAssumption == \A file \in Files : file.presets \in Seq(Entry)

VARIABLES
  file, env,  \* the sources of the configuration
  process,    \* "down", in its main "loop", or in "discovery"
  settings,   \* what the running process loaded
  next,       \* the entity that discovery describes next
  link,       \* "up" while the process has a session
  retained,   \* descriptions at the broker
  shown,      \* those Home Assistant goes by
  chosen,     \* the preset last chosen in Home Assistant and what it led to
  edits, losses, \* counters of the bounds
  described   \* history: entities the running process has described

config == <<file, env>>
homeAssistant == <<retained, shown>>
bounds == <<edits, losses>>
vars == <<config, process, settings, next, link, homeAssistant, chosen, bounds, described>>

\* HA_ENTITIES, in order; one of them has options.
Entities ==
    <<"status", "last_error", "last_applied_profile", "preset", "custom_directory",
      "test_config", "download_assets", "last_download">>
HasOptions(entity) == entity = "preset"

Keys == Instances \X {Entities[i] : i \in DOMAIN Entities}
Description(options) == [whole |-> TRUE, options |-> options]

\* No description, or one that is cut and does not parse.
NoDescription == [whole |-> FALSE, options |-> <<>>]
NoChoice == [name |-> NoName, directory |-> None, fresh |-> FALSE]
NoSettings == [instance |-> Unset, presets |-> <<>>]

Init ==
    /\ file \in Files /\ env \in Envs
    /\ process = "down" /\ settings = NoSettings /\ next = 0 /\ link = "down"
    /\ retained = [k \in Keys |-> NoDescription] /\ shown = retained
    /\ chosen = NoChoice
    /\ edits = 0 /\ losses = 0 /\ described = {}
-----------------------------------------------------------------------------
(* The process.                                                            *)

\* The part of main up to its loop.
Start ==
    /\ process = "down" /\ Loads(file, env)
    /\ process' = "loop"
    /\ settings' = [instance |-> Instance(file, env), presets |-> Presets(file.presets)]
    /\ described' = {}
    /\ UNCHANGED <<config, next, link, homeAssistant, chosen, bounds>>

\* Seeded fault: a reconnect describes nothing.
FirstOnceOnly == IF described = {} THEN 1 ELSE Len(Entities) + 1

\* ha_publish_discovery begins with the first entity on every connect.
First == 1

Connect ==
    /\ process = "loop" /\ link = "down"
    /\ link' = "up"
    /\ process' = "discovery"
    /\ next' = First
    /\ UNCHANGED <<config, settings, homeAssistant, chosen, bounds, described>>

Names(presets) == [i \in DOMAIN presets |-> presets[i].name]

\* add_preset_options refuses an empty list, and build_entity_payload fails.
Describable(entity) == HasOptions(entity) => settings.presets # <<>>

\* build_entity_payload: the text is copied to a buffer of 1024 and cut there.
Payload(entity) ==
    IF ~HasOptions(entity) THEN Description(<<>>)
    ELSE IF Len(settings.presets) <= Room THEN Description(Names(settings.presets))
    ELSE NoDescription

\* The loop publishes the next entity, with or without a session.  Home
\* Assistant keeps what it has when it cannot parse what is new.
Describe ==
    LET entity == Entities[next]
        key == <<settings.instance, entity>>
        payload == Payload(entity)
    IN
    /\ process = "discovery" /\ next \in DOMAIN Entities /\ Describable(entity)
    /\ next' = next + 1
    /\ IF link = "up"
       THEN /\ retained' = [retained EXCEPT ![key] = payload]
            /\ shown' = IF payload.whole THEN [shown EXCEPT ![key] = payload] ELSE shown
            /\ described' = IF payload.whole THEN described \cup {entity} ELSE described
       ELSE UNCHANGED <<homeAssistant, described>>
    /\ UNCHANGED <<config, process, settings, link, chosen, bounds>>

\* The loop ends after the last entity, or at the first that cannot be described;
\* ha_on_connect goes on in either case and subscribes.
EndDiscovery ==
    /\ process = "discovery"
    /\ next \in DOMAIN Entities => ~Describable(Entities[next])
    /\ process' = "loop"
    /\ next' = 0
    /\ UNCHANGED <<config, settings, link, homeAssistant, chosen, bounds, described>>

\* A command from the dropdown of the running instance: without a payload it is
\* ignored, else profiles_repo_resolve_preset looks the name up.
Choose(name) ==
    /\ process = "loop" /\ link = "up"
    /\ \E i \in DOMAIN shown[<<settings.instance, "preset">>].options :
          shown[<<settings.instance, "preset">>].options[i] = name
    /\ ~(Blank(name) /\ ~name.padded)
    /\ chosen' = [name |-> name, directory |-> Resolve(settings.presets, name),
                  fresh |-> "preset" \in described]
    /\ UNCHANGED <<config, process, settings, next, link, homeAssistant, bounds, described>>

\* It stops or dies.
Stop ==
    /\ process # "down"
    /\ process' = "down" /\ link' = "down" /\ next' = 0
    /\ settings' = NoSettings /\ chosen' = NoChoice
    /\ UNCHANGED <<config, homeAssistant, bounds, described>>
-----------------------------------------------------------------------------
(* Its surroundings.                                                       *)

LinkLost ==
    /\ link = "up" /\ losses < MaxLosses
    /\ link' = "down"
    /\ losses' = losses + 1
    /\ UNCHANGED <<config, process, settings, next, homeAssistant, chosen, edits, described>>

\* Only a start reads the file, and a new environment needs a new container: an edit
\* matters between a stop and a start.
Edit ==
    /\ process = "down" /\ edits < MaxEdits
    /\ edits' = edits + 1
    /\ \/ file' \in Files \ {file} /\ UNCHANGED env
       \/ env' \in Envs \ {env} /\ UNCHANGED file
    /\ UNCHANGED <<process, settings, next, link, homeAssistant, chosen, losses, described>>

\* Home Assistant starts again and reads what the broker retained.
HomeAssistantRestart ==
    /\ shown # retained
    /\ shown' = retained
    /\ UNCHANGED <<config, process, settings, next, link, retained, chosen, bounds, described>>

Next ==
    \/ Start \/ Connect \/ Describe \/ EndDiscovery
    \/ \E f \in Files : \E i \in DOMAIN f.presets : Choose(f.presets[i].name)
    \/ Stop \/ LinkLost \/ Edit \/ HomeAssistantRestart

Spec == Init /\ [][Next]_vars
-----------------------------------------------------------------------------
(* Properties.                                                             *)

\* The documentation's rule for the presets of a file: every entry has a name and
\* a directory, and no two names are the same but for case and surrounding space.
\* (A blank name goes through only when it is the only one.)
WellFormed(entries) ==
    /\ \A i \in DOMAIN entries : entries[i].name # NoName /\ entries[i].directory # None
    /\ \A i, j \in DOMAIN entries :
          i # j => entries[i].name.word \notin {"", entries[j].name.word}

\* A process that starts has all the presets of the file, if they follow the rule,
\* and otherwise none: config_load_presets never keeps a part of them, nor two
\* that a lookup could confuse.
LoadsOrDiscards ==
    [][(process = "down" /\ process' # "down") =>
         settings'.presets = IF WellFormed(file.presets) THEN file.presets ELSE <<>>]_vars

\* A preset chosen in Home Assistant leads to a directory that the running
\* configuration gives to that name, but for case, or to none if the dropdown is an
\* older configuration's and the name is gone; if the dropdown is this process's own,
\* to the directory of exactly that preset.
ChosenIsConfigured ==
    chosen.name # NoName =>
        \E i \in DOMAIN settings.presets \cup {0} :
            IF i = 0 THEN chosen.directory = None /\ ~chosen.fresh
            ELSE /\ settings.presets[i].directory = chosen.directory
                 /\ \/ settings.presets[i].name = chosen.name
                    \/ ~chosen.fresh /\ SameButForCase(settings.presets[i].name, chosen.name)

\* After every connect whose session lasts, Home Assistant shows each entity as
\* the running process describes it, whatever was lost, restarted or retained
\* before; but without presets only the three entities before the dropdown, and
\* not a dropdown that is cut.
OfferIsCurrent ==
    (process = "loop" /\ link = "up") =>
        \A i \in DOMAIN Entities :
            \/ shown[<<settings.instance, Entities[i]>>]
                 = Description(IF HasOptions(Entities[i]) THEN Names(settings.presets) ELSE <<>>)
            \/ settings.presets = <<>> /\ i > 3
            \/ Len(settings.presets) > Room /\ HasOptions(Entities[i])
=============================================================================
