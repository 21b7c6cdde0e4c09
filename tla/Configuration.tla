--------------------------- MODULE Configuration ---------------------------
(***************************************************************************)
(* config_load (src/src/config.c): what a start makes of config.json and   *)
(* of the environment.  A string setting is a model string, Unset when the *)
(* source does not have it; the presets are a sequence of entries.  A name *)
(* is its word in lower case and whether it has capitals and surrounding   *)
(* space, which is what the comparisons tell apart.                        *)
(***************************************************************************)
EXTENDS Naturals, Sequences

Unset == "unset"
TooLong == "too long"   \* a value its buffer does not hold
None == "none"        \* no directory, no key
NoName == [word |-> None, capitals |-> FALSE, padded |-> FALSE]

\* cfg_set_str_from_env_json_default: an empty string counts as not set.
StringSetting(env, json, default) ==
    IF env \notin {Unset, ""} THEN env
    ELSE IF json \notin {Unset, ""} THEN json
    ELSE default
-----------------------------------------------------------------------------
(* Names.                                                                  *)

Blank(name) == name.word = ""

\* Seeded faults: the name is only trimmed; it is only put in lower case.
KeyTrimmed(name) == <<name.word, name.capitals>>
KeyLowered(name) == <<name.word, name.padded>>

\* json_strdup_normalized trims and puts in lower case; of a blank name it makes
\* NULL.
Key(name) == IF Blank(name) THEN None ELSE name.word

\* strcasecmp
SameButForCase(a, b) == a.word = b.word /\ a.padded = b.padded
-----------------------------------------------------------------------------
(* config_load_presets.                                                    *)

\* json_get_string returns NULL for a key that is absent or not a string.
Incomplete(entry) == entry.name = NoName \/ entry.directory = None

\* preset_key_exists passes both keys to strcmp, from the first on, and neither
\* may be NULL.
ComparesNull(entries, i) ==
    i > 1 /\ (Blank(entries[i].name) \/ Blank(entries[1].name))

Duplicate(entries, i) == \E j \in 1..(i - 1) : Key(entries[j].name) = Key(entries[i].name)

\* The loop up to entry i: it goes on, jumps to fail, or the process dies.
Scan(entries) ==
    LET scanned[i \in 0..Len(entries)] ==
          IF i = 0 THEN "loaded"
          ELSE IF scanned[i - 1] # "loaded" THEN scanned[i - 1]
          ELSE IF Incomplete(entries[i]) THEN "discarded"
          ELSE IF ComparesNull(entries, i) THEN "crashed"
          ELSE IF Duplicate(entries, i) THEN "discarded"
          ELSE "loaded"
    IN  scanned[Len(entries)]

\* Every entry, or none.
Presets(entries) == IF Scan(entries) = "loaded" THEN entries ELSE <<>>
-----------------------------------------------------------------------------
(* config_load.                                                            *)

\* config_load_mqtt, of which the instance stands for every string setting.
Instance(file, env) == StringSetting(env, file.instance, "default")

\* The file is read and parsed and has its three sections, and every string
\* setting fits; the presets cannot make it fail, only kill the process.
Loads(file, env) ==
    file.whole /\ Instance(file, env) # TooLong /\ Scan(file.presets) # "crashed"

\* config_get_preset_directory: the first preset of the name.
Resolve(presets, name) ==
    LET matching == {i \in DOMAIN presets : SameButForCase(presets[i].name, name)} IN
    IF matching = {} THEN None
    ELSE presets[CHOOSE i \in matching : \A j \in matching : i <= j].directory
=============================================================================
