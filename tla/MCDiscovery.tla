---------------------------- MODULE MCDiscovery ----------------------------
\* Presets that are right, that collide in each way, that lack a key or a name;
\* settings from the file, the environment or neither, and one that does not fit.
EXTENDS Discovery

Preset(word, capitals, padded, directory) ==
    [name |-> [word |-> word, capitals |-> capitals, padded |-> padded],
     directory |-> directory]
Party == Preset("party", FALSE, FALSE, "party")
Garden == Preset("garden", TRUE, FALSE, "garden")
Entries ==
    {Party, Garden,
     Preset("party", TRUE, FALSE, "other"), Preset("party", FALSE, TRUE, "other"),
     Preset("", FALSE, FALSE, "empty"), Preset("", FALSE, TRUE, "space"),
     Preset("garden", TRUE, FALSE, None), [name |-> NoName, directory |-> "other"]}
Lists ==
    {<<>>} \cup {<<e>> : e \in Entries}
    \cup {<<Party, e>> : e \in Entries} \cup {<<e, Party>> : e \in Entries}
    \cup {<<Party, Garden, Preset("yard", FALSE, TRUE, "yard")>>}
MCFiles ==
    {[whole |-> TRUE, instance |-> Unset, presets |-> list] : list \in Lists}
    \cup {[whole |-> whole, instance |-> instance, presets |-> <<Garden, Party>>] :
             whole \in BOOLEAN, instance \in {"", "porch", TooLong}}
MCEnvs == {Unset, "", "yard"}
MCInstances == {"default", "porch", "yard"}
=============================================================================
