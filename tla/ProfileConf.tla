---------------------------- MODULE ProfileConf ----------------------------
(***************************************************************************)
(* The two configurations of the doorbell, how profiles are written to and *)
(* read from them (src/src/unifi_profile_conf.c), and the description of a *)
(* profile in its profile.json (unifi_profile_json.c), which a user writes *)
(* or a download.  customAnimations and customSounds are arrays of objects; *)
(* a profile owns the first animation whose guiId is WELCOME and the first *)
(* sound whose soundStateName is RING_BUTTON_PRESSED, and everything else  *)
(* belongs to the firmware.  An array is a sequence, an object a function  *)
(* from the keys it has; "id" is the key that selects.                     *)
(***************************************************************************)
EXTENDS Naturals, Sequences, FiniteSets, SequencesExt

CONSTANTS FileNames,   \* names of the animations and sounds of profiles
          Numbers,     \* their values of count, durationMs, repeatTimes and volume
          MaxEntries   \* bound: entries of one array at the start; both together
                       \* have one more at most

ASSUME SettingsAssumption == "" \notin FileNames /\ Numbers \subseteq Nat /\ MaxEntries \in Nat

VARIABLES
  animations,  \* customAnimations of ubnt_lcm_gui.conf
  sounds,      \* customSounds of ubnt_sounds_leds.conf
  start,       \* history: both arrays at the start
  profile,     \* history: the profile last applied, or none
  saved        \* the description that the last download wrote, if any

vars == <<animations, sounds, start, profile, saved>>

Ours == "ours"  \* WELCOME in one array, RING_BUTTON_PRESSED in the other

\* What a profile says of one entry.  number is count or repeatTimes; durationMs
\* and volume are treated alike.
Part == [enable : BOOLEAN, file : FileNames \cup {""}, number : Numbers, loop : BOOLEAN]
AnimationKeys == {"enable", "file", "number", "loop"}
SoundKeys == AnimationKeys \ {"loop"}

\* What a user may write of an entry: a key may be missing.
Written(keys) ==
    {Restrict(p, some) : p \in Part, some \in {k \in SUBSET keys : Cardinality(keys \ k) <= 1}}
NoProfile == [animation |-> {}, sound |-> {}]

\* Entries the firmware may have written: another one's, a whole one, and one that
\* lacks keys.
Entry ==
    {[id |-> "other", file |-> "stock"],
     [id |-> Ours, enable |-> TRUE, file |-> "stock", number |-> 1],
     [id |-> Ours, enable |-> FALSE]}

Arrays == UNION {[1..n -> Entry] : n \in 0..MaxEntries}

Init ==
    /\ animations \in Arrays /\ sounds \in Arrays
    /\ Len(animations) + Len(sounds) <= MaxEntries + 1
    /\ start = [animations |-> animations, sounds |-> sounds]
    /\ profile = NoProfile /\ saved = {}
-----------------------------------------------------------------------------
(* Finding the entry.                                                      *)

IsOurs(entry) == "id" \in DOMAIN entry /\ entry.id = Ours
OursIn(array) == {i \in DOMAIN array : IsOurs(array[i])}
First(array) == CHOOSE i \in OursIn(array) : \A j \in OursIn(array) : i <= j

\* Seeded fault: the entry is appended whether there was one or not.
WithOursAppended(array) == Append(array, [id |-> Ours])

\* The array with an entry of ours, appended when there was none.
WithOurs(array) ==
    IF OursIn(array) # {} THEN array ELSE Append(array, [id |-> Ours])

Value(entry, key, default) == IF key \in DOMAIN entry THEN entry[key] ELSE default
-----------------------------------------------------------------------------
(* Writing and reading.                                                    *)

\* json_upsert_number_cs and the others: the keys of part are added or replaced.
Upsert(entry, part) ==
    [k \in DOMAIN entry \cup DOMAIN part |-> IF k \in DOMAIN part THEN part[k] ELSE entry[k]]

\* Seeded fault: the keys do not match.
ReplaceNothing(entry, part) == entry

\* cJSON_ReplaceItemInObjectCaseSensitive: a key that is absent stays absent.
Replace(entry, part) ==
    [k \in DOMAIN entry |-> IF k \in DOMAIN part THEN part[k] ELSE entry[k]]

\* Seeded faults: every animation gives way to the profile's; an existing entry
\* is left as it is; a profile without an animation changes nothing.
PatchAnimationsAlone(array, part) == << Upsert([id |-> Ours], part) >>
PatchAnimationsNew(array, part) ==
    IF OursIn(array) # {} THEN array ELSE Append(array, Upsert([id |-> Ours], part))
PatchAnimationsKeep(array, part) ==
    IF part.enable /\ part.file # ""
    THEN LET with == WithOurs(array)
         IN  [with EXCEPT ![First(with)] = Upsert(@, part)]
    ELSE array

\* unifi_profile_patch_lcm_gui_conf
PatchAnimations(array, part) ==
    IF part.enable /\ part.file # ""
    THEN LET with == WithOurs(array)
         IN  [with EXCEPT ![First(with)] = Upsert(@, part)]
    ELSE IF OursIn(array) = {} THEN array
    ELSE RemoveAt(array, First(array))

\* unifi_profile_patch_sounds_leds_conf
PatchSounds(array, part) ==
    IF part.enable /\ part.file # ""
    THEN LET with == WithOurs(array)
         IN  [with EXCEPT ![First(with)] = Replace(@, part)]
    ELSE array

\* What a download reads from an array, where without is the number of a profile
\* that has no entry there.
ReadPart(array, without) ==
    IF OursIn(array) = {} THEN [enable |-> FALSE, file |-> "", number |-> without]
    ELSE LET entry == array[First(array)]
         IN  [enable |-> Value(entry, "enable", FALSE), file |-> Value(entry, "file", ""),
              number |-> Value(entry, "number", 1)]

\* unifi_profile_read_from_lcm_gui_conf, which does not read the loop and leaves
\* it reset.
ReadAnimation(array) ==
    [k \in AnimationKeys |-> IF k = "loop" THEN FALSE ELSE ReadPart(array, 0)[k]]

\* unifi_profile_read_from_sounds_leds_conf
ReadSound(array) == ReadPart(array, 1)
-----------------------------------------------------------------------------
(* Descriptions, and what is done with them.                               *)

\* Seeded fault: the number is looked for under another key.
LoadMisnamed(description, keys) ==
    [k \in keys |-> IF k \in DOMAIN description /\ k # "number" THEN description[k] ELSE
        CASE k \in {"enable", "loop"} -> FALSE [] k = "file" -> "" [] OTHER -> 0]

\* unifi_profile_load_from_file: what is absent stays zero.
Load(description, keys) ==
    [k \in keys |-> IF k \in DOMAIN description THEN description[k] ELSE
        CASE k \in {"enable", "loop"} -> FALSE [] k = "file" -> "" [] OTHER -> 0]

\* The upload refuses a part that is enabled and names no file.
Refused(part) == part.enable /\ part.file = ""

\* A profile is applied: both arrays are patched, the sounds only if the sound is
\* enabled, and the doorbell takes the result.
Apply(animation, sound) ==
    /\ ~Refused(animation) /\ ~Refused(sound)
    /\ animations' = PatchAnimations(animations, animation)
    /\ sounds' = PatchSounds(sounds, sound)
    /\ profile' = [animation |-> {animation}, sound |-> {sound}]
    /\ UNCHANGED <<start, saved>>

WrittenAnimations == {Load(d, AnimationKeys) : d \in Written(AnimationKeys)}
WrittenSounds == {Load(d, SoundKeys) : d \in Written(SoundKeys)}

ApplyWritten ==
    \E animation \in WrittenAnimations, sound \in WrittenSounds : Apply(animation, sound)

\* The directory of a download is applied, as a preset or as a custom profile.
ApplyDownloaded ==
    \E d \in saved : Apply(Load(d.animation, AnimationKeys), Load(d.sound, SoundKeys))

\* unifi_profile_write_to_file writes every key of what was read.  Without the name
\* of a sound there is no sound to fetch, and the download fails.
Download ==
    /\ ReadSound(sounds).file # ""
    /\ saved' = {[animation |-> ReadAnimation(animations), sound |-> ReadSound(sounds)]}
    /\ UNCHANGED <<animations, sounds, start, profile>>

Next == ApplyWritten \/ ApplyDownloaded \/ Download

Spec == Init /\ [][Next]_vars
-----------------------------------------------------------------------------
(* Properties.                                                             *)

\* The entries that are not ours.  SelectSeq says the same, but the prover knows
\* nothing of it.
Firmware(array) ==
    LET kept[i \in 0..Len(array)] ==
          IF i = 0 THEN <<>>
          ELSE IF IsOurs(array[i]) THEN kept[i - 1]
          ELSE Append(kept[i - 1], array[i])
    IN  kept[Len(array)]

\* The keys of the firmware's own entry for the ring sound, if it has one.
FirmwareSoundKeys ==
    IF OursIn(start.sounds) = {} THEN {} ELSE DOMAIN start.sounds[First(start.sounds)]

\* What a profile wrote is what a download reads back, whatever was applied before:
\* the animation but for its loop, and the sound in every key that the firmware's
\* entry has.  A key that it lacks is never added, however often one applies: it
\* reads as if there were no entry, so that an enabled sound may stay off.
AppliedIsRead ==
    /\ \A a \in profile.animation :
         a.enable => ReadAnimation(animations) = [a EXCEPT !.loop = FALSE]
    /\ \A s \in profile.sound : s.enable =>
         \A key \in SoundKeys :
             ReadSound(sounds)[key] = IF key \in FirmwareSoundKeys THEN s[key]
                                      ELSE ReadSound(<<>>)[key]

\* A profile without an animation leaves none behind, if the firmware never had
\* more than one.
AnimationIsRemoved ==
    \A a \in profile.animation :
        ~(a.enable /\ a.file # "") =>
            \/ Len(animations) = Len(Firmware(animations))
            \/ Len(start.animations) > Len(Firmware(start.animations)) + 1

\* To apply the download of a doorbell that has not changed since changes nothing
\* that a download sees; unless its animation was off, which is then removed.
DownloadIsFaithful ==
    [][\A d \in saved :
         (/\ ApplyDownloaded
          /\ d = [animation |-> ReadAnimation(animations), sound |-> ReadSound(sounds)]
          /\ d.animation.enable \/ OursIn(animations) = {})
         => d = [animation |-> ReadAnimation(animations'), sound |-> ReadSound(sounds')]]_vars

\* The entries that belong to the firmware are kept, in their order.
FirmwareIsKept ==
    /\ Firmware(animations) = Firmware(start.animations)
    /\ Firmware(sounds) = Firmware(start.sounds)

\* Applying a profile again changes nothing, if the firmware never had more than
\* one animation of ours.
ReapplyIsIdle ==
    [][(profile' = profile /\ Len(start.animations) <= Len(Firmware(start.animations)) + 1)
         => UNCHANGED <<animations, sounds>>]_vars
=============================================================================
