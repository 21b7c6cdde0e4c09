--------------------------- MODULE AssetDownload ---------------------------
(***************************************************************************)
(* command_download_assets (src/src/command.c): the profile that the       *)
(* doorbell holds is fetched file by file into a directory of its own under *)
(* profiles/tmp, which is then renamed into profiles/downloads, or into    *)
(* profiles/partial when something failed, under the second the command    *)
(* started.  Every step may fail, and the process may die between any two; *)
(* what it leaves under tmp is never cleaned.                              *)
(***************************************************************************)
EXTENDS Integers

CONSTANTS MaxCommands,  \* bound: downloads in a behaviour
          MaxTime,      \* bound: seconds
          MaxCrashes    \* bound: deaths of the process

ASSUME BoundsAssumption ==
    MaxCommands \in Nat /\ MaxTime \in Nat /\ MaxCrashes \in Nat

VARIABLES
  tree,      \* what profiles/ holds: contents of the directories that exist
  at,        \* where the worker is in the handler
  temp,      \* temp_path
  path,      \* final_path
  now,       \* the time of the command
  animated,  \* the doorbell's configuration names a welcome animation
  status,    \* retained at the broker
  last,      \* full_path of last_download, retained at the broker
  clock,     \* the wall clock
  commands, crashes,  \* counters of the bounds
  errors,    \* history: the command has published an error
  abandoned  \* history: temporary directories left by a crash or a failed rename

vars == <<tree, at, temp, path, now, animated, status, last, clock, commands,
          crashes, errors, abandoned>>

Files == {"lcm_gui.conf", "sounds_leds.conf", "animation", "sound", "profile.json"}

\* What an uninitialised path names: nothing in the repository.
Garbage == <<"garbage", 0>>

Init ==
    /\ tree = [p \in {} |-> {}]
    /\ at = "idle" /\ temp = Garbage /\ path = Garbage /\ now = 0 /\ animated = FALSE
    /\ status = "unset" /\ last = <<"unset", 0>> /\ clock = 0
    /\ commands = 0 /\ crashes = 0 /\ errors = FALSE /\ abandoned = {}
-----------------------------------------------------------------------------
(* The handler.                                                            *)

Begin ==
    /\ at = "idle" /\ commands < MaxCommands
    /\ commands' = commands + 1
    /\ status' = "downloading"
    /\ now' = clock
    /\ temp' = Garbage /\ path' = Garbage
    /\ errors' = FALSE
    /\ at' = "temp"
    /\ UNCHANGED <<tree, animated, last, clock, crashes, abandoned>>

\* profiles_repo_create_temp_profile_dir; the handler goes on without it.
CreateTemp(ok) ==
    /\ at = "temp"
    /\ temp' = IF ok THEN <<"tmp", commands>> ELSE Garbage
    /\ tree' = [p \in DOMAIN tree \cup ({temp'} \ {Garbage}) |->
                  IF p \in DOMAIN tree THEN tree[p] ELSE {}]
    /\ errors' = ~ok
    /\ at' = "connect"
    /\ UNCHANGED <<path, now, animated, status, last, clock, commands, crashes, abandoned>>

\* Without a session the handler returns, leaving status and directory behind.
Connect(ok) ==
    /\ at = "connect"
    /\ at' = IF ok THEN "lcm_gui.conf" ELSE "idle"
    /\ errors' = (errors \/ ~ok)
    /\ UNCHANGED <<tree, temp, path, now, animated, status, last, clock, commands,
                   crashes, abandoned>>

\* Seeded faults: the cleanup leaves the directory where it is; it takes a
\* failed download for a whole one.
AfterFailureForgotten == "publish"
AfterFailurePromoted == "rename"

\* goto cleanup with partial_download still set.
AfterFailure == "partial"

\* Seeded fault: a failure is only logged.
ReportsNot == FALSE

Reports == TRUE

\* A file of temp_path is written whole, or fails and may be left torn.
Store(file, next, ok, torn) ==
    /\ at = file
    /\ tree' = [p \in DOMAIN tree |->
                  IF p # temp THEN tree[p]
                  ELSE IF ok THEN tree[p] \cup {file}
                  ELSE IF torn THEN tree[p] \cup {"torn"} ELSE tree[p]]
    /\ at' = IF ok THEN next ELSE AfterFailure
    /\ errors' = (errors \/ (~ok /\ Reports))
    /\ UNCHANGED <<temp, path, now, animated, status, last, clock, commands, crashes,
                   abandoned>>

\* ssh_scp_download_file does not look at what fclose returns: when the disk fills
\* there, part of the file passes for the whole.
StoreCutShort(file, next) ==
    /\ at = file
    /\ tree' = [p \in DOMAIN tree |-> IF p = temp THEN tree[p] \cup {file, "short"}
                                      ELSE tree[p]]
    /\ at' = next
    /\ UNCHANGED <<temp, path, now, animated, status, last, clock, commands, crashes,
                   errors, abandoned>>

\* The two configuration files are read into the profile.
Load(ok, animation) ==
    /\ at = "load"
    /\ animated' = animation
    /\ at' = IF ~ok THEN AfterFailure ELSE IF animation THEN "animation" ELSE "sound"
    /\ errors' = (errors \/ (~ok /\ Reports))
    /\ UNCHANGED <<tree, temp, path, now, status, last, clock, commands, crashes, abandoned>>

\* Seeded fault: what stands in the way of the rename is removed first.
VacantAlways(p) == TRUE

\* rename(2) moves a directory only to a free name or over an empty directory.
Vacant(p) == p \in DOMAIN tree => tree[p] = {}

\* profiles_repo_rename_temp_profile_dir: on failure out_path is not written, and
\* the directory stays under tmp, which the handler never looks at again.
Rename(from, directory, ok) ==
    LET to == <<directory, now>> IN
    /\ at = from
    /\ ok => temp \in DOMAIN tree /\ Vacant(to)
    /\ tree' = IF ok THEN [p \in (DOMAIN tree \ {temp}) \cup {to} |->
                             IF p = to THEN tree[temp] ELSE tree[p]]
                     ELSE tree
    /\ path' = IF ok THEN to ELSE path
    /\ errors' = (errors \/ (~ok /\ Reports))
    /\ abandoned' = IF ok THEN abandoned ELSE abandoned \cup {temp}
    /\ at' = "publish"
    /\ UNCHANGED <<temp, now, animated, status, last, clock, commands, crashes>>

\* status_set_last_download and status_set_state end every way here; the path is
\* the one Rename left, or not initialised.
Publish ==
    /\ at = "publish"
    /\ last' = path
    /\ status' = "idle"
    /\ at' = "idle"
    /\ UNCHANGED <<tree, temp, path, now, animated, clock, commands, crashes, errors,
                   abandoned>>
-----------------------------------------------------------------------------
Tick ==
    /\ clock < MaxTime
    /\ clock' = clock + 1
    /\ UNCHANGED <<tree, at, temp, path, now, animated, status, last, commands, crashes,
                   errors, abandoned>>

\* The process dies and is started again.
Crash ==
    /\ at # "idle" /\ crashes < MaxCrashes
    /\ crashes' = crashes + 1
    /\ at' = "idle"
    /\ abandoned' = abandoned \cup {temp}
    /\ errors' = TRUE
    /\ UNCHANGED <<tree, temp, path, now, animated, status, last, clock, commands>>

Next ==
    \/ Begin
    \/ \E ok \in BOOLEAN : CreateTemp(ok) \/ Connect(ok)
    \/ \E ok, torn \in BOOLEAN :
         \/ Store("lcm_gui.conf", "sounds_leds.conf", ok, torn)
         \/ Store("sounds_leds.conf", "load", ok, torn)
         \/ Store("animation", "sound", ok, torn)
         \/ Store("sound", "profile.json", ok, torn)
         \/ Store("profile.json", "rename", ok, torn)
    \/ StoreCutShort("lcm_gui.conf", "sounds_leds.conf")
    \/ StoreCutShort("sounds_leds.conf", "load")
    \/ StoreCutShort("animation", "sound") \/ StoreCutShort("sound", "profile.json")
    \/ \E ok, animation \in BOOLEAN : Load(ok, animation)
    \/ \E ok \in BOOLEAN :
         Rename("rename", "downloads", ok) \/ Rename("partial", "partial", ok)
    \/ Publish
    \/ Tick \/ Crash

Spec == Init /\ [][Next]_vars
-----------------------------------------------------------------------------
(* Properties.                                                             *)

\* What enters profiles/downloads is whole: every file of the doorbell's profile,
\* and none that a failed transfer tore, whatever failed on the way.  A transfer that
\* succeeds may still leave a file short, which CompletedNeverCorrupted is about.
DownloadsAreWhole ==
    [][\A p \in DOMAIN tree' \ DOMAIN tree : p[1] = "downloads" =>
          tree'[p] \ {"short"} = IF animated THEN Files ELSE Files \ {"animation"}]_vars

\* What the documentation promises of the directories of downloads: a completed
\* profile is never corrupted, so no file in it is only part of the doorbell's.
CompletedNeverCorrupted ==
    \A p \in DOMAIN tree : p[1] = "downloads" => tree[p] \cap {"short", "torn"} = {}

\* A directory of downloads or partial that holds anything is never replaced,
\* changed or removed, also when two commands start in the same second.
NothingOverwritten ==
    [][\A p \in DOMAIN tree : p[1] # "tmp" /\ tree[p] # {} =>
          p \in DOMAIN tree' /\ tree'[p] = tree[p]]_vars

\* What was fetched can be inspected: between commands nothing but empty
\* directories is left under tmp, except by a crash or a failed rename.
NothingLeftInTmp ==
    at = "idle" =>
        \A p \in DOMAIN tree : p[1] = "tmp" => tree[p] = {} \/ p \in abandoned

\* A command that published no error published the path of a directory that is
\* there, under downloads.
NoErrorMeansDownloaded ==
    at = "idle" /\ commands > 0 /\ ~errors =>
        last = <<"downloads", now>> /\ last \in DOMAIN tree
=============================================================================
