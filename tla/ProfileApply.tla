---------------------------- MODULE ProfileApply ----------------------------
(***************************************************************************)
(* unifi_profile_upload_and_apply (src/src/unifi_remote.c) and the script  *)
(* it has the doorbell run (ssh_commands.h, ssh_commands.c).  The files of *)
(* a profile are uploaded one by one to one fixed directory under /tmp of  *)
(* the doorbell; the script moves them into place and restarts the         *)
(* services.  When the connection drops under ssh_exec_command the command *)
(* fails here, or never returns, while the script goes on there, and the   *)
(* next command uploads into the same directory.                           *)
(***************************************************************************)
EXTENDS Naturals, Sequences

CONSTANTS Profiles,    \* the profiles that may be applied
          Welcome,     \* those with the welcome animation enabled
          Ring,        \* those with the ring sound enabled
          MaxCommands, \* bound: applies in a behaviour
          MaxFaults    \* bound: connections that drop, deaths of the process,
                       \* transfers cut short unnoticed

ASSUME ProfilesAssumption == Welcome \subseteq Profiles /\ Ring \subseteq Profiles
ASSUME BoundsAssumption == MaxCommands \in Nat /\ MaxFaults \in Nat

VARIABLES
  worker,   \* what the worker has yet to do, for which profile, and the
            \* configurations it downloaded
  result,   \* what the last apply returned
  tmp,      \* the files in the upload directory
  sender,   \* the profile that emptied it last, whose names those files have
  bell,     \* the files in their places on the doorbell
  running,  \* the files the services were last started with
  script,   \* what the script of the current command has yet to do
  orphan,   \* the same for a script whose connection dropped
  hung,     \* ssh_exec_command does not return
  commands, faults,  \* counters of the bounds
  tainted   \* history: the last command met an orphan, lost its script, or sent
            \* part of a file for the whole

vars == <<worker, result, tmp, sender, bell, running, script, orphan, hung, commands,
          faults, tainted>>

Animation == {"anim", "anim.md5", "lcm_gui.conf"}
Sound == {"sound", "sound.md5", "sounds_leds.conf"}
Items == Animation \cup Sound
Confs == {"lcm_gui.conf", "sounds_leds.conf"}
None == "none"
\* A partial file: its transfer failed, it was sent short unnoticed, or its move
\* into place was cut.
Partial == {"torn", "short", "cut"}
Nothing == [x \in Items |-> None]
Idle == worker.todo = <<>>

ASSUME MarksAssumption == Profiles \cap (Partial \cup {None}) = {}

\* No profile at the start: what the firmware ships is not one.
Init ==
    /\ worker = [todo |-> <<>>, profile |-> None, confs |-> [x \in Confs |-> None]]
    /\ result = "NONE"
    /\ tmp = Nothing /\ sender = None /\ bell = Nothing /\ running = Nothing
    /\ script = <<>> /\ orphan = [todo |-> <<>>, profile |-> None]
    /\ hung = FALSE
    /\ commands = 0 /\ faults = 0 /\ tainted = FALSE
-----------------------------------------------------------------------------
(* The upload.                                                             *)

When(condition, steps) == IF condition THEN steps ELSE <<>>

\* The steps up to the script; an item stands for hashing and sending it.
Upload(p) ==
    <<"mkdtemp", "get_confs", "rm_remote", "mkdir_remote", "patch_lcm">>
    \o When(p \in Welcome, <<"anim", "anim.md5">>)
    \o <<"lcm_gui.conf">>
    \o When(p \in Ring, <<"patch_sounds", "sound", "sound.md5", "sounds_leds.conf">>)
    \o <<"script">>

\* What the step returns when it fails.
Codes(step) ==
    CASE step \in {"get_confs", "patch_lcm", "patch_sounds"} -> {"DOWNLOAD_FAILED"}
      [] step \in {"mkdtemp", "rm_remote", "mkdir_remote"} -> {"UPLOAD_FAILED"}
      [] step = "anim" -> {"PROFILE_INVALID", "UPLOAD_FAILED", "TRANSFER_FAILED"}
      [] step = "sound" -> {"UPLOAD_FAILED", "TRANSFER_FAILED"}
      [] step \in {"anim.md5", "lcm_gui.conf", "sound.md5", "sounds_leds.conf"}
           -> {"TRANSFER_FAILED"}

\* Only a configuration that parses can be patched.
Patches(step) ==
    /\ step = "patch_lcm" => worker.confs["lcm_gui.conf"] \notin {"cut", "short"}
    /\ step = "patch_sounds" => worker.confs["sounds_leds.conf"] \notin {"cut", "short"}

\* Seeded fault: a failed transfer is only logged.
AfterFailureOn(todo) == Tail(todo)

\* goto cleanup.
AfterFailure(todo) == <<>>

Begin(p) ==
    /\ Idle /\ script = <<>> /\ commands < MaxCommands
    /\ commands' = commands + 1
    /\ worker' = [worker EXCEPT !.todo = Upload(p), !.profile = p]
    /\ tainted' = (orphan.todo # <<>>)
    /\ UNCHANGED <<result, tmp, sender, bell, running, script, orphan, hung, faults>>

\* The next step of the upload succeeds.
UploadStep ==
    LET step == Head(worker.todo) IN
    /\ ~Idle /\ ~hung /\ step # "script" /\ Patches(step)
    /\ tmp' = CASE step = "rm_remote" -> Nothing
                [] step \in Items -> [tmp EXCEPT ![step] = worker.profile]
                [] OTHER -> tmp
    /\ sender' = IF step = "rm_remote" THEN worker.profile ELSE sender
    /\ worker' = [worker EXCEPT !.todo = Tail(@),
                    !.confs = IF step = "get_confs" THEN [x \in Confs |-> bell[x]]
                              ELSE @]
    /\ UNCHANGED <<result, bell, running, script, orphan, hung, commands, faults, tainted>>

\* It seems to: ssh_scp_upload_file ignores what comes back after the last write, so
\* a full disk or a lost connection leaves a part of the file there.
UploadCutShort ==
    LET step == Head(worker.todo) IN
    /\ ~Idle /\ ~hung /\ step \in Items /\ faults < MaxFaults
    /\ faults' = faults + 1
    /\ tmp' = [tmp EXCEPT ![step] = "short"]
    /\ worker' = [worker EXCEPT !.todo = Tail(@)]
    /\ tainted' = TRUE
    /\ UNCHANGED <<result, sender, bell, running, script, orphan, hung, commands>>

\* It fails; a transfer that fails may leave part of a file.
UploadFails(torn) ==
    LET step == Head(worker.todo) IN
    /\ ~Idle /\ ~hung /\ step # "script"
    /\ tmp' = IF step \in Items /\ torn THEN [tmp EXCEPT ![step] = "torn"] ELSE tmp
    /\ worker' = [worker EXCEPT !.todo = AfterFailure(@)]
    /\ result' \in Codes(step)
    /\ UNCHANGED <<sender, bell, running, script, orphan, hung, commands, faults, tainted>>
-----------------------------------------------------------------------------
(* The script.                                                             *)

SoundPart(p) ==
    When(p \in Ring, <<"cleanup_snd", "sound", "sound.md5", "sounds_leds.conf">>)

\* Seeded faults: the configuration is moved before what it names; a profile
\* without an animation leaves the old files; the sounds are cleaned always, or
\* moved after the restart.
ScriptConfFirst(p) ==
    <<"ensure_dirs", "cleanup_anim", "lcm_gui.conf">>
    \o When(p \in Welcome, <<"anim", "anim.md5">>)
    \o SoundPart(p) \o <<"restart_services">>
ScriptWithoutCleanup(p) ==
    <<"ensure_dirs">> \o When(p \in Welcome, <<"cleanup_anim", "anim", "anim.md5">>)
    \o <<"lcm_gui.conf">>
    \o SoundPart(p) \o <<"restart_services">>
ScriptCleansSounds(p) ==
    <<"ensure_dirs", "cleanup_anim">> \o When(p \in Welcome, <<"anim", "anim.md5">>)
    \o <<"lcm_gui.conf", "cleanup_snd">> \o SoundPart(p) \o <<"restart_services">>
ScriptRestartsEarly(p) ==
    <<"ensure_dirs", "cleanup_anim">> \o When(p \in Welcome, <<"anim", "anim.md5">>)
    \o <<"lcm_gui.conf", "restart_services">> \o SoundPart(p)

\* build_apply_profile_command; an item stands for moving it into place.
Script(p) ==
    <<"ensure_dirs", "cleanup_anim">> \o When(p \in Welcome, <<"anim", "anim.md5">>)
    \o <<"lcm_gui.conf">> \o SoundPart(p) \o <<"restart_services">>

\* ssh_exec_command sends the script, or cannot open a channel for it.
StartScript(ok) ==
    /\ ~Idle /\ ~hung /\ Head(worker.todo) = "script" /\ script = <<>>
    /\ IF ok THEN /\ script' = Script(worker.profile)
                 /\ UNCHANGED <<worker, result>>
             ELSE /\ worker' = [worker EXCEPT !.todo = <<>>]
                  /\ result' = "APPLY_FAILED"
                  /\ UNCHANGED script
    /\ UNCHANGED <<tmp, sender, bell, running, orphan, hung, commands, faults, tainted>>

\* mv finds a file, whole or not, under its name: the two configurations have fixed
\* ones, the assets those that the profile whose files were sent gives them.  The
\* names that two profiles give are taken to differ.
Moves(step, p) == tmp[step] # None /\ (step \in Confs \/ sender = p)

\* What a step that succeeds does to the files and the services.
Perform(step, p) ==
    \/ /\ step \in Items /\ Moves(step, p)
       /\ bell' = [bell EXCEPT ![step] = tmp[step]]
       /\ tmp' = [tmp EXCEPT ![step] = None]
       /\ UNCHANGED running
    \/ /\ step = "ensure_dirs"
       /\ UNCHANGED <<bell, tmp, running>>
    \/ /\ step = "cleanup_anim"
       /\ bell' = [bell EXCEPT !["anim"] = None, !["anim.md5"] = None]
       /\ UNCHANGED <<tmp, running>>
    \/ /\ step = "cleanup_snd"
       /\ bell' = [bell EXCEPT !["sound"] = None, !["sound.md5"] = None]
       /\ UNCHANGED <<tmp, running>>
    \/ /\ step = "restart_services"
       /\ running' = bell
       /\ UNCHANGED <<tmp, bell>>

\* A step succeeds; after the last, ssh_exec_command returns true.
ScriptStep ==
    /\ script # <<>>
    /\ Perform(Head(script), worker.profile)
    /\ script' = Tail(script)
    /\ IF Len(script) = 1 THEN /\ worker' = [worker EXCEPT !.todo = <<>>]
                               /\ result' = "NONE"
                          ELSE UNCHANGED <<worker, result>>
    /\ UNCHANGED <<sender, orphan, hung, commands, faults, tainted>>

\* Seeded fault: the mapped code of the step is returned.
ScriptCodeMapped == "FILE_OPERATION_FAILED"

\* Whichever step it was, the code of map_apply_step_to_error is overwritten.
ScriptCode == "APPLY_FAILED"

\* What a step that fails may do first: a move between two file systems may cut
\* the file short, a restart may be too late only for the script.
Botch(step) ==
    \/ UNCHANGED <<bell, running>>
    \/ /\ step \in Items
       /\ bell' = [bell EXCEPT ![step] = "cut"]
       /\ UNCHANGED running
    \/ /\ step = "restart_services"
       /\ running' = bell
       /\ UNCHANGED bell

\* A step fails and the script exits with its status.
ScriptFails ==
    /\ script # <<>>
    /\ Botch(Head(script))
    /\ script' = <<>>
    /\ worker' = [worker EXCEPT !.todo = <<>>]
    /\ result' = ScriptCode
    /\ UNCHANGED <<tmp, sender, orphan, hung, commands, faults, tainted>>

\* The script is killed: libssh2 has no exit status to give and gives 0.
ScriptKilled ==
    /\ script # <<>>
    /\ script' = <<>>
    /\ worker' = [worker EXCEPT !.todo = <<>>]
    /\ result' = "NONE"
    /\ tainted' = TRUE
    /\ UNCHANGED <<tmp, sender, bell, running, orphan, hung, commands, faults>>

\* The connection drops under the script.  Before the reply to the request
\* ssh_exec_command fails; after it the loop that reads never sees the end of the
\* channel, and the call does not return.  Bound: one orphan at a time.
Drop(returns) ==
    /\ script # <<>> /\ faults < MaxFaults /\ orphan.todo = <<>>
    /\ faults' = faults + 1
    /\ orphan' = [todo |-> script, profile |-> worker.profile]
    /\ script' = <<>>
    /\ IF returns THEN /\ worker' = [worker EXCEPT !.todo = <<>>]
                      /\ result' = "APPLY_FAILED"
                      /\ UNCHANGED hung
       ELSE hung' = TRUE /\ UNCHANGED <<worker, result>>
    /\ UNCHANGED <<tmp, sender, bell, running, commands, tainted>>

\* It drops while a step of the upload waits for the doorbell: no timeout is set.
UploadHangs ==
    /\ ~Idle /\ ~hung /\ faults < MaxFaults
    /\ Head(worker.todo) \notin {"mkdtemp", "patch_lcm", "patch_sounds", "script"}
    /\ faults' = faults + 1
    /\ hung' = TRUE
    /\ UNCHANGED <<worker, result, tmp, sender, bell, running, script, orphan, commands,
                   tainted>>

\* The process dies, which ends a call that hangs, and is started again.  Bound:
\* one orphan at a time.
Die ==
    /\ ~Idle /\ (hung \/ faults < MaxFaults)
    /\ script = <<>> \/ orphan.todo = <<>>
    /\ faults' = IF hung THEN faults ELSE faults + 1
    /\ orphan' = IF script = <<>> THEN orphan
                 ELSE [todo |-> script, profile |-> worker.profile]
    /\ script' = <<>>
    /\ worker' = [worker EXCEPT !.todo = <<>>]
    /\ result' = "lost"
    /\ hung' = FALSE
    /\ UNCHANGED <<tmp, sender, bell, running, commands, tainted>>

OrphanStep ==
    /\ orphan.todo # <<>>
    /\ Perform(Head(orphan.todo), orphan.profile)
    /\ orphan' = [orphan EXCEPT !.todo = Tail(@)]
    /\ UNCHANGED <<worker, result, sender, script, hung, commands, faults, tainted>>

OrphanFails ==
    /\ orphan.todo # <<>>
    /\ Botch(Head(orphan.todo))
    /\ orphan' = [orphan EXCEPT !.todo = <<>>]
    /\ UNCHANGED <<worker, result, tmp, sender, script, hung, commands, faults, tainted>>

Next ==
    \/ \E p \in Profiles : Begin(p)
    \/ UploadStep \/ UploadCutShort \/ UploadHangs
    \/ \E torn \in BOOLEAN : UploadFails(torn)
    \/ \E ok \in BOOLEAN : StartScript(ok)
    \/ ScriptStep \/ ScriptFails \/ ScriptKilled
    \/ \E returns \in BOOLEAN : Drop(returns)
    \/ Die
    \/ OrphanStep \/ OrphanFails

Spec == Init /\ [][Next]_vars
-----------------------------------------------------------------------------
(* Properties.                                                             *)

Steps == Items \cup
    {"mkdtemp", "get_confs", "rm_remote", "mkdir_remote", "patch_lcm", "patch_sounds",
     "script", "ensure_dirs", "cleanup_anim", "cleanup_snd", "restart_services"}
Sent == Profiles \cup {None, "torn", "short"}
Placed == Profiles \cup Partial \cup {None}

\* Every variable has its type; an apply returns only the codes of the upload and
\* of the script as a whole.
TypeOK ==
    /\ {worker.profile, orphan.profile, sender} \subseteq Profiles \cup {None}
    /\ \A todo \in {worker.todo, script, orphan.todo} :
           \A i \in DOMAIN todo : todo[i] \in Steps
    /\ worker.confs \in [Confs -> Placed] /\ tmp \in [Items -> Sent]
    /\ bell \in [Items -> Placed] /\ running \in [Items -> Placed]
    /\ result \in {"NONE", "DOWNLOAD_FAILED", "UPLOAD_FAILED", "TRANSFER_FAILED",
                   "PROFILE_INVALID", "APPLY_FAILED", "lost"}
    /\ {tainted, hung} \subseteq BOOLEAN /\ {commands, faults} \subseteq Nat

Holds(files, items, p) == \A x \in items : files[x] = p

\* The files of a doorbell that has all of p, and no other's animation.
Whole(files, p) ==
    /\ p \in Profiles
    /\ files["lcm_gui.conf"] = p
    /\ Holds(files, {"anim", "anim.md5"}, IF p \in Welcome THEN p ELSE None)
    /\ p \in Ring => Holds(files, Sound, p)

\* An apply that returns ERROR_NONE leaves the doorbell with the profile: every
\* enabled part in place, no animation of another profile, and the services
\* started with just that, whatever earlier applies left behind half done; unless a
\* script was killed, an orphaned one still ran, or a file was cut short unnoticed.
SuccessMatches ==
    (Idle /\ commands > 0 /\ result = "NONE" /\ ~tainted) =>
        LET p == worker.profile IN
        /\ Whole(bell, p)
        /\ orphan.todo = <<>> => running = bell

\* A configuration is put in place only after the files it names: a script that
\* stops anywhere never leaves a new configuration that names a missing file.
AssetsBeforeConf ==
    [][(orphan.todo = <<>> /\ ~tainted) =>
         /\ (bell'["lcm_gui.conf"] # bell["lcm_gui.conf"] /\ worker.profile \in Welcome)
              => Holds(bell, {"anim", "anim.md5"}, worker.profile)
         /\ bell'["sounds_leds.conf"] # bell["sounds_leds.conf"]
              => Holds(bell, {"sound", "sound.md5"}, worker.profile)]_vars

\* The script of a call moves only whole files of its own profile into place, however
\* many transfers failed, connections dropped, calls hung and processes died before:
\* never a file that an earlier call left behind, torn or not.  What it may leave cut
\* is the file whose move failed; only a transfer cut short unnoticed brings a part of
\* a file.  A script that lost its call has no such bounds.
NothingTorn ==
    [][UNCHANGED orphan =>
         \A x \in Items : bell'[x] # bell[x] =>
             \/ bell'[x] \in {None, "cut", worker.profile}
             \/ bell'[x] = "short" /\ tainted]_vars

\* A profile whose ring sound is disabled leaves the sound of the doorbell alone,
\* also when its script fails.
SoundLeftAlone ==
    [][(worker.profile \notin Ring /\ orphan.todo = <<>>) =>
         \A x \in Sound : bell'[x] = bell[x]]_vars
-----------------------------------------------------------------------------
(* The abstract apply.                                                     *)

Abstract ==
    INSTANCE DoorbellApply WITH
        Errors <- {"DOWNLOAD_FAILED", "UPLOAD_FAILED", "TRANSFER_FAILED",
                   "PROFILE_INVALID", "APPLY_FAILED"},
        call <- IF Idle THEN None ELSE worker.profile,
        phase <- IF Idle THEN "idle" ELSE IF hung THEN "hung"
                 ELSE IF script # <<>> THEN "script" ELSE "uploading",
        outcome <- result,
        shows <- IF Whole(bell, bell["lcm_gui.conf"]) /\ running = bell
                 THEN bell["lcm_gui.conf"] ELSE "other",
        late <- orphan.todo # <<>>,
        spoiled <- tainted /\ (~Idle \/ result = "NONE")

\* The upload and the script do what the commands rely on: the doorbell changes only
\* under a script, a call that returns ERROR_NONE without having been disturbed
\* leaves it with that call's profile, and one that fails before the script leaves
\* it alone.
ImplementsApply == Abstract!Spec
=============================================================================
