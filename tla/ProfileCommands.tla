-------------------------- MODULE ProfileCommands --------------------------
(***************************************************************************)
(* The commands that apply a profile (src/src/command.c: set_preset,       *)
(* apply_custom and test_config), run one after the other by the worker    *)
(* thread, against ha_on_connect (src/src/ha_mqtt.c), which the main thread *)
(* runs after every connect to republish what last_applied.json says.      *)
(* The two threads share the retained topics and that file, without a      *)
(* lock.  The link to the broker drops and the process is killed and       *)
(* restarted at any point; the main thread connects again when the flag    *)
(* connected of mqtt.c is down, whatever the link.  The doorbell and the   *)
(* call that changes it are those of DoorbellApply.                        *)
(***************************************************************************)
EXTENDS Naturals, Sequences

CONSTANTS Presets,      \* names of the configured presets
          Customs,      \* names of other directories under the profiles
          Kinds,        \* which of "preset", "custom" and "test" are sent
          MaxCommands,  \* bound: commands in a behaviour
          MaxLosses,    \* bound: losses of the link
          MaxCrashes    \* bound: deaths of the process

ASSUME KindsAssumption == Kinds \subseteq {"preset", "custom", "test"}
ASSUME BoundsAssumption ==
    MaxCommands \in Nat /\ MaxLosses \in Nat /\ MaxCrashes \in Nat

VARIABLES
  topics,    \* retained at the broker, by topic
  link,      \* "up" while the client has a session, else "down"
  connected, \* the flag of mqtt.c, which paho's thread clears
  file,      \* the record last_applied.json holds, if it can be read
  call, phase, outcome, shows, late, spoiled,  \* of DoorbellApply
  worker,    \* where the worker is, its last command, the error that one has
             \* reported, its publications to come
  main,      \* where the main thread is, its publications to come
  commands, losses, crashes,  \* counters of the bounds
  applied,   \* history: <<name, is preset>> of the recordable applies
  failure,   \* history: code of the last failure that a command reported
  missed,    \* history: the Transient topics whose last publication was lost
  cut,       \* history: the doorbell may hold a profile that was not recorded
  skewed     \* history: since the last restore or record, a command overlapped
             \* a restore or its record was not written

client == <<link, connected>>
bounds == <<commands, losses, crashes>>
bell == <<call, phase, outcome, shows, late, spoiled>>
vars == <<topics, client, file, bell, worker, main, bounds, applied,
          failure, missed, cut, skewed>>

Name == Presets \cup Customs
TestName == "Test Config"

\* The apply; one code stands for all it may return before its script runs.
Doorbell == INSTANCE DoorbellApply WITH
    Profiles <- Name \cup {TestName}, Errors <- {"APPLY_FAILED"}

\* A non-empty payload on one of the three command topics.
Command ==
    { c \in [kind : Kinds, name : Name \cup {TestName}] :
        \/ c.kind = "preset" /\ c.name \in Presets
        \/ c.kind = "custom" /\ c.name \in Customs
        \/ c.kind = "test" /\ c.name = TestName }

NoCommand == [kind |-> "none", name |-> "none"]
Restoring == main.at \in {"load", "publish"}
Busy == worker.at # "idle"

\* The flag says connected, there is no session, and nobody will say so.
Stale == connected /\ link = "down"

Init ==
    /\ topics = [t \in {"status", "last_error", "last_applied_profile",
                        "preset/selected", "custom/directory"} |-> "unset"]
    /\ link = "down" /\ connected = FALSE /\ file = {} /\ Doorbell!Init
    /\ worker = [at |-> "idle", cmd |-> NoCommand, code |-> "NONE", todo |-> <<>>]
    /\ main = [at |-> "start", todo |-> <<>>]
    /\ commands = 0 /\ losses = 0 /\ crashes = 0
    /\ applied = {} /\ failure = "unset" /\ missed = {}
    /\ cut = FALSE /\ skewed = FALSE
-----------------------------------------------------------------------------
(* What is published, in order, as sequences of <<topic, value>>.          *)

\* No restore publishes these.
Transient == {"status", "last_error"}

\* mqtt_publish: without a session the message is logged and forgotten.
Publish(t, value) ==
    IF link = "up" THEN /\ topics' = [topics EXCEPT ![t] = value]
                        /\ missed' = missed \ {t}
                   ELSE /\ UNCHANGED topics
                        /\ missed' = missed \cup ({t} \cap Transient)

\* Seeded fault: a success that leaves the selected preset alone.
ResultWithoutPreset(c) ==
    << <<"last_applied_profile", c.name>>, <<"status", "idle">> >>

\* The end of each handler, reached with ok set.
Result(c) ==
    CASE c.kind = "preset" -> << <<"last_applied_profile", c.name>>,
                                 <<"preset/selected", c.name>>,
                                 <<"custom/directory", "">>,
                                 <<"status", "idle">> >>
      [] c.kind = "custom" -> << <<"last_applied_profile", c.name>>,
                                 <<"preset/selected", "none">>,
                                 <<"status", "idle">> >>
      [] c.kind = "test"   -> << <<"last_applied_profile", TestName>>,
                                 <<"preset/selected", "none">>,
                                 <<"custom/directory", "">>,
                                 <<"status", "idle">> >>

\* Seeded faults: an error path that forgets the error, one that returns before
\* the cleanup.
FailedSilently(c, code) == << <<"status", "idle">> >>
FailedStuck(c, code) == << <<"last_error", code>> >>

\* HA_ERR, then the cleanup.  The cleanup of test_config does not return on
\* failure and goes on to publish the result; without an SSH session
\* test_config returns before its cleanup.
Failed(c, code) ==
    << <<"last_error", code>> >> \o
    IF c.kind # "test" THEN << <<"status", "idle">> >>
    ELSE IF code = "SSH_CONNECTION_FAILED" THEN <<>>
    ELSE << <<"status", "idle">> >> \o Result(c)

\* ha_on_connect with a last_applied.json that loads.
Restored(r) ==
    << <<"last_applied_profile", r.name>> >> \o
    IF r.preset THEN << <<"preset/selected", r.name>>, <<"custom/directory", "">> >>
                ELSE << <<"custom/directory", r.name>>, <<"preset/selected", "none">> >>
-----------------------------------------------------------------------------
(* The worker.                                                             *)

\* command_set_preset, command_apply_custom or command_test_config is entered;
\* no command arrives before the first connect.
Begin(c) ==
    /\ main.at \notin {"start", "down"} /\ ~Busy /\ commands < MaxCommands
    /\ commands' = commands + 1
    /\ worker' = [at |-> IF c.kind = "test" THEN "load" ELSE "resolve",
                  cmd |-> c, code |-> "NONE", todo |-> <<>>]
    /\ Publish("status", "uploading")
    /\ skewed' = (skewed \/ Restoring)
    /\ UNCHANGED <<client, file, bell, main, losses, crashes, applied,
                   failure, cut>>

\* The handler passes resolve and load on its way to the doorbell.
Proceed(from, to) ==
    /\ worker.at = from
    /\ worker' = [worker EXCEPT !.at = to]
    /\ UNCHANGED <<topics, client, file, bell, main, bounds, applied, failure,
                   missed, cut, skewed>>

\* The profile is unknown or unreadable, or there is no session.
Fail(at, code) ==
    /\ worker.at = at
    /\ worker' = [worker EXCEPT !.at = "publish", !.code = code,
                               !.todo = Failed(worker.cmd, code)]
    /\ failure' = code
    /\ UNCHANGED <<topics, client, file, bell, main, bounds, applied, missed,
                   cut, skewed>>

\* command_apply_custom reports nothing when the path cannot be built.
FailPath ==
    /\ worker.at = "resolve" /\ worker.cmd.kind = "custom"
    /\ worker' = [worker EXCEPT !.at = "publish", !.todo = << <<"status", "idle">> >>]
    /\ UNCHANGED <<topics, client, file, bell, main, bounds, applied, failure,
                   missed, cut, skewed>>

\* ssh_session_create returns NULL: no address, no connection, no handshake, no
\* password in the environment or the wrong one.
NoSession == Fail("connect", "SSH_CONNECTION_FAILED")

\* Its handshake and its authentication set no timeout: with a doorbell that goes
\* silent the call does not return.
SessionHangs == Proceed("connect", "stuck")

\* It returned a session: unifi_profile_upload_and_apply is called.
Call ==
    /\ worker.at = "connect"
    /\ worker' = [worker EXCEPT !.at = "apply"]
    /\ Doorbell!Begin(worker.cmd.name)
    /\ UNCHANGED <<topics, client, file, main, bounds, applied, failure, missed, cut,
                   skewed>>

\* The call goes on, stops going on, or the doorbell changes under it.
Applying(step) ==
    /\ step
    /\ UNCHANGED <<topics, client, file, worker, main, bounds, applied, failure,
                   missed, cut, skewed>>

\* Seeded faults: the return code of the upload is ignored; a custom profile is
\* not recorded.
SucceedsAnyway(code) == TRUE
RecordsPresets(c) == c.kind = "preset"

Succeeds(code) == code = "NONE"
Records(c) == c.kind \in {"preset", "custom"}

\* The call returns.
Returns ==
    /\ worker.at = "apply"
    /\ Doorbell!Succeed \/ Doorbell!FailEarly \/ Doorbell!FailLate
         \/ Doorbell!Abandon("APPLY_FAILED")
    /\ applied' = IF outcome' = "NONE" /\ worker.cmd.kind # "test"
                  THEN applied \cup {<<worker.cmd.name, worker.cmd.kind = "preset">>}
                  ELSE applied
    /\ failure' = IF Succeeds(outcome') THEN failure ELSE outcome'
    /\ cut' = (cut \/ IF outcome' = "NONE" THEN spoiled' ELSE phase = "script")
    /\ worker' =
         IF ~Succeeds(outcome')
         THEN [worker EXCEPT !.at = "publish", !.code = outcome',
                             !.todo = Failed(worker.cmd, outcome')]
         ELSE IF Records(worker.cmd)
         THEN [worker EXCEPT !.at = "record"]
         ELSE [worker EXCEPT !.at = "publish", !.todo = Result(worker.cmd)]
    /\ UNCHANGED <<topics, client, file, main, bounds, missed, skewed>>

\* A script that lost its call goes on.
ScriptGoesOn ==
    /\ Doorbell!GoesOn
    /\ cut' = TRUE
    /\ UNCHANGED <<topics, client, file, worker, main, bounds, applied, failure,
                   missed, skewed>>

\* profiles_write_last_applied up to fopen, which truncates; a failure is only
\* logged.
OpenRecord(ok) ==
    /\ worker.at = "record"
    /\ file' = IF ok THEN {} ELSE file
    /\ worker' = IF ok THEN [worker EXCEPT !.at = "write"]
                 ELSE [worker EXCEPT !.at = "publish", !.todo = Result(worker.cmd)]
    /\ cut' = (cut \/ ~ok)
    /\ skewed' = (skewed \/ ~ok)
    /\ UNCHANGED <<topics, client, bell, main, bounds, applied, failure, missed>>

\* fwrite and fclose: the whole record, or a file that does not parse.
WriteRecord(ok) ==
    /\ worker.at = "write"
    /\ file' = IF ok THEN {[name |-> worker.cmd.name,
                            preset |-> worker.cmd.kind = "preset"]}
               ELSE {}
    /\ worker' = [worker EXCEPT !.at = "publish",
                                !.todo = Result(worker.cmd)]
    /\ cut' = (~ok \/ late \/ spoiled)
    /\ skewed' = (~ok \/ Restoring)
    /\ UNCHANGED <<topics, client, bell, main, bounds, applied, failure, missed>>

\* The next publication of the handler, which returns after the last.
WorkerPublish ==
    /\ worker.at = "publish" /\ worker.todo # <<>>
    /\ Publish(Head(worker.todo)[1], Head(worker.todo)[2])
    /\ worker' = [worker EXCEPT !.todo = Tail(worker.todo),
                    !.at = IF Len(worker.todo) = 1 THEN "idle" ELSE "publish"]
    /\ UNCHANGED <<client, file, bell, main, bounds, applied, failure, cut,
                   skewed>>
-----------------------------------------------------------------------------
(* The main thread, the link and the process.                              *)

\* Seeded fault: the callback does not run on every connect.
OnConnectSkipped == "loop"

\* mqtt_connect_internal ends in ha_on_connect.
OnConnect == "load"

\* mqtt_loop goes by the flag.  MQTTClient_connect returns, in the end, a session.
Reconnect ==
    /\ main.at \in {"start", "loop"} /\ ~connected
    /\ link' = "up"
    /\ main' = [main EXCEPT !.at = "flag"]
    /\ UNCHANGED <<topics, connected, file, bell, worker, bounds, applied, failure,
                   missed, cut, skewed>>

\* The flag is set, also when the session is already gone again; then ha_on_connect
\* publishes discovery and subscribes.
SetConnected ==
    /\ main.at = "flag"
    /\ connected' = TRUE
    /\ main' = [main EXCEPT !.at = OnConnect]
    /\ skewed' = Busy
    /\ UNCHANGED <<topics, link, file, bell, worker, bounds, applied, failure,
                   missed, cut>>

\* profile_load_last_applied; nothing is restored when it fails.
Load ==
    /\ main.at = "load"
    /\ \/ \E r \in file : main' = [at |-> "publish", todo |-> Restored(r)]
       \/ file = {} /\ main' = [at |-> "loop", todo |-> <<>>]
    /\ UNCHANGED <<topics, client, file, bell, worker, bounds, applied, failure,
                   missed, cut, skewed>>

MainPublish ==
    /\ main.at = "publish" /\ main.todo # <<>>
    /\ Publish(Head(main.todo)[1], Head(main.todo)[2])
    /\ main' = [main EXCEPT !.todo = Tail(main.todo),
                  !.at = IF Len(main.todo) = 1 THEN "loop" ELSE "publish"]
    /\ UNCHANGED <<client, file, bell, worker, bounds, applied, failure,
                   cut, skewed>>

\* The loss and its report: conn_lost, on paho's thread, clears the flag.  Before
\* the report a publication fails as after it, and only mqtt_loop reads the flag; a
\* report that comes after the flag was set stands for a loss after that.
LinkLost ==
    /\ link = "up" /\ losses < MaxLosses
    /\ link' = "down" /\ connected' = FALSE
    /\ losses' = losses + 1
    /\ UNCHANGED <<topics, file, bell, worker, main, commands, crashes,
                   applied, failure, missed, cut, skewed>>

\* What the two threads had yet to publish.
Unpublished ==
    {worker.todo[i][1] : i \in DOMAIN worker.todo} \cup
    {main.todo[i][1] : i \in DOMAIN main.todo} \cup
    IF Busy THEN {"status"} ELSE {}

\* The process dies between any two steps.  What was retained stays.
Crash ==
    /\ main.at # "down" /\ crashes < MaxCrashes
    /\ crashes' = crashes + 1
    /\ link' = "down" /\ connected' = FALSE
    /\ main' = [at |-> "down", todo |-> <<>>]
    /\ worker' = [worker EXCEPT !.at = "idle", !.todo = <<>>]
    /\ IF phase = "idle" THEN UNCHANGED bell ELSE Doorbell!Abandon("lost")
    /\ cut' = (cut \/ late' \/ worker.at \in {"record", "write"})
    /\ skewed' = TRUE
    /\ missed' = missed \cup (Unpublished \cap Transient)
    /\ UNCHANGED <<topics, file, commands, losses, applied, failure>>

\* The container is started again.
Restart ==
    /\ main.at = "down"
    /\ main' = [main EXCEPT !.at = "start"]
    /\ UNCHANGED <<topics, client, file, bell, worker, bounds, applied, failure,
                   missed, cut, skewed>>

WorkerStep ==
    \/ Proceed("resolve", "load") \/ Proceed("load", "connect")
    \/ Call \/ Applying(Doorbell!Send) \/ Returns
    \/ Fail("resolve", "PROFILE_NOT_FOUND") \/ Fail("load", "PROFILE_INVALID")
    \/ NoSession \/ FailPath
    \/ \E ok \in BOOLEAN : OpenRecord(ok) \/ WriteRecord(ok)
    \/ WorkerPublish

\* Nothing makes these happen, or not happen.
DoorbellStep ==
    \/ Applying(Doorbell!Progress) \/ Applying(Doorbell!Spoil)
    \/ Applying(Doorbell!Hang) \/ SessionHangs
    \/ ScriptGoesOn

MainStep == Reconnect \/ SetConnected \/ Load \/ MainPublish \/ Restart

Next ==
    \/ WorkerStep \/ DoorbellStep \/ MainStep
    \/ \E c \in Command : Begin(c)
    \/ LinkLost \/ Crash

Spec == Init /\ [][Next]_vars

\* The threads are scheduled, the broker comes back and the container is
\* restarted; the doorbell need not answer.
FairSpec == Spec /\ WF_vars(WorkerStep) /\ WF_vars(MainStep)
-----------------------------------------------------------------------------
(* Properties.                                                             *)

\* last_applied.json, when it can be read at all, names a profile that the
\* doorbell really was given, as the kind it was: a crash at any point of the
\* handler or of the write leaves no record of an apply that did not happen.
FileNamesApplied == \A r \in file : <<r.name, r.preset>> \in applied

\* While no apply was cut short between the doorbell and the file, a doorbell
\* that shows a profile shows the recorded one.
DoorbellIsRecorded ==
    (~Busy /\ ~cut /\ shows \in Name)
        => \E r \in file : r.name = shows

\* What Home Assistant shows agrees with the record, or is a test, which is not
\* recorded.  A preset and a test clear the custom directory; a custom command
\* does not publish its own, which only the restore does.
ShowsRecord ==
    \A r \in file :
        \/ /\ topics["last_applied_profile"] = r.name
           /\ topics["preset/selected"] = IF r.preset THEN r.name ELSE "none"
           /\ r.preset => topics["custom/directory"] = ""
        \/ /\ topics["last_applied_profile"] = TestName
           /\ topics["preset/selected"] = "none"
           /\ topics["custom/directory"] = ""

\* When both threads are at rest with a session, and no command overlapped a
\* restore, the profile and the preset shown agree with last_applied.json:
\* publications lost with the link are made good by the restore that follows.
ShownIsRecorded ==
    (~Busy /\ main.at = "loop" /\ link = "up" /\ ~skewed) => ShowsRecord

\* When the worker is at rest, last_error is the failure of the most recent
\* command that reported one, unless its publication was lost: no handler
\* clears an error or overwrites it with another's.
MostRecentError ==
    (~Busy /\ "last_error" \notin missed) => topics["last_error"] = failure

\* However a command ends, the status it leaves is idle, unless that publication
\* was lost: also after a failure, for no handler knows the state Error of the
\* documentation.  Only a test that found no SSH session leaves it at uploading.
StatusEndsIdle ==
    (~Busy /\ "status" \notin missed) =>
        topics["status"] =
            IF worker.cmd = NoCommand THEN "unset"
            ELSE IF worker.cmd.kind = "test" /\ worker.code = "SSH_CONNECTION_FAILED"
                 THEN "uploading" ELSE "idle"

\* After the last command, loss and crash, what is shown comes to agree with the
\* record and stays so, unless a command overlapped the last restore or a loss
\* right after a connect left a stale flag, over which nobody connects again.
ShownSettles == <>[](ShowsRecord \/ skewed \/ Stale)

\* What the documentation says of the status sensor: at rest it shows the state of
\* the service, and of a command that went wrong it gives feedback with Error.
StatusShowsState ==
    (~Busy /\ "status" \notin missed) =>
        topics["status"] = IF worker.cmd = NoCommand THEN "unset"
                           ELSE IF worker.code # "NONE" THEN "error" ELSE "idle"

\* What the README says of the state after a reconnect or a restart: once both
\* threads are at rest and the link is up, the last applied profile shown is the
\* one on the doorbell.
RestoredStateIsCorrect ==
    (~Busy /\ main.at = "loop" /\ link = "up" /\ ~cut /\ shows \in Name)
        => topics["last_applied_profile"] = shows
=============================================================================
