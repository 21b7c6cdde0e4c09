---------------------------- MODULE DoorbellApply ----------------------------
(***************************************************************************)
(* What unifi_profile_upload_and_apply (src/src/unifi_remote.c) promises   *)
(* the commands that call it, without its files and its script.  The       *)
(* doorbell shows a profile when its configuration, its other files and    *)
(* its services agree on it.                                               *)
(*                                                                         *)
(* ProfileApply implements this module; ProfileCommands uses it.           *)
(***************************************************************************)
CONSTANTS Profiles,  \* the profiles that may be applied
          Errors     \* what a call may return before its script runs

VARIABLES
  call,        \* the profile being applied, or "none"
  phase,       \* "idle", "uploading", "script" once the script was sent, or "hung"
  outcome,     \* what the last call returned; "lost" when it never did
  shows,       \* what the doorbell shows: a profile, or "other"
  late,        \* a script goes on without the call that sent it
  spoiled      \* the call, which has not failed, met such a script, or an error
               \* that no one told it of

vars == <<call, phase, outcome, shows, late, spoiled>>

Init ==
    /\ call = "none" /\ phase = "idle" /\ outcome = "NONE"
    /\ shows = "other" /\ late = FALSE /\ spoiled = FALSE

Begin(p) ==
    /\ phase = "idle"
    /\ call' = p /\ phase' = "uploading"
    /\ spoiled' = late
    /\ UNCHANGED <<outcome, shows, late>>

Send ==
    /\ phase = "uploading"
    /\ phase' = "script"
    /\ UNCHANGED <<call, outcome, shows, late, spoiled>>

\* Where a script may leave the doorbell; to undo half of an earlier one may even
\* bring back what it showed before.
Changes == shows' \in Profiles \cup {"other"}

Progress ==
    /\ phase = "script" /\ Changes
    /\ UNCHANGED <<call, phase, outcome, late, spoiled>>

\* A transfer that was cut short without an error.
Spoil ==
    /\ phase = "uploading"
    /\ spoiled' = TRUE
    /\ UNCHANGED <<call, phase, outcome, shows, late>>

Return(code) ==
    /\ phase' = "idle" /\ call' = "none" /\ outcome' = code

\* The promise: a call that returns ERROR_NONE has made the doorbell show its
\* profile; unless it was spoiled, or its script was killed.
Succeed ==
    /\ phase = "script" /\ Changes
    /\ Return("NONE")
    /\ spoiled' \in {spoiled, TRUE}
    /\ spoiled' \/ shows' = call
    /\ UNCHANGED late

\* An error before the script leaves the doorbell alone, and every error after it
\* is the same one.
FailEarly ==
    /\ phase = "uploading"
    /\ \E code \in Errors : Return(code)
    /\ spoiled' = FALSE
    /\ UNCHANGED <<shows, late>>

FailLate ==
    /\ phase = "script" /\ Changes
    /\ Return("APPLY_FAILED")
    /\ spoiled' = FALSE
    /\ UNCHANGED late

\* The connection drops under the script and the call fails; or the process dies.
Abandon(code) ==
    /\ \/ phase = "script" /\ code = "APPLY_FAILED"
       \/ phase # "idle" /\ code = "lost"
    /\ Return(code)
    /\ late' = (late \/ phase = "script") /\ spoiled' = FALSE
    /\ UNCHANGED shows

\* The connection drops and the call does not return either.
Hang ==
    /\ phase \in {"uploading", "script"}
    /\ phase' = "hung"
    /\ late' = (late \/ phase = "script")
    /\ UNCHANGED <<call, outcome, shows, spoiled>>

\* A script without its call: its files mix with those of any other.
GoesOn ==
    /\ late
    /\ Changes /\ late' \in BOOLEAN
    /\ UNCHANGED <<call, phase, outcome, spoiled>>

Next ==
    \/ \E p \in Profiles : Begin(p)
    \/ Send \/ Progress \/ Spoil \/ Succeed \/ FailEarly \/ FailLate
    \/ \E code \in {"APPLY_FAILED", "lost"} : Abandon(code)
    \/ Hang \/ GoesOn

Spec == Init /\ [][Next]_vars
=============================================================================
