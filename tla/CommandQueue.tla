---------------------------- MODULE CommandQueue ----------------------------
(***************************************************************************)
(* What the inbound side of the service promises about a command message:  *)
(* a bounded first-in first-out queue between the MQTT library and the one *)
(* thread that runs the handlers.  Once opened it delivers what it has     *)
(* accepted, in order and once; after it is closed the consumer still      *)
(* delivers everything that waits before it finishes, and only what is     *)
(* accepted after that is discarded.                                       *)
(***************************************************************************)
EXTENDS Naturals, Sequences

CONSTANTS Message,  \* the messages that may be offered
          Bound     \* how many accepted messages may wait

VARIABLES phase,     \* "new", "open", "closing" or "closed"
          waiting,   \* accepted and not yet taken by the consumer
          delivered  \* taken by the consumer, oldest first

queueVars == <<phase, waiting, delivered>>

QInit ==
    /\ phase = "new"
    /\ waiting = <<>>
    /\ delivered = <<>>

Open ==
    /\ phase = "new"
    /\ phase' = "open"
    /\ UNCHANGED <<waiting, delivered>>

\* A message finds room.  Nothing stops it from arriving after the close.
Accept(m) ==
    /\ phase # "new"
    /\ Len(waiting) < Bound
    /\ waiting' = Append(waiting, m)
    /\ UNCHANGED <<phase, delivered>>

Deliver ==
    /\ phase \in {"open", "closing"}
    /\ waiting # <<>>
    /\ delivered' = Append(delivered, Head(waiting))
    /\ waiting' = Tail(waiting)
    /\ UNCHANGED phase

Close ==
    /\ phase = "open"
    /\ phase' = "closing"
    /\ UNCHANGED <<waiting, delivered>>

\* The consumer leaves only when nothing waits.
Finish ==
    /\ phase = "closing"
    /\ waiting = <<>>
    /\ phase' = "closed"
    /\ UNCHANGED <<waiting, delivered>>

Discard ==
    /\ phase = "closed"
    /\ waiting # <<>>
    /\ waiting' = Tail(waiting)
    /\ UNCHANGED <<phase, delivered>>

QNext ==
    \/ Open
    \/ \E m \in Message : Accept(m)
    \/ Deliver
    \/ Close
    \/ Finish
    \/ Discard

QSpec == QInit /\ [][QNext]_queueVars
=============================================================================
