----------------------------- MODULE MqttRouter -----------------------------
(***************************************************************************)
(* src/src/mqtt_router.c with the three threads that use it: the MQTT      *)
(* library's receive thread (paho), whose msg_arrived enqueues; the worker *)
(* thread, which pops and dispatches; and the main thread, which starts    *)
(* the router, registers the routes, serves, stops and drains it.          *)
(*                                                                         *)
(* The sections the worker and router_stop run under inq.mtx touch nothing *)
(* that another thread touches without it, so each is one step.  The       *)
(* section paho runs is several: the drain at the end of router_stop reads *)
(* head, tail and the slots without the mutex while paho may be in it, and *)
(* that race lets the two stores of a push be seen in either order.        *)
(***************************************************************************)
EXTENDS Integers, Sequences

CONSTANTS Cap,          \* IN_Q_CAP, slots of the ring (one is never used)
          MaxRoutes,    \* MAX_ROUTES
          Commands,     \* command topics, in the order they are registered
          Topics,       \* topics a message may arrive on
          MaxArrivals,  \* bound: messages the broker delivers in a behaviour
          NoMsg         \* no message: an unused slot, an idle thread

ASSUME CapAssumption == Cap \in Nat /\ Cap >= 2
ASSUME BoundsAssumption == MaxRoutes \in Nat /\ MaxArrivals \in Nat
ASSUME TopicsAssumption == Commands \in Seq(Topics)

Msg == [id : 1..MaxArrivals, topic : Topics]

ASSUME NoMsgAssumption == NoMsg \notin Msg

VARIABLES
  buf, head, tail, running,  \* struct inq
  routes,                    \* routes[0..route_count-1]
  main, worker, paho,        \* where each thread is
  link,                    \* the client has a session with the broker
  arrivals,                  \* messages paho was handed so far
  pend,                      \* the message msg_arrived is enqueueing
  stores, slot,              \* a push: stores to do, slot it writes
  cur,                       \* the message the worker holds
  accepted,                  \* history: messages enqueued, oldest first
  taken,                     \* history: how many slots were popped or drained
  handled,                   \* history: messages dispatched, oldest first
  unknown,                   \* history: messages dispatched without a route
  dropped,                   \* history: messages refused, and why
  stopAt                     \* history: Len(accepted) when running was cleared

inqVars == <<buf, head, tail, running>>
pahoVars == <<paho, arrivals, pend, stores, slot>>
workerVars == <<worker, cur, handled, unknown>>
mainVars == <<main, link, routes>>
history == <<accepted, taken, dropped, stopAt>>
vars == <<inqVars, pahoVars, workerVars, mainVars, history>>

\* Paho is inside its critical section.
Locked == paho = "storing"

\* Seeded fault: the index is not wrapped.
SuccUnwrapped(i) == i + 1

Succ(i) == (i + 1) % Cap

Empty == head = tail

\* Seeded fault: a push finds the ring full a slot early.
FullEarly == Succ(Succ(tail)) = head

Full == Succ(tail) = head

Routed(topic) == \E i \in DOMAIN routes : routes[i] = topic

Init ==
    /\ buf = [i \in 0..(Cap - 1) |-> NoMsg]
    /\ head = 0 /\ tail = 0 /\ running = 0
    /\ routes = <<>>
    /\ main = "start" /\ worker = "unborn" /\ paho = "idle"
    /\ link = "down" /\ arrivals = 0
    /\ pend = NoMsg /\ stores = {} /\ slot = 0 /\ cur = NoMsg
    /\ accepted = <<>> /\ taken = 0 /\ handled = <<>>
    /\ unknown = {} /\ dropped = {} /\ stopAt = 0

\* Seeded fault: a signal or broadcast that is forgotten.
WokenNot == worker

\* The worker after a signal or a broadcast.
Woken == IF worker = "waiting" THEN "pop" ELSE worker
-----------------------------------------------------------------------------
(* The main thread.                                                        *)

\* mqtt_router_start: running is set before the thread exists, and cleared
\* again when pthread_create fails; main then goes to its cleanup.
RouterStart ==
    /\ main = "start"
    /\ running = 0
    /\ \/ running' = 1 /\ worker' = "pop" /\ main' = "register"
       \/ main' = "disconnect" /\ UNCHANGED <<running, worker>>
    /\ UNCHANGED <<buf, head, tail, pahoVars, cur, handled, unknown, link,
                   routes, history>>

\* One turn of ha_routes_register_commands.  It ignores that mqtt_routes_add
\* refuses a route when the table is full.
RegisterRoute(n) ==
    /\ main = "register"
    /\ n = Len(routes) + 1 /\ n <= Len(Commands) /\ n <= MaxRoutes
    /\ routes' = Append(routes, Commands[n])
    /\ UNCHANGED <<inqVars, pahoVars, workerVars, main, link, history>>

\* Seeded fault: the service loop starts before the routes are registered.
RegisteredNot == TRUE

\* Every command entity has been offered to the route table.
Registered == Len(routes) = Len(Commands) \/ Len(routes) = MaxRoutes

Serve ==
    /\ main = "register"
    /\ Registered
    /\ main' = "serve"
    /\ UNCHANGED <<inqVars, pahoVars, workerVars, link, routes, history>>

\* mqtt_loop connects and ha_on_connect subscribes: messages may arrive.
Connect ==
    /\ main = "serve" /\ link = "down"
    /\ link' = "up"
    /\ UNCHANGED <<inqVars, pahoVars, workerVars, main, routes, history>>

ConnectionLost ==
    /\ link = "up"
    /\ link' = "down"
    /\ UNCHANGED <<inqVars, pahoVars, workerVars, main, routes, history>>

\* SIGTERM or SIGINT: the loop ends, cleanup calls mqtt_router_stop.
StopRequested ==
    /\ main = "serve"
    /\ main' = "stop"
    /\ UNCHANGED <<inqVars, pahoVars, workerVars, link, routes, history>>

\* mqtt_router_stop up to pthread_join.
StopRouter ==
    /\ main = "stop" /\ ~Locked /\ running = 1
    /\ running' = 0
    /\ worker' = Woken
    /\ stopAt' = Len(accepted)
    /\ main' = "join"
    /\ UNCHANGED <<buf, head, tail, pahoVars, cur, handled, unknown, link,
                   routes, accepted, taken, dropped>>

\* Seeded fault: the drain does not wait for the worker to end.
EndedNot == TRUE

Ended == worker = "done"

Join ==
    /\ main = "join"
    /\ Ended
    /\ main' = "drain"
    /\ UNCHANGED <<inqVars, pahoVars, workerVars, link, routes, history>>

\* One turn of the drain loop, without the mutex.
DrainOne ==
    /\ main = "drain" /\ ~Empty
    /\ head' = Succ(head)
    /\ taken' = taken + 1
    /\ UNCHANGED <<buf, tail, running, pahoVars, workerVars, mainVars,
                   accepted, dropped, stopAt>>

DrainEnd ==
    /\ main = "drain" /\ Empty
    /\ main' = "disconnect"
    /\ UNCHANGED <<inqVars, pahoVars, workerVars, link, routes, history>>

\* mqtt_disconnect: no message arrives after it.
Disconnect ==
    /\ main = "disconnect"
    /\ main' = "exit" /\ link' = "down"
    /\ UNCHANGED <<inqVars, pahoVars, workerVars, routes, history>>
-----------------------------------------------------------------------------
(* The receive thread.                                                     *)

\* The broker's message reaches msg_arrived, which calls
\* mqtt_router_enqueue and will answer 1 (acknowledge) whatever it returns.
Arrive(t) ==
    /\ paho = "idle" /\ link = "up" /\ arrivals < MaxArrivals
    /\ arrivals' = arrivals + 1
    /\ pend' = [id |-> arrivals + 1, topic |-> t]
    /\ paho' = "enqueue"
    /\ UNCHANGED <<inqVars, stores, slot, workerVars, mainVars, history>>

\* inq_push_locked gives up: no room, or a copy cannot be allocated.
Refuse(why) ==
    /\ paho = "enqueue"
    /\ why = "full" <=> Full
    /\ dropped' = dropped \cup {[msg |-> pend, why |-> why]}
    /\ paho' = "idle" /\ pend' = NoMsg
    /\ UNCHANGED <<inqVars, arrivals, stores, slot, workerVars, mainVars,
                   accepted, taken, stopAt>>

\* The mutex is held, there is room and the copies are made.
Reserve ==
    /\ paho = "enqueue" /\ ~Full
    /\ paho' = "storing"
    /\ stores' = {"slot", "tail"} /\ slot' = tail
    /\ UNCHANGED <<inqVars, arrivals, pend, workerVars, mainVars, history>>

StoreSlot ==
    /\ "slot" \in stores
    /\ buf' = [buf EXCEPT ![slot] = pend]
    /\ stores' = stores \ {"slot"}
    /\ UNCHANGED <<head, tail, running, paho, arrivals, pend, slot, workerVars,
                   mainVars, history>>

StoreTail ==
    /\ "tail" \in stores
    /\ tail' = Succ(slot)
    /\ accepted' = Append(accepted, pend)
    /\ stores' = stores \ {"tail"}
    /\ UNCHANGED <<buf, head, running, paho, arrivals, pend, slot, workerVars,
                   mainVars, taken, dropped, stopAt>>

\* pthread_cond_signal, then the mutex is released.
Signal ==
    /\ paho = "storing" /\ stores = {}
    /\ worker' = Woken
    /\ paho' = "idle" /\ pend' = NoMsg
    /\ UNCHANGED <<inqVars, arrivals, stores, slot, cur, handled, unknown,
                   mainVars, history>>
-----------------------------------------------------------------------------
(* The worker thread: inq_pop in a loop.                                   *)

WorkerWait ==
    /\ worker = "pop" /\ ~Locked
    /\ Empty /\ running = 1
    /\ worker' = "waiting"
    /\ UNCHANGED <<inqVars, pahoVars, cur, handled, unknown, mainVars, history>>

\* pthread_cond_wait may return without a signal; the while tests again.
SpuriousWakeup ==
    /\ worker = "waiting" /\ ~Locked
    /\ worker' = "pop"
    /\ UNCHANGED <<inqVars, pahoVars, cur, handled, unknown, mainVars, history>>

\* Seeded fault: the slot the last push filled is read.
OldestNewest == buf[(tail + Cap - 1) % Cap]

Oldest == buf[head]

WorkerPop ==
    /\ worker = "pop" /\ ~Locked
    /\ ~Empty
    /\ cur' = Oldest
    /\ head' = Succ(head)
    /\ taken' = taken + 1
    /\ worker' = "dispatch"
    /\ UNCHANGED <<buf, tail, running, pahoVars, handled, unknown, mainVars,
                   accepted, dropped, stopAt>>

\* Seeded fault: the worker leaves as soon as running is cleared.
MayExitAtOnce == running = 0

MayExit == running = 0 /\ Empty

WorkerExit ==
    /\ worker = "pop" /\ ~Locked
    /\ MayExit
    /\ worker' = "done"
    /\ UNCHANGED <<inqVars, pahoVars, cur, handled, unknown, mainVars, history>>

\* Seeded fault: an unknown topic ends the worker's loop.
ResumeIfRouted == IF Routed(cur.topic) THEN "pop" ELSE "done"

Resume == "pop"

\* mqtt_routes_dispatch runs the handler of the first route that matches to
\* its end, or warns that there is none; then the copies are freed.
Dispatch ==
    /\ worker = "dispatch"
    /\ handled' = Append(handled, cur)
    /\ unknown' = IF Routed(cur.topic) THEN unknown ELSE unknown \cup {cur}
    /\ cur' = NoMsg
    /\ worker' = Resume
    /\ UNCHANGED <<inqVars, pahoVars, mainVars, history>>
-----------------------------------------------------------------------------
\* The process has exited; the ring keeps what came after the drain.
Terminated ==
    /\ main = "exit" /\ paho = "idle"
    /\ UNCHANGED vars

MainStep ==
    \/ RouterStart \/ Serve \/ StopRouter \/ Join
    \/ DrainOne \/ DrainEnd \/ Disconnect
    \/ \E n \in 1..Len(Commands) : RegisterRoute(n)

EnqueueStep ==
    \/ \E why \in {"full", "memory"} : Refuse(why)
    \/ Reserve \/ StoreSlot \/ StoreTail \/ Signal

WorkerStep == WorkerWait \/ WorkerPop \/ WorkerExit \/ Dispatch

Environment ==
    \/ Connect \/ ConnectionLost \/ StopRequested \/ SpuriousWakeup
    \/ \E t \in Topics : Arrive(t)

Next == MainStep \/ EnqueueStep \/ WorkerStep \/ Environment \/ Terminated

Spec == Init /\ [][Next]_vars

\* The scheduler runs every thread that can run.  That a handler returns is not
\* assumed: ssh_exec_command reads without a timeout.
Fairness ==
    /\ WF_vars(MainStep) /\ WF_vars(EnqueueStep)
    /\ WF_vars(WorkerWait \/ WorkerPop \/ WorkerExit)

FairSpec == Spec /\ Fairness
-----------------------------------------------------------------------------
(* Properties.                                                             *)

\* Every variable of the router and of its threads has its type.
TypeOK ==
    /\ buf \in [0..(Cap - 1) -> Msg \cup {NoMsg}]
    /\ head \in 0..(Cap - 1) /\ tail \in 0..(Cap - 1)
    /\ running \in {0, 1} /\ link \in {"down", "up"}
    /\ routes \in Seq(Topics)
    /\ main \in {"start", "register", "serve", "stop", "join", "drain",
                 "disconnect", "exit"}
    /\ worker \in {"unborn", "pop", "waiting", "dispatch", "done"}
    /\ paho \in {"idle", "enqueue", "storing"}
    /\ arrivals \in 0..MaxArrivals
    /\ pend \in Msg \cup {NoMsg} /\ cur \in Msg \cup {NoMsg}
    /\ stores \in SUBSET {"slot", "tail"}
    /\ slot \in 0..(Cap - 1)
    /\ accepted \in Seq(Msg) /\ handled \in Seq(Msg)
    /\ taken \in Nat /\ stopAt \in Nat
    /\ unknown \in SUBSET Msg
    /\ dropped \in SUBSET [msg : Msg, why : {"full", "memory"}]

\* Messages the worker has popped: handled, and the one it holds.
Popped == IF worker = "dispatch" THEN Append(handled, cur) ELSE handled

\* At every moment, the drain of router_stop included, the handlers have run
\* for an initial part of the accepted messages, in the order of acceptance.
HandledInOrder ==
    /\ Len(handled) <= Len(accepted)
    /\ \A k \in 1..Len(handled) : handled[k] = accepted[k]

\* inq_pop sleeps only when there is nothing to do, or when the thread that
\* made something to do still holds the mutex and will signal.
NoLostWakeup ==
    worker = "waiting" => /\ running = 1
                          /\ Empty \/ Locked

\* The worker ends only after handling every message accepted before
\* router_stop cleared running.
StopDrains == worker = "done" => Len(handled) >= stopAt

\* A command topic is never dispatched as unknown, although the worker starts
\* before the routes are registered.
CommandsAreRouted ==
    \A m \in unknown : \A i \in DOMAIN Commands : Commands[i] # m.topic

\* A push is refused for lack of room only when Cap - 1 accepted messages wait
\* in the ring.
DropOnlyWhenFull ==
    [][\A d \in dropped' \ dropped :
          d.why = "full" => Len(accepted) - taken = Cap - 1]_vars

\* Every message accepted while the router runs is handled in the end, unless a
\* handler never returns.
EveryCommandHandled ==
    \A k \in 1..MaxArrivals :
        (Len(accepted) >= k /\ running = 1)
            ~> (Len(handled) >= k \/ [](worker = "dispatch"))

\* router_stop, its join and its drain come to an end, so the process exits: a
\* handler that never returns is the one thing that can keep the service from
\* stopping.
StopCompletes == main = "stop" ~> (main = "exit" \/ [](worker = "dispatch"))

\* The inductive invariant behind the four invariants above: where the threads
\* are with respect to each other, ...
ThreadInv ==
    /\ running = 1 <=> main \in {"register", "serve", "stop"}
    /\ main = "start" => worker = "unborn"
    /\ main \in {"register", "serve", "stop"}
          => worker \in {"pop", "waiting", "dispatch"}
    /\ main = "join" => worker \in {"pop", "dispatch", "done"}
    /\ main = "drain" => worker = "done"
    /\ main \in {"disconnect", "exit"} => worker \in {"unborn", "done"}
    /\ main \in {"start", "register", "serve", "stop"} => worker # "done"
    /\ paho # "idle" => pend \in Msg
    /\ stores # {} => Locked

\* ... head and tail as the numbers of messages taken and accepted, modulo Cap,
RingInv ==
    /\ taken <= Len(accepted)
    /\ Len(accepted) - taken <= Cap - 1
    /\ head = taken % Cap
    /\ tail = Len(accepted) % Cap

\* ... the progress of a push: the new message counts as soon as tail is
\* stored, its slot may still be due,
SlotDue == "slot" \in stores /\ "tail" \notin stores

PushInv ==
    /\ "tail" \in stores => /\ slot = tail
                             /\ Len(accepted) - taken < Cap - 1
    /\ SlotDue => /\ Len(accepted) >= 1
                  /\ slot = (Len(accepted) - 1) % Cap
                  /\ pend = accepted[Len(accepted)]
    /\ "tail" \in stores /\ "slot" \notin stores => buf[slot] = pend

\* ... the slots from head to tail hold the accepted messages not yet taken,
\* but for one that paho is still to store,
SlotsInv ==
    \A k \in (taken + 1)..Len(accepted) :
        \/ buf[(k - 1) % Cap] = accepted[k]
        \/ k = Len(accepted) /\ SlotDue

\* ... and what was taken is what is handled or in hand.
HandledInv ==
    /\ HandledInOrder
    /\ worker = "dispatch" => /\ taken = Len(handled) + 1
                              /\ cur = accepted[taken]
    /\ worker \notin {"dispatch", "done"} => taken = Len(handled)
    /\ stopAt <= Len(accepted)

IInv ==
    /\ TypeOK
    /\ ThreadInv
    /\ RingInv
    /\ PushInv
    /\ SlotsInv
    /\ HandledInv
    /\ NoLostWakeup
    /\ StopDrains

\* The router implements the bounded queue of module CommandQueue.
Queue == INSTANCE CommandQueue WITH
    Message <- Msg,
    Bound <- Cap - 1,
    phase <- IF running = 1 THEN "open"
             ELSE IF worker = "unborn" THEN "new"
             ELSE IF worker = "done" THEN "closed" ELSE "closing",
    waiting <- SubSeq(accepted, taken + 1, Len(accepted)),
    delivered <- Popped

ImplementsQueue == Queue!QSpec
=============================================================================
