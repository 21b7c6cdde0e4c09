-------------------------- MODULE MqttRouter_proof --------------------------
(***************************************************************************)
(* The invariants of MqttRouter for every capacity, route table, set of    *)
(* topics and number of arrivals.                                          *)
(***************************************************************************)
EXTENDS MqttRouter, Arithmetic, SequenceTheorems

\* The ring and its counts: head and tail meet only when nothing waits, and a
\* push is refused only when every slot but one is taken.
LEMMA RingFacts ==
    ASSUME TypeOK, RingInv
    PROVE  /\ Empty <=> taken = Len(accepted)
           /\ Full <=> Len(accepted) - taken = Cap - 1
           /\ Succ(head) = (taken + 1) % Cap
           /\ Succ(tail) = (Len(accepted) + 1) % Cap
<1> DEFINE n == Len(accepted)
           n1 == Len(accepted) + 1
<1>1. /\ n \in Nat /\ taken \in Nat /\ Cap \in Nat \ {0} /\ taken <= n
      /\ n - taken <= Cap - 1
      /\ head = taken % Cap /\ tail = n % Cap
      /\ n1 = n + 1 /\ n1 \in Nat /\ taken <= n1
  BY CapAssumption DEF TypeOK, RingInv
<1> HIDE DEF n, n1
<1>2. Succ(head) = (taken + 1) % Cap /\ Succ(tail) = n1 % Cap
  BY <1>1, ModSucc DEF Succ
<1>3. Empty <=> taken = n
  BY <1>1, ModEqual DEF Empty
<1>4. ASSUME n - taken = Cap - 1
      PROVE  Full
  <2>1. n1 = taken + Cap
    BY <1>1, <1>4
  <2>2. QED
    BY <1>1, <1>2, <2>1, ModTurn DEF Full
<1>5. ASSUME Full, n - taken < Cap - 1
      PROVE  FALSE
  <2>1. taken % Cap = n1 % Cap /\ n1 - taken <= Cap - 1
    BY <1>1, <1>2, <1>5 DEF Full
  <2>2. taken = n1
    BY <1>1, <2>1, ModEqual
  <2>3. QED
    BY <1>1, <2>2
<1>6. Full <=> n - taken = Cap - 1
  <2>1. n - taken \in Int /\ (n - taken = Cap - 1 \/ n - taken < Cap - 1)
    BY <1>1
  <2>2. QED
    BY <2>1, <1>4, <1>5
<1>7. QED
  BY <1>2, <1>3, <1>6 DEF n, n1

LEMMA InitIInv == Init => IInv
<1> SUFFICES ASSUME Init PROVE IInv
  OBVIOUS
<1>1. TypeOK
  BY CapAssumption, BoundsAssumption DEF Init, TypeOK
<1>2. ThreadInv /\ PushInv /\ HandledInv /\ NoLostWakeup /\ StopDrains
  BY DEF Init, ThreadInv, PushInv, HandledInv, HandledInOrder, NoLostWakeup,
         StopDrains, Locked, SlotDue
<1>3. RingInv /\ SlotsInv
  <2>1. 0 % Cap = 0
    BY CapAssumption, ModSmall
  <2>2. QED
    BY <2>1, CapAssumption DEF Init, RingInv, SlotsInv
<1>4. QED
  BY <1>1, <1>2, <1>3 DEF IInv

\* Every step keeps the types: WorkerPop needs SlotsInv to know that the slot
\* it reads holds a message.
LEMMA TypeStep == IInv /\ [Next]_vars => TypeOK'
<1> SUFFICES ASSUME IInv, [Next]_vars PROVE TypeOK'
  OBVIOUS
<1> USE DEF inqVars, pahoVars, workerVars, mainVars, history, Woken, Ended,
           MayExit, Resume, Oldest
<1>0. /\ TypeOK
      /\ Succ(head) \in 0..(Cap - 1) /\ Succ(slot) \in 0..(Cap - 1)
      /\ worker = "dispatch" => cur \in Msg
      /\ paho # "idle" => pend \in Msg
      /\ stores # {} => pend \in Msg
  <2>1. TypeOK
    BY DEF IInv
  <2>2. Succ(head) \in 0..(Cap - 1) /\ Succ(slot) \in 0..(Cap - 1)
    BY <2>1, DivMod, CapAssumption DEF Succ, TypeOK
  <2>3. worker = "dispatch" => cur \in Msg
    BY <2>1 DEF IInv, HandledInv, RingInv, TypeOK
  <2>4. QED
    BY <2>1, <2>2, <2>3 DEF IInv, ThreadInv, Locked
<1>1. CASE RouterStart
  BY <1>0, <1>1 DEF TypeOK, RouterStart
<1>2. ASSUME NEW n \in 1..Len(Commands), RegisterRoute(n)
      PROVE  TypeOK'
  BY <1>0, <1>2, TopicsAssumption, BoundsAssumption DEF TypeOK, RegisterRoute
<1>3. CASE Serve
  BY <1>0, <1>3 DEF TypeOK, Serve
<1>4. CASE StopRouter
  BY <1>0, <1>4 DEF TypeOK, StopRouter
<1>5. CASE Join
  BY <1>0, <1>5 DEF TypeOK, Join
<1>6. CASE DrainOne
  BY <1>0, <1>6 DEF TypeOK, DrainOne
<1>7. CASE DrainEnd
  BY <1>0, <1>7 DEF TypeOK, DrainEnd
<1>8. CASE Disconnect
  BY <1>0, <1>8 DEF TypeOK, Disconnect
<1>9. ASSUME NEW why \in {"full", "memory"}, Refuse(why)
      PROVE  TypeOK'
  BY <1>0, <1>9 DEF TypeOK, Refuse
<1>10. CASE Reserve
  BY <1>0, <1>10 DEF TypeOK, Reserve
<1>11. CASE StoreSlot
  BY <1>0, <1>11 DEF TypeOK, StoreSlot
<1>12. CASE StoreTail
  BY <1>0, <1>12 DEF TypeOK, StoreTail
<1>13. CASE Signal
  BY <1>0, <1>13 DEF TypeOK, Signal
<1>14. CASE WorkerWait
  BY <1>0, <1>14 DEF TypeOK, WorkerWait
<1>15. CASE WorkerPop
  BY <1>0, <1>15 DEF TypeOK, WorkerPop
<1>16. CASE WorkerExit
  BY <1>0, <1>16 DEF TypeOK, WorkerExit
<1>17. CASE Dispatch
  BY <1>0, <1>17 DEF TypeOK, Dispatch
<1>18. CASE Connect
  BY <1>0, <1>18 DEF TypeOK, Connect
<1>19. CASE ConnectionLost
  BY <1>0, <1>19 DEF TypeOK, ConnectionLost
<1>20. CASE StopRequested
  BY <1>0, <1>20 DEF TypeOK, StopRequested
<1>21. ASSUME NEW t \in Topics, Arrive(t)
      PROVE  TypeOK'
  BY <1>0, <1>21, BoundsAssumption DEF TypeOK, Arrive, Msg
<1>22. CASE SpuriousWakeup
  BY <1>0, <1>22 DEF TypeOK, SpuriousWakeup
<1>23. CASE UNCHANGED vars
  BY <1>0, <1>23 DEF TypeOK, vars
<1>24. QED
  BY <1>1, <1>2, <1>3, <1>4, <1>5, <1>6, <1>7, <1>8, <1>9, <1>10, <1>11,
     <1>12, <1>13, <1>14, <1>15, <1>16, <1>17, <1>18, <1>19, <1>20, <1>21,
     <1>22, <1>23 DEF Next, MainStep, EnqueueStep, WorkerStep, Environment,
     Terminated

\* Every step keeps the threads where they may be.  A sleeping worker is woken
\* by whoever fills the ring or clears running.
LEMMA ThreadStep == IInv /\ [Next]_vars => ThreadInv' /\ NoLostWakeup'
<1> SUFFICES ASSUME IInv, [Next]_vars PROVE ThreadInv' /\ NoLostWakeup'
  OBVIOUS
<1> USE DEF inqVars, pahoVars, workerVars, mainVars, history, Woken, Ended,
           MayExit, Resume, Oldest, Locked
<1>0. TypeOK /\ ThreadInv /\ NoLostWakeup
  BY DEF IInv
<1>1. CASE RouterStart
  BY <1>0, <1>1 DEF TypeOK, ThreadInv, NoLostWakeup, Empty, RouterStart
<1>2. ASSUME NEW n \in 1..Len(Commands), RegisterRoute(n)
      PROVE  ThreadInv' /\ NoLostWakeup'
  BY <1>0, <1>2 DEF TypeOK, ThreadInv, NoLostWakeup, Empty, RegisterRoute
<1>3. CASE Serve
  BY <1>0, <1>3 DEF TypeOK, ThreadInv, NoLostWakeup, Empty, Serve
<1>4. CASE StopRouter
  BY <1>0, <1>4 DEF TypeOK, ThreadInv, NoLostWakeup, Empty, StopRouter
<1>5. CASE Join
  BY <1>0, <1>5 DEF TypeOK, ThreadInv, NoLostWakeup, Empty, Join
<1>6. CASE DrainOne
  BY <1>0, <1>6 DEF TypeOK, ThreadInv, NoLostWakeup, Empty, DrainOne
<1>7. CASE DrainEnd
  BY <1>0, <1>7 DEF TypeOK, ThreadInv, NoLostWakeup, Empty, DrainEnd
<1>8. CASE Disconnect
  BY <1>0, <1>8 DEF TypeOK, ThreadInv, NoLostWakeup, Empty, Disconnect
<1>9. ASSUME NEW why \in {"full", "memory"}, Refuse(why)
      PROVE  ThreadInv' /\ NoLostWakeup'
  BY <1>0, <1>9 DEF TypeOK, ThreadInv, NoLostWakeup, Empty, Refuse
<1>10. CASE Reserve
  BY <1>0, <1>10 DEF TypeOK, ThreadInv, NoLostWakeup, Empty, Reserve
<1>11. CASE StoreSlot
  BY <1>0, <1>11 DEF TypeOK, ThreadInv, NoLostWakeup, Empty, StoreSlot
<1>12. CASE StoreTail
  BY <1>0, <1>12 DEF TypeOK, ThreadInv, NoLostWakeup, Empty, StoreTail
<1>13. CASE Signal
  BY <1>0, <1>13 DEF TypeOK, ThreadInv, NoLostWakeup, Empty, Signal
<1>14. CASE WorkerWait
  BY <1>0, <1>14 DEF TypeOK, ThreadInv, NoLostWakeup, Empty, WorkerWait
<1>15. CASE WorkerPop
  BY <1>0, <1>15 DEF TypeOK, ThreadInv, NoLostWakeup, Empty, WorkerPop
<1>16. CASE WorkerExit
  BY <1>0, <1>16 DEF TypeOK, ThreadInv, NoLostWakeup, Empty, WorkerExit
<1>17. CASE Dispatch
  BY <1>0, <1>17 DEF TypeOK, ThreadInv, NoLostWakeup, Empty, Dispatch
<1>18. CASE Connect
  BY <1>0, <1>18 DEF TypeOK, ThreadInv, NoLostWakeup, Empty, Connect
<1>19. CASE ConnectionLost
  BY <1>0, <1>19 DEF TypeOK, ThreadInv, NoLostWakeup, Empty, ConnectionLost
<1>20. CASE StopRequested
  BY <1>0, <1>20 DEF TypeOK, ThreadInv, NoLostWakeup, Empty, StopRequested
<1>21. ASSUME NEW t \in Topics, Arrive(t)
      PROVE  ThreadInv' /\ NoLostWakeup'
  BY <1>0, <1>21, BoundsAssumption DEF TypeOK, ThreadInv, NoLostWakeup, Empty,
     Arrive, Msg
<1>22. CASE SpuriousWakeup
  BY <1>0, <1>22 DEF TypeOK, ThreadInv, NoLostWakeup, Empty, SpuriousWakeup
<1>23. CASE UNCHANGED vars
  BY <1>0, <1>23 DEF TypeOK, ThreadInv, NoLostWakeup, Empty, vars
<1>24. QED
  BY <1>1, <1>2, <1>3, <1>4, <1>5, <1>6, <1>7, <1>8, <1>9, <1>10, <1>11,
     <1>12, <1>13, <1>14, <1>15, <1>16, <1>17, <1>18, <1>19, <1>20, <1>21,
     <1>22, <1>23 DEF Next, MainStep, EnqueueStep, WorkerStep, Environment,
     Terminated

\* Every step keeps head and tail the wrapped counts of what was taken and of
\* what was accepted.
LEMMA RingStep == IInv /\ [Next]_vars => RingInv'
<1> SUFFICES ASSUME IInv, [Next]_vars PROVE RingInv'
  OBVIOUS
<1> USE DEF inqVars, pahoVars, workerVars, mainVars, history, Woken, Ended,
           MayExit, Resume, Oldest
<1>0. /\ TypeOK /\ RingInv /\ PushInv
      /\ Empty <=> taken = Len(accepted)
      /\ Succ(head) = (taken + 1) % Cap
      /\ Succ(tail) = (Len(accepted) + 1) % Cap
      /\ stores # {} => pend \in Msg
  BY RingFacts DEF IInv, ThreadInv, Locked
<1>1. /\ Len(accepted) \in Nat /\ taken \in Nat /\ Cap \in Nat
      /\ taken <= Len(accepted) /\ Len(accepted) - taken <= Cap - 1
      /\ head = taken % Cap /\ tail = Len(accepted) % Cap
  BY <1>0, CapAssumption DEF TypeOK, RingInv
<1>2. CASE DrainOne \/ WorkerPop
  <2>1. /\ ~Empty /\ head' = Succ(head) /\ taken' = taken + 1
        /\ tail' = tail /\ accepted' = accepted
    BY <1>2 DEF DrainOne, WorkerPop
  <2>2. head' = taken' % Cap /\ tail' = Len(accepted') % Cap
    BY <1>0, <1>1, <2>1
  <2>3. taken' <= Len(accepted') /\ Len(accepted') - taken' <= Cap - 1
    BY <1>0, <1>1, <2>1
  <2>4. QED
    BY <2>2, <2>3 DEF RingInv
<1>3. CASE StoreTail
  <2>1. /\ tail' = Succ(tail) /\ head' = head /\ taken' = taken
        /\ accepted' = Append(accepted, pend)
        /\ Len(accepted) - taken < Cap - 1
    BY <1>0, <1>3 DEF PushInv, StoreTail
  <2>2. Len(accepted') = Len(accepted) + 1
    BY <1>0, <2>1 DEF TypeOK
  <2>3. head' = taken' % Cap /\ tail' = Len(accepted') % Cap
    BY <1>0, <1>1, <2>1, <2>2
  <2>4. taken' <= Len(accepted') /\ Len(accepted') - taken' <= Cap - 1
    BY <1>1, <2>1, <2>2
  <2>5. QED
    BY <2>3, <2>4 DEF RingInv
<1>4. ASSUME UNCHANGED <<head, tail, accepted, taken>>
      PROVE  RingInv'
  BY <1>0, <1>4 DEF RingInv
<1>5. UNCHANGED <<head, tail, accepted, taken>>
         \/ DrainOne \/ WorkerPop \/ StoreTail
  BY  DEF Next, MainStep, EnqueueStep, WorkerStep, Environment, Terminated,
     vars, RouterStart, RegisterRoute, Serve, StopRouter, Join, DrainEnd,
     Disconnect, Refuse, Reserve, StoreSlot, Signal, WorkerWait, WorkerExit,
     Dispatch, Connect, ConnectionLost, StopRequested, Arrive, SpuriousWakeup
<1>6. QED
  BY <1>2, <1>3, <1>4, <1>5

\* Every step keeps what is known of a push in progress.
LEMMA PushStep == IInv /\ [Next]_vars => PushInv'
<1> SUFFICES ASSUME IInv, [Next]_vars PROVE PushInv'
  OBVIOUS
<1> USE DEF inqVars, pahoVars, workerVars, mainVars, history, Woken, Ended,
           MayExit, Resume, Oldest, Locked, SlotDue
<1>0. /\ TypeOK /\ RingInv /\ PushInv /\ ThreadInv
      /\ Full <=> Len(accepted) - taken = Cap - 1
      /\ stores # {} => pend \in Msg
  BY RingFacts DEF IInv, ThreadInv
<1>1. CASE DrainOne
  BY <1>0, <1>1, CapAssumption DEF TypeOK, PushInv, DrainOne
<1>2. CASE WorkerPop
  BY <1>0, <1>2, CapAssumption DEF TypeOK, PushInv, WorkerPop
<1>3. ASSUME NEW why \in {"full", "memory"}, Refuse(why)
      PROVE  PushInv'
  BY <1>0, <1>3 DEF TypeOK, PushInv, Refuse, ThreadInv
<1>4. CASE StoreSlot
  BY <1>0, <1>4 DEF TypeOK, PushInv, StoreSlot
<1>5. CASE Signal
  BY <1>0, <1>5 DEF TypeOK, PushInv, Signal
<1>6. ASSUME NEW t \in Topics, Arrive(t)
      PROVE  PushInv'
  BY <1>0, <1>6 DEF TypeOK, PushInv, Arrive, ThreadInv
<1>7. CASE StoreTail
  <2>1. /\ Len(accepted') >= 1
        /\ Len(accepted') - 1 = Len(accepted)
        /\ accepted'[Len(accepted')] = pend
    BY <1>0, <1>7 DEF TypeOK, StoreTail
  <2>2. UNCHANGED <<buf, slot, pend>> /\ "tail" \notin stores'
    BY <1>7 DEF StoreTail
  <2>3. slot' = (Len(accepted') - 1) % Cap
    BY <1>0, <1>7, <2>1, <2>2 DEF PushInv, RingInv, StoreTail
  <2>4. /\ "tail" \notin stores'
        /\ (Len(accepted) >= 1)'
        /\ (slot = (Len(accepted) - 1) % Cap)'
        /\ (pend = accepted[Len(accepted)])'
    BY <2>1, <2>2, <2>3
  <2>5. QED
    BY <2>4 DEF PushInv
<1>8. CASE Reserve
  <2>0. /\ Len(accepted) - taken <= Cap - 1
        /\ Len(accepted) \in Int /\ taken \in Int /\ Cap \in Int
    BY <1>0, CapAssumption DEF TypeOK, RingInv
  <2>1. Len(accepted) - taken < Cap - 1
    BY <1>0, <1>8, <2>0 DEF Reserve
  <2>2. /\ UNCHANGED <<accepted, taken, tail>>
        /\ slot' = tail /\ "slot" \in stores' /\ "tail" \in stores'
    BY <1>8 DEF Reserve
  <2>3. QED
    BY <2>1, <2>2 DEF PushInv
<1>9. ASSUME UNCHANGED <<buf, tail, accepted, taken, pend, stores, slot>>
      PROVE  PushInv'
  BY <1>0, <1>9 DEF PushInv
<1>10. UNCHANGED <<buf, tail, accepted, taken, pend, stores, slot>>
         \/ DrainOne \/ WorkerPop \/ (\E why \in {"full", "memory"} :
            Refuse(why)) \/ StoreSlot \/ Signal \/ (\E t \in Topics :
            Arrive(t)) \/ StoreTail \/ Reserve
  BY  DEF Next, MainStep, EnqueueStep, WorkerStep, Environment, Terminated,
     vars, RouterStart, RegisterRoute, Serve, StopRouter, Join, DrainEnd,
     Disconnect, WorkerWait, WorkerExit, Dispatch, Connect, ConnectionLost,
     StopRequested, SpuriousWakeup
<1>11. QED
  BY <1>1, <1>2, <1>3, <1>4, <1>5, <1>6, <1>7, <1>8, <1>9, <1>10

\* Every step keeps the waiting messages in their slots: a push writes a slot
\* that no waiting message uses.
LEMMA SlotsStep == IInv /\ [Next]_vars => SlotsInv'
<1> SUFFICES ASSUME IInv, [Next]_vars PROVE SlotsInv'
  OBVIOUS
<1> USE DEF inqVars, pahoVars, workerVars, mainVars, history, Woken, Ended,
           MayExit, Resume, Oldest, SlotDue
<1>0. /\ TypeOK /\ RingInv /\ PushInv /\ SlotsInv
      /\ paho = "enqueue" => stores = {}
  BY DEF IInv, ThreadInv, Locked
<1>1. CASE DrainOne
  BY <1>0, <1>1 DEF TypeOK, SlotsInv, DrainOne
<1>1b. CASE WorkerPop
  BY <1>0, <1>1b DEF TypeOK, SlotsInv, WorkerPop
<1>2. CASE Reserve
  BY <1>0, <1>2 DEF TypeOK, SlotsInv, Reserve
<1>3. CASE StoreSlot
  <2> SUFFICES ASSUME NEW k \in (taken + 1)..Len(accepted)
               PROVE  buf'[(k - 1) % Cap] = accepted[k]
    BY <1>3 DEF StoreSlot, SlotsInv
  <2> DEFINE n == Len(accepted)
             j == k - 1
  <2>1. /\ n \in Nat /\ j \in Nat /\ Cap \in Nat \ {0}
        /\ j <= n - 1 /\ n - j <= Cap - 1 /\ n - 1 \in Nat
        /\ k = j + 1 /\ taken <= j
    BY <1>0, CapAssumption DEF TypeOK, RingInv
  <2>2. j % Cap \in 0..(Cap - 1)
    BY <2>1, DivMod
  <2>3. CASE "tail" \in stores
    <3>1. slot = n % Cap
      BY <1>0, <2>3 DEF PushInv, RingInv
    <3>2. j % Cap # slot
      <4>1. j <= n /\ j # n
        BY <2>1
      <4> HIDE DEF n, j
      <4>2. QED
        BY <2>1, <3>1, <4>1, ModEqual
    <3>3. QED
      BY <1>0, <1>3, <2>2, <2>3, <3>2 DEF TypeOK, SlotsInv, StoreSlot
  <2>4. CASE SlotDue /\ k = n
    BY <1>0, <1>3, <2>2, <2>4 DEF TypeOK, PushInv, StoreSlot
  <2>5. CASE SlotDue /\ k # n
    <3>1. slot = (n - 1) % Cap
      BY <1>0, <2>5 DEF PushInv
    <3>2. j % Cap # slot
      <4>1. j <= n - 1 /\ (n - 1) - j <= Cap - 1 /\ j # n - 1
        BY <2>1, <2>5
      <4> DEFINE m == n - 1
      <4>2. m \in Nat /\ j <= m /\ m - j <= Cap - 1 /\ j # m /\ slot = m % Cap
        BY <2>1, <3>1, <4>1
      <4> HIDE DEF m, j
      <4>3. QED
        BY <2>1, <4>2, ModEqual
    <3>3. QED
      BY <1>0, <1>3, <2>2, <2>5, <3>2 DEF TypeOK, SlotsInv, StoreSlot
  <2>6. QED
    BY <1>0, <1>3, <2>3, <2>4, <2>5 DEF TypeOK, StoreSlot
<1>4. CASE StoreTail
  <2> SUFFICES ASSUME NEW k \in (taken' + 1)..Len(accepted')
               PROVE  \/ buf'[(k - 1) % Cap] = accepted'[k]
                      \/ k = Len(accepted') /\ SlotDue'
    BY DEF SlotsInv
  <2>1. /\ Len(accepted') = Len(accepted) + 1
        /\ accepted'[Len(accepted) + 1] = pend
        /\ \A i \in 1..Len(accepted) : accepted'[i] = accepted[i]
        /\ taken' = taken /\ buf' = buf /\ taken \in Nat
        /\ Len(accepted) \in Nat
    BY <1>0, <1>4 DEF TypeOK, StoreTail
  <2>2. CASE k = Len(accepted) + 1
    <3>1. slot = (k - 1) % Cap
      BY <1>0, <1>4, <2>1, <2>2 DEF StoreTail, PushInv, RingInv
    <3>2. "slot" \notin stores => buf[slot] = pend
      BY <1>0, <1>4 DEF PushInv, StoreTail
    <3>3. "slot" \notin stores \/ SlotDue'
      BY <1>4 DEF StoreTail
    <3>4. QED
      BY <2>1, <2>2, <3>1, <3>2, <3>3
  <2>3. CASE k # Len(accepted) + 1
    <3>1. k \in (taken + 1)..Len(accepted) /\ ~SlotDue
      BY <1>4, <2>1, <2>3 DEF StoreTail
    <3>2. buf[(k - 1) % Cap] = accepted[k]
      BY <1>0, <3>1 DEF SlotsInv
    <3>3. QED
      BY <2>1, <3>1, <3>2
  <2>4. QED
    BY <2>2, <2>3
<1>5. ASSUME UNCHANGED <<buf, accepted, taken, stores>>
      PROVE  SlotsInv'
  BY <1>0, <1>5 DEF SlotsInv
<1>6. UNCHANGED <<buf, accepted, taken, stores>>
         \/ DrainOne \/ WorkerPop \/ Reserve \/ StoreSlot \/ StoreTail
  BY  DEF Next, MainStep, EnqueueStep, WorkerStep, Environment, Terminated,
     vars, RouterStart, RegisterRoute, Serve, StopRouter, Join, DrainEnd,
     Disconnect, Refuse, Signal, WorkerWait, WorkerExit, Dispatch, Connect,
     ConnectionLost, StopRequested, Arrive, SpuriousWakeup
<1>7. QED
  BY <1>1, <1>1b, <1>2, <1>3, <1>4, <1>5, <1>6

\* Every step keeps the order: the slot at head is the oldest message not yet
\* taken, and the worker is the only one to take it before it ends.
LEMMA HandledStep == IInv /\ [Next]_vars => HandledInv' /\ StopDrains'
<1> SUFFICES ASSUME IInv, [Next]_vars PROVE HandledInv' /\ StopDrains'
  OBVIOUS
<1> USE DEF inqVars, pahoVars, workerVars, mainVars, history, Woken, Ended,
           MayExit, Resume, Oldest, HandledInOrder, SlotDue
<1>0. /\ TypeOK /\ ThreadInv /\ RingInv /\ SlotsInv /\ HandledInv /\ StopDrains
      /\ Empty <=> taken = Len(accepted)
      /\ stores # {} => pend \in Msg
  BY RingFacts DEF IInv, ThreadInv, Locked
<1>1. CASE WorkerPop
  <2>1. taken + 1 \in (taken + 1)..Len(accepted) /\ stores = {}
    BY <1>0, <1>1 DEF WorkerPop, TypeOK, RingInv, ThreadInv
  <2>2. buf[((taken + 1) - 1) % Cap] = accepted[taken + 1]
    BY <1>0, <2>1 DEF SlotsInv
  <2>3. (taken + 1) - 1 = taken
    BY <1>0 DEF TypeOK
  <2>4. buf[head] = accepted[taken + 1]
    BY <1>0, <2>2, <2>3 DEF RingInv
  <2>5. QED
    BY <1>0, <1>1, <2>4 DEF WorkerPop, TypeOK, HandledInv, StopDrains
<1>2. CASE StoreTail
  <2>1. /\ Len(accepted') = Len(accepted) + 1
        /\ \A i \in 1..Len(accepted) : accepted'[i] = accepted[i]
        /\ Len(accepted) \in Nat /\ Len(handled) \in Nat /\ taken \in Nat
        /\ stopAt \in Nat
    BY <1>0, <1>2 DEF TypeOK, StoreTail
  <2>2. UNCHANGED <<worker, cur, handled, taken, stopAt>>
    BY <1>2 DEF StoreTail
  <2>3. worker = "dispatch" => taken \in 1..Len(accepted)
    BY <1>0, <2>1 DEF HandledInv, RingInv, TypeOK
  <2>4. QED
    BY <1>0, <2>1, <2>2, <2>3 DEF HandledInv, StopDrains
<1>3. CASE WorkerExit
  BY <1>0, <1>3 DEF TypeOK, HandledInv, StopDrains, WorkerExit
<1>4. CASE Dispatch
  BY <1>0, <1>4 DEF TypeOK, HandledInv, StopDrains, Dispatch, RingInv
<1>5. CASE StopRouter
  BY <1>0, <1>5 DEF TypeOK, HandledInv, StopDrains, StopRouter, ThreadInv
<1>6. CASE DrainOne
  BY <1>0, <1>6 DEF TypeOK, HandledInv, StopDrains, DrainOne, ThreadInv
<1>7. CASE RouterStart
  BY <1>0, <1>7 DEF TypeOK, HandledInv, StopDrains, RouterStart, ThreadInv
<1>8. CASE Signal
  BY <1>0, <1>8 DEF TypeOK, HandledInv, StopDrains, Signal
<1>9. CASE WorkerWait
  BY <1>0, <1>9 DEF TypeOK, HandledInv, StopDrains, WorkerWait
<1>10. CASE SpuriousWakeup
  BY <1>0, <1>10 DEF TypeOK, HandledInv, StopDrains, SpuriousWakeup
<1>11. ASSUME UNCHANGED <<worker, cur, handled, accepted, taken, stopAt>>
      PROVE  HandledInv' /\ StopDrains'
  BY <1>0, <1>11 DEF HandledInv, StopDrains
<1>12. UNCHANGED <<worker, cur, handled, accepted, taken, stopAt>>
         \/ WorkerPop \/ StoreTail \/ WorkerExit \/ Dispatch \/ StopRouter \/
            DrainOne \/ RouterStart \/ Signal \/ WorkerWait \/ SpuriousWakeup
  BY  DEF Next, MainStep, EnqueueStep, WorkerStep, Environment, Terminated,
     vars, RegisterRoute, Serve, Join, DrainEnd, Disconnect, Refuse, Reserve,
     StoreSlot, Connect, ConnectionLost, StopRequested, Arrive
<1>13. QED
  BY <1>1, <1>2, <1>3, <1>4, <1>5, <1>6, <1>7, <1>8, <1>9, <1>10, <1>11, <1>12

LEMMA IInvStep == IInv /\ [Next]_vars => IInv'
  BY TypeStep, ThreadStep, RingStep, PushStep, SlotsStep, HandledStep DEF IInv

\* The inductive invariant holds of every behaviour.
THEOREM InvariantHolds == Spec => []IInv
  BY InitIInv, IInvStep, PTL DEF Spec

\* Every variable keeps its type: in particular head, tail and the slot a push
\* writes never leave the ring, and no handler runs on an empty slot.
THEOREM TypeCorrect == Spec => []TypeOK
<1>1. IInv => TypeOK
  BY DEF IInv
<1>2. QED
  BY <1>1, InvariantHolds, PTL

\* Handlers run for the accepted messages in the order of acceptance, each once.
THEOREM OrderIsKept == Spec => []HandledInOrder
<1>1. IInv => HandledInOrder
  BY DEF IInv, HandledInv
<1>2. QED
  BY <1>1, InvariantHolds, PTL

\* A worker never sleeps on a ring that holds a message, or after the stop.
THEOREM NoWakeupIsLost == Spec => []NoLostWakeup
<1>1. IInv => NoLostWakeup
  BY DEF IInv
<1>2. QED
  BY <1>1, InvariantHolds, PTL

\* The worker that has ended has handled all that was accepted before the stop.
THEOREM StopLosesNothing == Spec => []StopDrains
<1>1. IInv => StopDrains
  BY DEF IInv
<1>2. QED
  BY <1>1, InvariantHolds, PTL

\* A message is refused for lack of room only when Cap - 1 messages wait.
THEOREM RoomIsUsed == Spec => DropOnlyWhenFull
<1> DEFINE OnlyFull == \A d \in dropped' \ dropped :
                          d.why = "full" => Len(accepted) - taken = Cap - 1
<1>1. IInv /\ [Next]_vars => OnlyFull
  <2> SUFFICES ASSUME IInv, [Next]_vars PROVE OnlyFull
    OBVIOUS
  <2> USE DEF inqVars, pahoVars, workerVars, mainVars, history, Woken, Ended,
           MayExit, Resume, Oldest
  <2>1. Full <=> Len(accepted) - taken = Cap - 1
    BY RingFacts DEF IInv
  <2>2. ASSUME NEW why \in {"full", "memory"}, Refuse(why)
        PROVE  OnlyFull
    BY <2>1, <2>2 DEF Refuse
  <2>3. UNCHANGED dropped \/ \E why \in {"full", "memory"} : Refuse(why)
    BY  DEF Next, MainStep, EnqueueStep, WorkerStep, Environment, Terminated,
       vars, RouterStart, RegisterRoute, Serve, StopRouter, Join, DrainOne,
       DrainEnd, Disconnect, Reserve, StoreSlot, StoreTail, Signal,
       WorkerWait, WorkerPop, WorkerExit, Dispatch, Connect, ConnectionLost,
       StopRequested, Arrive, SpuriousWakeup
  <2>4. QED
    BY <2>2, <2>3
<1>2. QED
  BY <1>1, InvariantHolds, PTL DEF Spec, DropOnlyWhenFull
-----------------------------------------------------------------------------
(* The router as a queue.                                                  *)

\* What the refinement needs besides IInv: before the worker is born nothing can
\* arrive, and the routes are those registered so far.
Quiet == link = "down" /\ paho = "idle"

RouteInv ==
    /\ worker = "unborn" => Quiet /\ main \in {"start", "disconnect", "exit"}
    /\ main = "register" => Quiet
    /\ Quiet \/ Registered
    /\ main \in {"serve", "stop"} => Registered
    /\ Len(routes) <= Len(Commands)
    /\ \A i \in 1..Len(routes) : routes[i] = Commands[i]
    /\ ~Registered => accepted = <<>>

LEMMA InitRouteInv == Init => RouteInv
BY TopicsAssumption DEF Init, RouteInv, Quiet

LEMMA RouteStep == IInv /\ RouteInv /\ [Next]_vars => RouteInv'
<1> SUFFICES ASSUME IInv, RouteInv, [Next]_vars PROVE RouteInv'
  OBVIOUS
<1> USE DEF inqVars, pahoVars, workerVars, mainVars, history, Woken
<1>0. /\ TypeOK /\ ThreadInv
      /\ Len(routes) \in Nat /\ Len(Commands) \in Nat /\ MaxRoutes \in Nat
  BY TopicsAssumption, BoundsAssumption DEF IInv, TypeOK
<1>1. CASE RouterStart
  BY <1>0, <1>1 DEF RouteInv, Quiet, Registered, RouterStart, ThreadInv
<1>2. ASSUME NEW n \in 1..Len(Commands), RegisterRoute(n)
      PROVE  RouteInv'
  <2>1. Commands[n] \in Topics /\ n = Len(routes) + 1
    BY <1>0, <1>2, TopicsAssumption DEF RegisterRoute
  <2>2. /\ Len(routes') = n
        /\ \A i \in 1..Len(routes) : routes'[i] = routes[i]
        /\ routes'[n] = Commands[n]
    BY <1>0, <1>2, <2>1, AppendProperties DEF RegisterRoute, TypeOK
  <2>3. UNCHANGED <<main, worker, link, paho, accepted>> /\ main = "register"
    BY <1>2 DEF RegisterRoute
  <2>4. ~Registered
    BY <1>0, <1>2, <2>1 DEF RegisterRoute, Registered
  <2>5. QED
    BY <1>0, <2>1, <2>2, <2>3, <2>4 DEF RouteInv, Quiet
<1>3. CASE StoreTail
  BY <1>0, <1>3 DEF RouteInv, Quiet, Registered, StoreTail, ThreadInv, Locked
<1>4. ASSUME UNCHANGED <<routes, accepted>>, ~RouterStart
      PROVE  RouteInv'
  BY <1>0, <1>4 DEF RouteInv, Quiet, Registered, ThreadInv,
     Next, MainStep, EnqueueStep, WorkerStep, Environment,
     Terminated, vars, Serve, StopRouter, Join, DrainOne, DrainEnd, Disconnect,
     Refuse, Reserve, StoreSlot, StoreTail, Signal, WorkerWait, WorkerPop,
     WorkerExit, Dispatch, Connect, ConnectionLost, StopRequested, Arrive,
     SpuriousWakeup, RegisterRoute, Resume
<1>5. \/ UNCHANGED <<routes, accepted>> \/ StoreTail
      \/ \E n \in 1..Len(Commands) : RegisterRoute(n)
  BY DEF Next, MainStep, EnqueueStep, WorkerStep, Environment, Terminated, vars,
     RouterStart, Serve, StopRouter, Join, DrainOne, DrainEnd, Disconnect, Refuse,
     Reserve, StoreSlot, Signal, WorkerWait, WorkerPop, WorkerExit, Dispatch,
     Connect, ConnectionLost, StopRequested, Arrive, SpuriousWakeup
<1>6. QED
  BY <1>1, <1>2, <1>3, <1>4, <1>5

\* The route table is part of the inductive invariant of every behaviour.
LEMMA RoutesHold == Spec => []RouteInv
  BY InitRouteInv, RouteStep, InvariantHolds, PTL DEF Spec

\* While the route table is large enough, as MAX_ROUTES is for HA_ENTITIES, no
\* command topic is dispatched as unknown.
THEOREM CommandsFindTheirRoute ==
    ASSUME Len(Commands) <= MaxRoutes
    PROVE  Spec => []CommandsAreRouted
<1>1. Init => CommandsAreRouted
  BY DEF Init, CommandsAreRouted
<1>2. CommandsAreRouted /\ IInv /\ RouteInv /\ [Next]_vars => CommandsAreRouted'
  <2> SUFFICES ASSUME CommandsAreRouted, IInv, RouteInv, [Next]_vars
               PROVE  CommandsAreRouted'
    OBVIOUS
  <2> USE DEF inqVars, pahoVars, workerVars, mainVars, history
  <2>1. CASE Dispatch
    <3>1. \A i \in DOMAIN Commands : i \in 1..Len(Commands)
      BY TopicsAssumption
    <3>2. accepted # <<>> => Len(routes) = Len(Commands)
      BY BoundsAssumption, TopicsAssumption DEF RouteInv, Registered, IInv, TypeOK
    <3>3. accepted # <<>>
      BY <2>1 DEF Dispatch, IInv, TypeOK, HandledInv, RingInv
    <3>4. \A i \in DOMAIN Commands : Commands[i] = cur.topic => Routed(cur.topic)
      BY <3>1, <3>2, <3>3 DEF RouteInv, Routed, IInv, TypeOK
    <3>5. QED
      BY <2>1, <3>4 DEF Dispatch, CommandsAreRouted
  <2>2. CASE UNCHANGED unknown
    BY <2>2 DEF CommandsAreRouted
  <2>3. Dispatch \/ UNCHANGED unknown
    BY DEF Next, MainStep, EnqueueStep, WorkerStep, Environment, Terminated, vars,
       RouterStart, RegisterRoute, Serve, StopRouter, Join, DrainOne, DrainEnd,
       Disconnect, Refuse, Reserve, StoreSlot, StoreTail, Signal, WorkerWait,
       WorkerPop, WorkerExit, Connect, ConnectionLost, StopRequested, Arrive,
       SpuriousWakeup
  <2>4. QED
    BY <2>1, <2>2, <2>3
<1>3. QED
  BY <1>1, <1>2, InvariantHolds, RoutesHold, PTL DEF Spec

\* What waits in the ring is what the abstract queue holds, and the steps that
\* change it are the queue's.
Waiting == SubSeq(accepted, taken + 1, Len(accepted))

LEMMA WaitingFacts ==
    ASSUME TypeOK, RingInv
    PROVE  /\ Waiting \in Seq(Msg)
           /\ Len(Waiting) = Len(accepted) - taken
           /\ Waiting = <<>> <=> taken = Len(accepted)
           /\ taken < Len(accepted) =>
                /\ Head(Waiting) = accepted[taken + 1]
                /\ Tail(Waiting) = SubSeq(accepted, (taken + 1) + 1, Len(accepted))
           /\ \A m \in Msg :
                SubSeq(Append(accepted, m), taken + 1, Len(accepted) + 1)
                  = Append(Waiting, m)
<1>0. /\ accepted \in Seq(Msg) /\ taken \in Nat /\ Len(accepted) \in Nat
      /\ taken <= Len(accepted)
  BY DEF TypeOK, RingInv
<1>1. Waiting \in Seq(Msg) /\ Len(Waiting) = Len(accepted) - taken
  BY <1>0 DEF Waiting
<1>2. Waiting = <<>> <=> taken = Len(accepted)
  BY <1>0, <1>1, EmptySeq
<1>3. ASSUME taken < Len(accepted)
      PROVE  /\ Head(Waiting) = accepted[taken + 1]
             /\ Tail(Waiting) = SubSeq(accepted, (taken + 1) + 1, Len(accepted))
  BY <1>0, <1>3, HeadTailOfSubSeq DEF Waiting
<1>4. ASSUME NEW m \in Msg
      PROVE  SubSeq(Append(accepted, m), taken + 1, Len(accepted) + 1)
               = Append(Waiting, m)
  <2> DEFINE n == Len(accepted)
             longer == Append(accepted, m)
             left == SubSeq(longer, taken + 1, n + 1)
             right == Append(Waiting, m)
  <2>1. /\ longer \in Seq(Msg) /\ Len(longer) = n + 1
        /\ \A i \in 1..n : longer[i] = accepted[i]
        /\ longer[n + 1] = m
    BY <1>0, AppendProperties
  <2>2. /\ right \in Seq(Msg) /\ Len(right) = (n - taken) + 1
        /\ \A i \in 1..(n - taken) : right[i] = Waiting[i]
        /\ right[(n - taken) + 1] = m
    BY <1>1, AppendProperties
  <2>3. \A i \in 1..(n - taken) : Waiting[i] = accepted[taken + i]
    BY <1>0 DEF Waiting
  <2> HIDE DEF longer, right
  <2>4. /\ left \in Seq(Msg) /\ Len(left) = (n - taken) + 1
        /\ \A i \in 1..((n - taken) + 1) : left[i] = longer[taken + i]
    BY <1>0, <2>1
  <2>5. \A i \in 1..Len(left) : left[i] = right[i]
    <3>1. SUFFICES ASSUME NEW i \in 1..((n - taken) + 1) PROVE left[i] = right[i]
      BY <2>4
    <3>2. CASE i = (n - taken) + 1
      <4>1. taken + i = n + 1
        BY <1>0, <3>2
      <4>2. QED
        BY <2>1, <2>2, <2>4, <3>2, <4>1
    <3>3. CASE i # (n - taken) + 1
      <4>1. i \in 1..(n - taken) /\ taken + i \in 1..n
        BY <1>0, <3>3
      <4>2. QED
        BY <2>1, <2>2, <2>3, <2>4, <4>1
    <3>4. QED
      BY <3>2, <3>3
  <2> HIDE DEF left
  <2>6. left = right
    BY <2>2, <2>4, <2>5, SeqEqual
  <2>7. QED
    BY <2>6 DEF left, right, longer
<1>5. QED
  BY <1>1, <1>2, <1>3, <1>4

\* The ring, the mutex, the condition variable and the drain together are a bounded
\* first-in first-out queue that can be closed: every step of the three threads is
\* a step of CommandQueue or leaves it as it is.
THEOREM RouterIsAQueue == Spec => ImplementsQueue
<1>1. Init => Queue!QInit
  BY DEF Init, Queue!QInit, Popped
<1>2. IInv /\ RouteInv /\ [Next]_vars => [Queue!QNext]_(Queue!queueVars)
  <2> SUFFICES ASSUME IInv, RouteInv, [Next]_vars
               PROVE  [Queue!QNext]_(Queue!queueVars)
    OBVIOUS
  <2> USE DEF inqVars, pahoVars, workerVars, mainVars, history, Woken, Resume, MayExit
  <2> DEFINE phase == IF running = 1 THEN "open"
                      ELSE IF worker = "unborn" THEN "new"
                      ELSE IF worker = "done" THEN "closed" ELSE "closing"
  <2>0. /\ TypeOK /\ ThreadInv /\ RingInv /\ PushInv /\ HandledInv
        /\ Empty <=> taken = Len(accepted)
        /\ taken \in Nat /\ Len(accepted) \in Nat
    BY RingFacts DEF IInv, TypeOK
  <2>1. CASE StoreTail
    <3>1. pend \in Msg /\ phase # "new" /\ phase' = phase
      BY <2>0, <2>1 DEF StoreTail, ThreadInv, Locked, RouteInv, Quiet
    <3>2. Len(Waiting) < Cap - 1 /\ Waiting' = Append(Waiting, pend)
      <4>1. /\ accepted' = Append(accepted, pend) /\ taken' = taken
            /\ Len(accepted') = Len(accepted) + 1
        BY <2>0, <2>1, <3>1 DEF StoreTail, TypeOK
      <4>2. Len(accepted) - taken < Cap - 1
        BY <2>0, <2>1 DEF StoreTail, PushInv
      <4>3. QED
        BY <2>0, <3>1, <4>1, <4>2, WaitingFacts DEF Waiting
    <3>3. Popped' = Popped
      BY <2>1 DEF StoreTail, Popped
    <3>4. Queue!Accept(pend)
      BY <3>1, <3>2, <3>3 DEF Queue!Accept, Waiting
    <3>5. QED
      BY <3>1, <3>4 DEF Queue!QNext
  <2>2. CASE WorkerPop
    <3>1. phase \in {"open", "closing"} /\ phase' = phase
      BY <2>0, <2>2 DEF WorkerPop
    <3>2. /\ Waiting # <<>> /\ Waiting' = Tail(Waiting)
          /\ Head(Waiting) = accepted[taken + 1]
      <4>1. accepted' = accepted /\ taken' = taken + 1 /\ taken < Len(accepted)
        BY <2>0, <2>2 DEF WorkerPop, RingInv
      <4>2. Waiting # <<>>
        BY <2>0, <4>1, WaitingFacts
      <4>3. /\ Head(Waiting) = accepted[taken + 1]
            /\ Tail(Waiting) = SubSeq(accepted, (taken + 1) + 1, Len(accepted))
        BY <2>0, <4>1, WaitingFacts
      <4>4. QED
        BY <4>1, <4>2, <4>3 DEF Waiting
    <3>3. Popped' = Append(Popped, Head(Waiting))
      <4>1. HandledInv'
        BY HandledStep
      <4>2. cur' = accepted[taken + 1]
        BY <2>0, <2>2, <4>1 DEF WorkerPop, HandledInv
      <4>3. QED
        BY <2>2, <3>2, <4>2 DEF WorkerPop, Popped
    <3>4. Queue!Deliver
      BY <3>1, <3>2, <3>3 DEF Queue!Deliver, Waiting
    <3>5. QED
      BY <3>4 DEF Queue!QNext
  <2>3. CASE DrainOne
    <3>1. phase = "closed" /\ phase' = phase /\ Popped' = Popped
      BY <2>0, <2>3 DEF DrainOne, ThreadInv, Popped
    <3>2. Waiting # <<>> /\ Waiting' = Tail(Waiting)
      <4>1. accepted' = accepted /\ taken' = taken + 1 /\ taken < Len(accepted)
        BY <2>0, <2>3 DEF DrainOne, RingInv
      <4>2. Waiting # <<>>
        BY <2>0, <4>1, WaitingFacts
      <4>3. Tail(Waiting) = SubSeq(accepted, (taken + 1) + 1, Len(accepted))
        BY <2>0, <4>1, WaitingFacts
      <4>4. QED
        BY <4>1, <4>2, <4>3 DEF Waiting
    <3>3. Queue!Discard
      BY <3>1, <3>2 DEF Queue!Discard, Waiting
    <3>4. QED
      BY <3>3 DEF Queue!QNext
  <2>4. CASE RouterStart
    <3>1. worker = "unborn" /\ Waiting' = Waiting
      BY <2>0, <2>4 DEF RouterStart, ThreadInv, Waiting
    <3>2. Popped' = Popped
      BY <2>4, <3>1 DEF RouterStart, Popped
    <3>3. Queue!Open \/ phase' = phase
      BY <2>4, <3>1, <3>2 DEF RouterStart, Queue!Open, Waiting
    <3>4. QED
      BY <3>1, <3>2, <3>3 DEF Queue!QNext, Queue!queueVars, Waiting
  <2>5. CASE StopRouter
    <3>1. Waiting' = Waiting /\ Popped' = Popped
      BY <2>0, <2>5 DEF StopRouter, ThreadInv, Waiting, Popped
    <3>2. phase = "open" /\ phase' = "closing"
      BY <2>0, <2>5 DEF StopRouter, ThreadInv
    <3>3. Queue!Close
      BY <3>1, <3>2 DEF Queue!Close, Waiting
    <3>4. QED
      BY <3>3 DEF Queue!QNext
  <2>6. CASE WorkerExit
    <3>1. Waiting' = Waiting /\ Waiting = <<>> /\ Popped' = Popped
      BY <2>0, <2>6, WaitingFacts DEF WorkerExit, Waiting, Popped
    <3>2. phase = "closing" /\ phase' = "closed"
      BY <2>6 DEF WorkerExit
    <3>3. Queue!Finish
      BY <3>1, <3>2 DEF Queue!Finish, Waiting
    <3>4. QED
      BY <3>3 DEF Queue!QNext
  <2>7. CASE Dispatch
    <3>1. UNCHANGED <<phase, Waiting, Popped>>
      BY <2>7 DEF Dispatch, Waiting, Popped
    <3>2. QED
      BY <3>1 DEF Queue!queueVars, Waiting
  <2>8. ASSUME UNCHANGED <<running, handled, cur, accepted, taken>>,
               UNCHANGED worker \/ {worker, worker'} \subseteq {"pop", "waiting"}
        PROVE  [Queue!QNext]_(Queue!queueVars)
    BY <2>8 DEF Queue!queueVars, Popped
  <2>9. \/ StoreTail \/ WorkerPop \/ DrainOne \/ RouterStart \/ StopRouter
        \/ WorkerExit \/ Dispatch
        \/ /\ UNCHANGED <<running, handled, cur, accepted, taken>>
           /\ UNCHANGED worker \/ {worker, worker'} \subseteq {"pop", "waiting"}
    BY DEF Next, MainStep, EnqueueStep, WorkerStep, Environment, Terminated, vars,
       RegisterRoute, Serve, Join, DrainEnd, Disconnect, Refuse, Reserve, StoreSlot,
       Signal, WorkerWait, Connect, ConnectionLost, StopRequested, Arrive,
       SpuriousWakeup
  <2>10. QED
    BY <2>1, <2>2, <2>3, <2>4, <2>5, <2>6, <2>7, <2>8, <2>9
<1>3. QED
  BY <1>1, <1>2, InvariantHolds, RoutesHold, PTL
     DEF Spec, ImplementsQueue, Queue!QSpec
=============================================================================
