---------------------------- MODULE Event_proofs ----------------------------
(***************************************************************************)
(* Proofs about the loader's events, for all sets of threads: an event is  *)
(* a latch, and its semaphore loses no wake-up.                            *)
(***************************************************************************)
EXTENDS Event, TLAPS

\* The threads that are blocked are the ones in the queue, each once.
QueueSound ==
    /\ \A i \in 1 .. Len(queue) : call[queue[i]] = "queued"
    /\ \A i, j \in 1 .. Len(queue) : i # j => queue[i] # queue[j]

\* The semaphore is only ever posted for an event that is triggered.
OnlyTriggered ==
    /\ sem = 1 => triggered
    /\ \A t \in Waiters : call[t] \in {"post", "done"} => triggered
    /\ \A t \in Triggers : call[t] # "idle" => triggered

\* What a trigger has posted is either in the count or with one waiter.
TokenKept ==
    /\ sem = 1 => queue = << >>
    /\ (\E t \in Triggers : call[t] = "done")
           => sem = 1 \/ \E t \in Waiters : call[t] = "post"

\* Each kind of thread is in its own call.
OwnCall ==
    /\ \A t \in Waiters : call[t] # "trigger"
    /\ \A t \in Triggers : call[t] \in {"idle", "trigger", "done"}

Inv == EventTypeOK /\ QueueSound /\ OnlyTriggered /\ TokenKept /\ OwnCall

\* What Append and Tail do to the elements of a sequence of waiters.
LEMMA QueueElements ==
    ASSUME NEW S, NEW q \in Seq(S), NEW x \in S
    PROVE  /\ Append(q, x) \in Seq(S)
           /\ Len(Append(q, x)) = Len(q) + 1
           /\ \A i \in 1 .. Len(q) : Append(q, x)[i] = q[i]
           /\ Append(q, x)[Len(q) + 1] = x
           /\ q # << >> => /\ Head(q) \in S /\ Head(q) = q[1]
                           /\ Tail(q) \in Seq(S)
                           /\ Len(q) \in Nat /\ Len(q) >= 1
                           /\ Len(Tail(q)) = Len(q) - 1
                           /\ \A i \in 1 .. Len(Tail(q)) : Tail(q)[i] = q[i + 1]
  OBVIOUS

\* The initial state satisfies the invariant.
LEMMA InvInit == Event_Init => Inv
  <1> SUFFICES ASSUME Event_Init PROVE Inv
    OBVIOUS
  <1>1. EventTypeOK
    <2>1. call \in [Threads -> {"idle", "wait", "queued", "post", "trigger", "done"}]
      BY DEF Event_Init
    <2>2. sem \in 0 .. 1
      BY DEF Event_Init
    <2>5. triggered \in BOOLEAN
      BY Zenon DEF Event_Init
    <2>3. << >> \in Seq(Waiters)
      OBVIOUS
    <2>4. queue \in Seq(Waiters)
      BY <2>3 DEF Event_Init
    <2> QED BY <2>1, <2>2, <2>4, <2>5 DEF EventTypeOK
  <1>2. QueueSound /\ OnlyTriggered /\ TokenKept /\ OwnCall
    BY DEF Event_Init, QueueSound, OnlyTriggered, TokenKept, OwnCall, Threads
  <1> QED BY <1>1, <1>2 DEF Inv

\* A post, by a waiter that was released or by a trigger, keeps the invariant.
LEMMA PostInv ==
    ASSUME Inv, NEW t \in Threads, call[t] \in {"post", "trigger"},
           LWP_SemPost(t), UNCHANGED triggered
    PROVE  Inv'
  <1> USE DEF Inv
  <1>0. triggered
    BY DEF OnlyTriggered, OwnCall, Threads
  <1>1. CASE queue = << >>
    <2>1. sem' = 1 /\ queue' = queue /\ call' = [call EXCEPT ![t] = "done"]
      BY <1>1 DEF LWP_SemPost
    <2>2. EventTypeOK'
      BY <2>1 DEF EventTypeOK
    <2>3. QueueSound'
      BY <1>1, <2>1 DEF QueueSound
    <2>4. OnlyTriggered' /\ TokenKept' /\ OwnCall'
      BY <1>0, <1>1, <2>1, ThreadsAssumption
         DEF OnlyTriggered, TokenKept, OwnCall, EventTypeOK, Threads
    <2> QED BY <2>2, <2>3, <2>4
  <1>2. CASE queue # << >>
    <2> DEFINE h == Head(queue)
    <2>1. /\ sem' = sem /\ queue' = Tail(queue)
          /\ call' = [call EXCEPT ![t] = "done", ![h] = "post"]
      BY <1>2 DEF LWP_SemPost
    <2>2. /\ h \in Waiters /\ h = queue[1] /\ Tail(queue) \in Seq(Waiters)
          /\ Len(queue) \in Nat /\ Len(queue) >= 1
          /\ Len(Tail(queue)) = Len(queue) - 1
          /\ \A i \in 1 .. Len(Tail(queue)) : Tail(queue)[i] = queue[i + 1]
      BY <1>2 DEF EventTypeOK
    <2>3. call[h] = "queued"
      BY <2>2 DEF QueueSound
    <2>4. h # t /\ h \in Threads
      BY <2>2, <2>3 DEF Threads
    <2> HIDE DEF h
    <2>5. /\ call'[t] = "done" /\ call'[h] = "post"
          /\ \A u \in Threads : u # t /\ u # h => call'[u] = call[u]
      BY <2>1, <2>4 DEF EventTypeOK
    <2>6. EventTypeOK'
      BY <2>1, <2>2, <2>4 DEF EventTypeOK
    <2>7. QueueSound'
      <3>1. ASSUME NEW i \in 1 .. Len(queue')
            PROVE  /\ i + 1 \in 1 .. Len(queue) /\ queue'[i] = queue[i + 1]
                   /\ queue[i + 1] # h /\ call[queue[i + 1]] = "queued"
                   /\ queue[i + 1] \in Threads /\ queue[i + 1] # t
        <4>1. i + 1 \in 1 .. Len(queue) /\ queue'[i] = queue[i + 1] /\ i + 1 # 1
          BY <2>1, <2>2
        <4>2. queue[i + 1] # queue[1] /\ call[queue[i + 1]] = "queued"
          BY <4>1, <2>2 DEF QueueSound
        <4>3. queue[i + 1] \in Waiters
          BY <4>1 DEF EventTypeOK
        <4> QED BY <4>1, <4>2, <4>3, <2>2 DEF Threads
      <3>2. \A i \in 1 .. Len(queue') : call'[queue'[i]] = "queued"
        BY <3>1, <2>5
      <3>3. ASSUME NEW i \in 1 .. Len(queue'), NEW j \in 1 .. Len(queue'), i # j
            PROVE  queue'[i] # queue'[j]
        <4>1. i + 1 # j + 1
          BY <3>3, <2>1, <2>2
        <4> QED BY <4>1, <3>1 DEF QueueSound
      <3> QED BY <3>2, <3>3 DEF QueueSound
    <2>8. sem # 1
      BY <1>2 DEF TokenKept
    <2>9. OnlyTriggered'
      BY <1>0, <2>1 DEF OnlyTriggered
    <2>10. TokenKept'
      BY <2>1, <2>2, <2>5, <2>8 DEF TokenKept
    <2>11. OwnCall'
      BY <2>2, <2>4, <2>5, ThreadsAssumption DEF OwnCall, Threads
    <2> QED BY <2>6, <2>7, <2>9, <2>10, <2>11
  <1> QED BY <1>1, <1>2

\* Waiting for the semaphore keeps the invariant.
LEMMA SemWaitInv ==
    ASSUME Inv, NEW t \in Waiters, WaitSem(t)
    PROVE  Inv'
  <1> USE DEF Inv
  <1>0. call[t] = "wait" /\ triggered' = triggered /\ t \in Threads
    BY DEF WaitSem, Threads
  <1>1. CASE sem > 0
    <2>1. /\ sem = 1 /\ sem' = 0 /\ queue' = queue /\ queue = << >>
          /\ call' = [call EXCEPT ![t] = "post"]
      BY <1>1 DEF WaitSem, LWP_SemWait, EventTypeOK, TokenKept
    <2>2. EventTypeOK'
      BY <2>1, <1>0 DEF EventTypeOK
    <2>3. QueueSound'
      BY <2>1 DEF QueueSound
    <2>4. OnlyTriggered' /\ TokenKept' /\ OwnCall'
      BY <1>0, <2>1, ThreadsAssumption
         DEF OnlyTriggered, TokenKept, OwnCall, EventTypeOK, Threads
    <2> QED BY <2>2, <2>3, <2>4
  <1>2. CASE ~(sem > 0)
    <2>1. /\ sem = 0 /\ sem' = 0 /\ queue' = Append(queue, t)
          /\ call' = [call EXCEPT ![t] = "queued"]
      BY <1>2 DEF WaitSem, LWP_SemWait, EventTypeOK
    <2>2. /\ queue' \in Seq(Waiters) /\ Len(queue') = Len(queue) + 1 /\ Len(queue) \in Nat
          /\ \A i \in 1 .. Len(queue) : queue'[i] = queue[i]
          /\ queue'[Len(queue) + 1] = t
      BY <2>1 DEF EventTypeOK
    <2>3. EventTypeOK'
      BY <2>1, <2>2, <1>0 DEF EventTypeOK
    <2>4. /\ call'[t] = "queued"
          /\ \A u \in Threads : u # t => call'[u] = call[u]
      BY <2>1, <1>0 DEF EventTypeOK
    <2>5. ASSUME NEW i \in 1 .. Len(queue) PROVE queue[i] # t /\ queue[i] \in Threads
      BY <1>0 DEF QueueSound, EventTypeOK, Threads
    <2>6. \A i \in 1 .. Len(queue') : i \in 1 .. Len(queue) \/ i = Len(queue) + 1
      BY <2>2
    <2>7. QueueSound'
      <3>1. \A i \in 1 .. Len(queue') : call'[queue'[i]] = "queued"
        BY <2>2, <2>4, <2>5, <2>6 DEF QueueSound
      <3>2. \A i, j \in 1 .. Len(queue') : i # j => queue'[i] # queue'[j]
        BY <2>2, <2>5, <2>6 DEF QueueSound
      <3> QED BY <3>1, <3>2 DEF QueueSound
    <2>8. OnlyTriggered' /\ TokenKept' /\ OwnCall'
      BY <1>0, <2>1, <2>4, ThreadsAssumption
         DEF OnlyTriggered, TokenKept, OwnCall, Threads
    <2> QED BY <2>3, <2>7, <2>8
  <1> QED BY <1>1, <1>2

\* Reading or setting the flag keeps the invariant.
LEMMA FlagInv ==
    ASSUME Inv, NEW t \in Threads,
           (t \in Waiters /\ WaitFlag(t)) \/ (t \in Triggers /\ TriggerFlag(t))
    PROVE  Inv'
  <1> USE DEF Inv
  <1>1. PICK v \in {"done", "wait", "trigger"} :
          /\ call[t] = "idle" /\ call' = [call EXCEPT ![t] = v]
          /\ sem' = sem /\ queue' = queue
          /\ t \in Waiters => v # "trigger" /\ triggered' = triggered /\ (v = "done" => triggered)
          /\ t \in Triggers => v = "trigger" /\ triggered'
          /\ triggered' \in BOOLEAN /\ (triggered => triggered')
    BY ThreadsAssumption DEF WaitFlag, TriggerFlag, EventTypeOK
  <1>2. /\ call'[t] = v
        /\ \A u \in Threads : u # t => call'[u] = call[u]
    BY <1>1 DEF EventTypeOK
  <1>3. EventTypeOK'
    BY <1>1 DEF EventTypeOK
  <1>4. QueueSound'
    BY <1>1, <1>2 DEF QueueSound, EventTypeOK, Threads
  <1>5. OnlyTriggered' /\ TokenKept' /\ OwnCall'
    BY <1>1, <1>2, ThreadsAssumption DEF OnlyTriggered, TokenKept, OwnCall, Threads
  <1> QED BY <1>3, <1>4, <1>5

\* Every step keeps the invariant.
LEMMA InvStep == Inv /\ [EventNext]_eventVars => Inv'
  <1> SUFFICES ASSUME Inv, [EventNext]_eventVars PROVE Inv'
    OBVIOUS
  <1>1. ASSUME NEW t \in Waiters, Event_Wait(t) PROVE Inv'
    BY <1>1, FlagInv, SemWaitInv, PostInv DEF Event_Wait, WaitPost, Threads
  <1>2. ASSUME NEW t \in Triggers, Event_Trigger(t) PROVE Inv'
    BY <1>2, FlagInv, PostInv DEF Event_Trigger, TriggerPost, Threads
  <1>3. CASE UNCHANGED eventVars
    BY <1>3 DEF eventVars, Inv, EventTypeOK, QueueSound, OnlyTriggered, TokenKept, OwnCall
  <1> QED BY <1>1, <1>2, <1>3 DEF EventNext

\* The invariant holds in every state.
LEMMA Invariant == EventSafety => []Inv
  BY InvInit, InvStep, PTL DEF EventSafety

\* Every behaviour keeps the types of the event's variables.
THEOREM EventTypeCorrect == EventSafety => []EventTypeOK
  <1>1. Inv => EventTypeOK
    BY DEF Inv
  <1> QED BY <1>1, Invariant, PTL

\* A trigger that has returned leaves no thread blocked without one that is
\* about to post the semaphore for it.
THEOREM WakeupTheorem == EventSafety => []NoLostWakeup
  <1>1. Inv => NoLostWakeup
    BY DEF Inv, TokenKept, NoLostWakeup
  <1> QED BY <1>1, Invariant, PTL

\* Every step is a step of the latch or leaves it unchanged.
LEMMA LatchStep ==
    ASSUME Inv, [EventNext]_eventVars
    PROVE  [L!LatchNext]_(L!latchVars)
  <1> DEFINE waiting == {t \in Waiters : call[t] # "idle"}
             released == {t \in Waiters : call[t] = "done"}
  <1> USE DEF Inv
  <1> SUFFICES L!LatchNext \/ UNCHANGED <<triggered, waiting, released>>
    BY DEF L!latchVars
  <1>1. ASSUME NEW t \in Waiters, WaitFlag(t) PROVE L!LatchNext
    <2>1. call[t] = "idle" /\ t \in Threads /\ triggered' = triggered
      BY <1>1 DEF WaitFlag, Threads
    <2>2. CASE triggered
      <3>1. call' = [call EXCEPT ![t] = "done"]
        BY <1>1, <2>2 DEF WaitFlag
      <3>2. waiting' = waiting \cup {t} /\ released' = released \cup {t}
        BY <3>1, <2>1 DEF EventTypeOK, Threads
      <3>3. L!Release(t)
        BY <2>1, <2>2, <3>2 DEF L!Release
      <3> QED BY <3>3 DEF L!LatchNext
    <2>3. CASE ~triggered
      <3>1. call' = [call EXCEPT ![t] = "wait"]
        BY <1>1, <2>3 DEF WaitFlag
      <3>2. waiting' = waiting \cup {t} /\ released' = released
        BY <3>1, <2>1 DEF EventTypeOK, Threads
      <3>3. L!Begin(t)
        BY <2>1, <3>2 DEF L!Begin
      <3> QED BY <3>3 DEF L!LatchNext
    <2> QED BY <2>2, <2>3
  <1>2. ASSUME NEW t \in Waiters, WaitSem(t)
        PROVE UNCHANGED <<triggered, waiting, released>>
    <2>1. PICK v \in {"post", "queued"} : call' = [call EXCEPT ![t] = v]
      BY <1>2 DEF WaitSem, LWP_SemWait
    <2>2. call[t] = "wait" /\ triggered' = triggered
      BY <1>2 DEF WaitSem
    <2> QED BY <2>1, <2>2 DEF EventTypeOK, Threads
  <1>3. ASSUME NEW t \in Threads, LWP_SemPost(t), call[t] \in {"post", "trigger"},
               UNCHANGED triggered
        PROVE  /\ t \in Waiters => waiting' = waiting /\ released' = released \cup {t}
               /\ t \in Triggers => UNCHANGED <<triggered, waiting, released>>
    <2>1. CASE queue = << >>
      <3>1. call' = [call EXCEPT ![t] = "done"]
        BY <1>3, <2>1 DEF LWP_SemPost
      <3> QED BY <3>1, <1>3, ThreadsAssumption DEF EventTypeOK, Threads
    <2>2. CASE queue # << >>
      <3>1. call' = [call EXCEPT ![t] = "done", ![Head(queue)] = "post"]
        BY <1>3, <2>2 DEF LWP_SemPost
      <3>2. Head(queue) \in Waiters /\ Head(queue) = queue[1] /\ 1 \in 1 .. Len(queue)
        BY <2>2 DEF EventTypeOK
      <3>3. call[Head(queue)] = "queued"
        BY <3>2 DEF QueueSound
      <3>4. \A u \in Threads : call'[u] = IF u = t THEN "done"
                               ELSE IF u = Head(queue) THEN "post" ELSE call[u]
        BY <3>1, <3>2, <3>3, <1>3 DEF EventTypeOK, Threads
      <3> QED BY <3>2, <3>3, <3>4, <1>3, ThreadsAssumption DEF Threads
    <2> QED BY <2>1, <2>2
  <1>4. ASSUME NEW t \in Waiters, WaitPost(t) PROVE L!LatchNext
    <2>1. /\ waiting' = waiting /\ released' = released \cup {t}
          /\ triggered /\ triggered' = triggered /\ call[t] = "post"
      BY <1>3, <1>4 DEF WaitPost, Threads, OnlyTriggered
    <2>2. L!Release(t)
      BY <2>1 DEF L!Release
    <2> QED BY <2>2 DEF L!LatchNext
  <1>5. ASSUME NEW t \in Triggers, TriggerFlag(t) PROVE L!LatchNext
    <2>1. triggered' = TRUE /\ call' = [call EXCEPT ![t] = "trigger"]
      BY <1>5 DEF TriggerFlag
    <2>2. waiting' = waiting /\ released' = released
      BY <2>1, ThreadsAssumption DEF EventTypeOK, Threads
    <2> QED BY <2>1, <2>2 DEF L!LatchNext, L!Fire
  <1>6. ASSUME NEW t \in Triggers, TriggerPost(t)
        PROVE UNCHANGED <<triggered, waiting, released>>
    BY <1>3, <1>6 DEF TriggerPost, Threads
  <1>7. CASE UNCHANGED eventVars
    BY <1>7 DEF eventVars
  <1> QED BY <1>1, <1>2, <1>4, <1>5, <1>6, <1>7
          DEF EventNext, Event_Wait, Event_Trigger

\* The flag and the semaphore implement the latch's safety: no wait returns
\* before the event is triggered.
THEOREM LatchTheorem == EventSafety => L!LatchSafe
  <1>1. Event_Init => L!LatchInit
    BY DEF Event_Init, L!LatchInit, Threads
  <1>2. Inv /\ [EventNext]_eventVars => [L!LatchNext]_(L!latchVars)
    BY LatchStep
  <1> QED BY <1>1, <1>2, Invariant, PTL DEF EventSafety, L!LatchSafe

=============================================================================
