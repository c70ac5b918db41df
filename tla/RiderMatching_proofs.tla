------------------------ MODULE RiderMatching_proofs ------------------------
(***************************************************************************)
(* Proofs about RiderMatching: its types, and with them that no rider is   *)
(* looked up at a position his queue does not have; and that somebody is   *)
(* searching for a rider as long as a delivery needs one (SearchInv).      *)
(***************************************************************************)
EXTENDS RiderMatching, TLAPS

USE DEF Status, Absent, TaskLabels, RequestLabels

LEMMA TypeInit == Init => TypeOK
<1> SUFFICES ASSUME Init PROVE TypeOK
  OBVIOUS
<1> USE ConstantsAssumption DEF Init
<1>1. DocTypeOK
  BY DEF DocTypeOK
<1>2. RedisTypeOK
  BY DEF RedisTypeOK
<1>3. MessageTypeOK
  BY DEF MessageTypeOK
<1>4. TaskTypeOK
  BY DEF TaskTypeOK, TaskState, IdleTask, TaskOK
<1>5. RequestTypeOK
  BY DEF RequestTypeOK, RequestState, IdleRequest, RequestOK
<1>6. BoundsOK
  BY DEF BoundsOK
<1>7. QED
  BY <1>1, <1>2, <1>3, <1>4, <1>5, <1>6 DEF TypeOK

-----------------------------------------------------------------------------
(* What becomes of a task and of a request. *)

LEMMA TaskMoves ==
    ASSUME TaskTypeOK, NEW t \in Tasks, NEW k \in TaskState, TaskOK(k),
           task' = [task EXCEPT ![t] = k]
    PROVE  TaskTypeOK'
<1>1. task' \in [Tasks -> TaskState]
  BY DEF TaskTypeOK
<1>2. \A u \in Tasks : TaskOK(task'[u])
  BY DEF TaskTypeOK
<1>3. QED
  BY <1>1, <1>2 DEF TaskTypeOK

(* What a step does not touch keeps its type. *)
LEMMA PartsStay ==
    /\ DocTypeOK /\ UNCHANGED docVars => DocTypeOK'
    /\ RedisTypeOK /\ UNCHANGED redisVars => RedisTypeOK'
    /\ MessageTypeOK /\ UNCHANGED <<asked, events>> => MessageTypeOK'
    /\ TaskTypeOK /\ UNCHANGED task => TaskTypeOK'
    /\ RequestTypeOK /\ UNCHANGED req => RequestTypeOK'
    /\ BoundsOK /\ UNCHANGED bounds => BoundsOK'
  BY DEF docVars, redisVars, bounds, DocTypeOK, RedisTypeOK, MessageTypeOK, TaskTypeOK,
         RequestTypeOK, BoundsOK

LEMMA FinishType ==
    ASSUME TaskTypeOK, NEW t \in Tasks, Finish(t)
    PROVE  TaskTypeOK'
<1>1. IdleTask \in TaskState /\ TaskOK(IdleTask)
  BY DEF IdleTask, TaskState, TaskOK
<1>2. QED
  BY <1>1, TaskMoves DEF Finish

(* The labels at which a task needs nothing but its delivery. *)
Plain == TaskLabels \ {"idle", "setCooldown", "initHash", "expireHash", "initActive", "moveOn", "askNext"}

LEMMA GotoType ==
    ASSUME TaskTypeOK, NEW t \in Tasks, NEW l \in Plain, Goto(t, l), ~At(t, "idle")
    PROVE  TaskTypeOK'
<1> DEFINE k == [task[t] EXCEPT !.at = l]
<1>1. task[t] \in TaskState /\ TaskOK(task[t])
  BY DEF TaskTypeOK
<1>2. k \in TaskState /\ TaskOK(k)
  BY <1>1 DEF TaskState, TaskOK, Plain, At
<1>3. task' = [task EXCEPT ![t] = k]
  BY DEF Goto, TaskTypeOK
<1>4. QED
  BY <1>2, <1>3, TaskMoves

LEMMA StartType ==
    ASSUME TaskTypeOK, NEW t \in Tasks, NEW d \in Deliveries, NEW l \in Plain, Start(t, d, l)
    PROVE  TaskTypeOK'
<1> DEFINE k == [task[t] EXCEPT !.at = l, !.del = d]
<1>1. task[t] \in TaskState /\ TaskOK(task[t])
  BY DEF TaskTypeOK
<1>2. k \in TaskState /\ TaskOK(k)
  <2>1. k \in TaskState
    BY <1>1 DEF TaskState, Plain
  <2>2. k.at = l /\ k.del = d
    BY <1>1 DEF TaskState
  <2>3. d # NoDelivery
    BY ConstantsAssumption
  <2> QED
    BY <2>1, <2>2, <2>3 DEF TaskOK, Plain
<1>3. task' = [task EXCEPT ![t] = k]
  BY DEF Start, TaskTypeOK
<1>4. QED
  BY <1>2, <1>3, TaskMoves

LEMMA ContinueType ==
    ASSUME TaskTypeOK, NEW t \in Tasks, NEW queue \in Seq(Riders), ~At(t, "idle"),
           NEW l \in {"filterQueue", "initHash"},
           queue # <<>> => Len(queue) <= MaxRiders,
           Continue(t, queue, l)
    PROVE  TaskTypeOK'
<1>1. CASE queue = <<>> /\ task[t].keep
  BY <1>1, FinishType DEF Continue
<1>2. CASE ~(queue = <<>> /\ task[t].keep)
  <2> DEFINE k == [task[t] EXCEPT !.at = IF queue = <<>> THEN "dropHash" ELSE l, !.queue = queue]
  <2>1. task[t] \in TaskState /\ TaskOK(task[t])
    BY DEF TaskTypeOK
  <2>2. k \in TaskState /\ TaskOK(k)
    BY <2>1 DEF TaskState, TaskOK, QueueOK, At
  <2>3. task' = [task EXCEPT ![t] = k]
    BY <1>2 DEF Continue, TaskTypeOK
  <2>4. QED
    BY <2>2, <2>3, TaskMoves
<1>3. QED
  BY <1>1, <1>2

(* A queue is a sequence of riders, at most MAX_RIDERS of them. *)
LEMMA QueuesAreShort ==
    ASSUME NEW S \in SUBSET Riders, NEW queue \in Queues(S)
    PROVE  queue \in Seq(Riders) /\ Len(queue) <= MaxRiders
<1>1. PICK n \in 0..MaxRiders : queue \in [1..n -> S]
  BY DEF Queues
<1>2. queue \in Seq(S) /\ Len(queue) = n
  BY <1>1, ConstantsAssumption
<1>3. QED
  BY <1>1, <1>2, ConstantsAssumption

(* Writing fields of a matching state that may be gone. *)
LEMMA HashChanges ==
    ASSUME RedisTypeOK, NEW d \in Deliveries, NEW h,
           hash[d] # NoHash => h \in HashState /\ HashOK(h),
           SetHash(d, h), UNCHANGED <<active, cooldown>>
    PROVE  RedisTypeOK'
  BY DEF RedisTypeOK, SetHash

-----------------------------------------------------------------------------
(* Every step of a task preserves the types. *)
LEMMA StepType ==
    ASSUME TypeOK, NEW t \in Tasks, Step(t)
    PROVE  TypeOK'
<1> DEFINE d == task[t].del
<1> USE DEF TypeOK
<1>k. /\ task[t] \in TaskState /\ TaskOK(task[t])
      /\ ~At(t, "idle") => d \in Deliveries
  BY DEF TaskTypeOK, TaskState, TaskOK, At
<1>1. CASE ReadPaid(t)
  <2>1. TaskTypeOK'
    BY <1>1, FinishType, GotoType DEF ReadPaid, At, Plain
  <2>2. QED
    BY <1>1, <2>1, PartsStay DEF ReadPaid, docVars, redisVars, bounds
<1>2. CASE SetSearching(t)
  <2>1. TaskTypeOK'
    BY <1>2, GotoType DEF SetSearching, At, Plain
  <2>2. DocTypeOK'
    BY <1>2 DEF SetSearching, SetStatus, DocTypeOK
  <2>3. QED
    BY <1>2, <2>1, <2>2, PartsStay DEF SetSearching, docVars, redisVars, bounds
<1>3. CASE CheckHash(t)
  <2>1. TaskTypeOK'
    BY <1>3, FinishType, GotoType DEF CheckHash, At, Plain
  <2>2. QED
    BY <1>3, <2>1, PartsStay DEF CheckHash, docVars, redisVars, bounds
<1>4. CASE ReadDelivery(t)
  <2>1. TaskTypeOK'
    <3>1. CASE Finish(t)
      BY <3>1, FinishType
    <3>2. CASE ~Finish(t)
      <4> DEFINE k == [task[t] EXCEPT !.at = "findRiders", !.keep = dPaid[d]]
      <4>1. k \in TaskState /\ TaskOK(k)
        BY <1>k, <1>4 DEF ReadDelivery, TaskState, TaskOK, At, DocTypeOK
      <4>2. task' = [task EXCEPT ![t] = k]
        BY <1>4, <3>2 DEF ReadDelivery, TaskTypeOK
      <4>3. QED
        BY <4>1, <4>2, TaskMoves
    <3>3. QED
      BY <3>1, <3>2
  <2>2. QED
    BY <1>4, <2>1, PartsStay DEF ReadDelivery, docVars, redisVars, bounds
<1>5. CASE FindRiders(t)
  <2>1. TaskTypeOK'
    <3>1. <<>> \in Seq(Riders) /\ Len(<<>>) <= MaxRiders
      BY ConstantsAssumption
    <3>2. CASE Continue(t, <<>>, "filterQueue")
      BY <1>5, <3>1, <3>2, ContinueType DEF FindRiders, At
    <3>3. CASE Goto(t, "filterQueue")
      BY <1>5, <3>3, GotoType DEF FindRiders, At, Plain
    <3>4. QED
      BY <1>5, <3>2, <3>3 DEF FindRiders
  <2>2. QED
    BY <1>5, <2>1, PartsStay DEF FindRiders, docVars, redisVars, bounds
<1>6. CASE FilterQueue(t)
  <2>1. TaskTypeOK'
    <3>1. PICK queue \in Queues(Willing(d)) : Continue(t, queue, "initHash")
      BY <1>6 DEF FilterQueue
    <3>2. queue \in Seq(Riders) /\ Len(queue) <= MaxRiders
      BY <3>1, QueuesAreShort DEF Willing
    <3>3. QED
      BY <1>6, <3>1, <3>2, ContinueType DEF FilterQueue, At
  <2>2. QED
    BY <1>6, <2>1, PartsStay DEF FilterQueue, docVars, redisVars, bounds
<1>7. CASE InitHash(t)
  <2>1. TaskTypeOK'
    <3> DEFINE k == [task[t] EXCEPT !.at = "expireHash"]
    <3>1. k \in TaskState /\ TaskOK(k)
      BY <1>k, <1>7 DEF InitHash, TaskState, TaskOK, QueueOK, At
    <3>2. task' = [task EXCEPT ![t] = k]
      BY <1>7 DEF InitHash, Goto, TaskTypeOK
    <3>3. QED
      BY <3>1, <3>2, TaskMoves
  <2>2. RedisTypeOK'
    <3> DEFINE h == [queue |-> task[t].queue, index |-> 1, status |-> "active", due |-> FALSE,
                     expires |-> IF hash[d] = NoHash THEN FALSE ELSE hash[d].expires]
    <3>a. hash[d] = NoHash \/ hash[d] \in HashState
      BY <1>k, <1>7 DEF InitHash, At, RedisTypeOK
    <3>b. h.expires \in BOOLEAN
      BY <3>a DEF HashState
    <3>c. task[t].queue \in Seq(Riders) /\ QueueOK(task[t])
      BY <1>k, <1>7 DEF InitHash, At, TaskOK, TaskState
    <3>d. h.queue = task[t].queue /\ h.index = 1
      OBVIOUS
    <3>e. HashOK(h)
      BY <3>c, <3>d, ConstantsAssumption DEF HashOK, QueueOK
    <3>f. h \in HashState
      BY <3>b, <3>c DEF HashState
    <3>1. h \in HashState /\ HashOK(h)
      BY <3>e, <3>f
    <3>2. hash' = [hash EXCEPT ![d] = h] /\ UNCHANGED <<active, cooldown>>
      BY <1>7 DEF InitHash
    <3>3. QED
      BY <3>1, <3>2 DEF RedisTypeOK
  <2>3. QED
    BY <1>7, <2>1, <2>2, PartsStay DEF InitHash, docVars, redisVars, bounds
<1>8. CASE ExpireHash(t)
  <2>1. TaskTypeOK'
    <3> DEFINE k == [task[t] EXCEPT !.at = "initActive"]
    <3>1. k \in TaskState /\ TaskOK(k)
      BY <1>k, <1>8 DEF ExpireHash, TaskState, TaskOK, QueueOK, At
    <3>2. task' = [task EXCEPT ![t] = k]
      BY <1>8 DEF ExpireHash, Goto, TaskTypeOK
    <3>3. QED
      BY <3>1, <3>2, TaskMoves
  <2>2. RedisTypeOK'
    <3> DEFINE h == [hash[d] EXCEPT !.expires = TRUE]
    <3>1. hash[d] # NoHash => h \in HashState /\ HashOK(h)
      BY <1>k, <1>8 DEF ExpireHash, At, RedisTypeOK, HashState, HashOK, QueueOK
    <3>2. QED
      BY <1>k, <1>8, <3>1, HashChanges DEF ExpireHash, SetHash, At, redisVars
  <2>3. QED
    BY <1>8, <2>1, <2>2, PartsStay DEF ExpireHash, docVars, redisVars, bounds
<1>9. CASE InitActive(t)
  <2>1. TaskTypeOK'
    BY <1>9, FinishType DEF InitActive
  <2>2. RedisTypeOK'
    BY <1>k, <1>9 DEF InitActive, At, RedisTypeOK
  <2>3. MessageTypeOK'
    BY <1>k, <1>9 DEF InitActive, At, MessageTypeOK, TaskOK, TaskState, QueueOK
  <2>4. QED
    BY <1>9, <2>1, <2>2, <2>3, PartsStay DEF InitActive, docVars, redisVars, bounds
<1>10. CASE SetCooldown(t)
  <2>1. TaskTypeOK'
    <3> DEFINE k == [task[t] EXCEPT !.at = "readToAdvance", !.rider = NoRider]
    <3>1. k \in TaskState /\ TaskOK(k)
      BY <1>k, <1>10 DEF SetCooldown, TaskState, TaskOK, At
    <3>2. task' = [task EXCEPT ![t] = k]
      BY <1>10 DEF SetCooldown, Goto, TaskTypeOK
    <3>3. QED
      BY <3>1, <3>2, TaskMoves
  <2>2. RedisTypeOK'
    BY <1>k, <1>10 DEF SetCooldown, At, RedisTypeOK, TaskOK
  <2>3. QED
    BY <1>10, <2>1, <2>2, PartsStay DEF SetCooldown, docVars, redisVars, bounds
<1>11. CASE CheckDue(t)
  <2>1. TaskTypeOK'
    BY <1>11, FinishType, GotoType DEF CheckDue, At, Plain
  <2>2. QED
    BY <1>11, <2>1, PartsStay DEF CheckDue, docVars, redisVars, bounds
<1>12. CASE ReadToAdvance(t)
  <2>1. TaskTypeOK'
    <3>1. CASE Finish(t)
      BY <3>1, FinishType
    <3>2. CASE ~Finish(t)
      <4> DEFINE k == [task[t] EXCEPT !.at = "advance", !.keep = dPaid[d]]
      <4>1. k \in TaskState /\ TaskOK(k)
        BY <1>k, <1>12 DEF ReadToAdvance, TaskState, TaskOK, At, DocTypeOK
      <4>2. task' = [task EXCEPT ![t] = k]
        BY <1>12, <3>2 DEF ReadToAdvance, TaskTypeOK
      <4>3. QED
        BY <4>1, <4>2, TaskMoves
    <3>3. QED
      BY <3>1, <3>2
  <2>2. QED
    BY <1>12, <2>1, PartsStay DEF ReadToAdvance, docVars, redisVars, bounds
<1>13. CASE Advance(t)
  <2>1. TaskTypeOK'
    <3>1. CASE ~IsActive(d) \/ hash[d].index >= Len(hash[d].queue)
      BY <1>13, <3>1, GotoType DEF Advance, At, Plain
    <3>2. CASE IsActive(d) /\ ~(hash[d].index >= Len(hash[d].queue))
      <4> DEFINE k == [task[t] EXCEPT !.at = "moveOn", !.queue = hash[d].queue,
                                      !.index = hash[d].index + 1]
      <4>a. d \in Deliveries
        BY <1>k, <1>13 DEF Advance, At
      <4>b. hash[d] # NoHash
        BY <3>2 DEF IsActive
      <4>c. hash[d] \in HashState /\ HashOK(hash[d])
        BY <4>a, <4>b DEF RedisTypeOK
      <4>1. /\ hash[d].queue \in Seq(Riders) /\ QueueOK(hash[d])
            /\ hash[d].index + 1 \in 2..Len(hash[d].queue)
        <5>1. /\ hash[d].queue \in Seq(Riders) /\ QueueOK(hash[d])
              /\ hash[d].index \in Nat /\ hash[d].index >= 1
          BY <4>c, ConstantsAssumption DEF HashState, HashOK
        <5>2. Len(hash[d].queue) \in Nat
          BY <5>1
        <5> QED
          BY <3>2, <5>1, <5>2
      <4>d. hash[d].index + 1 \in Nat
        BY <4>c DEF HashState
      <4>e. k \in TaskState
        BY <1>k, <4>1, <4>d DEF TaskState
      <4>f. k.at = "moveOn" /\ k.del = d /\ k.queue = hash[d].queue /\ k.index = hash[d].index + 1
        BY <1>k DEF TaskState
      <4>g. TaskOK(k)
        BY <4>a, <4>1, <4>f, ConstantsAssumption DEF TaskOK, QueueOK
      <4>2. k \in TaskState /\ TaskOK(k)
        BY <4>e, <4>g
      <4>3. task' = [task EXCEPT ![t] = k]
        BY <1>13, <3>2 DEF Advance, TaskTypeOK
      <4>4. QED
        BY <4>2, <4>3, TaskMoves
    <3>3. QED
      BY <3>1, <3>2
  <2>2. QED
    BY <1>13, <2>1, PartsStay DEF Advance, docVars, redisVars, bounds
<1>14. CASE Exhaust(t)
  <2>1. TaskTypeOK'
    BY <1>14, GotoType DEF Exhaust, At, Plain
  <2>2. RedisTypeOK'
    <3> DEFINE h == [hash[d] EXCEPT !.status = "exhausted"]
    <3>1. hash[d] # NoHash => h \in HashState /\ HashOK(h)
      BY <1>k, <1>14 DEF Exhaust, At, RedisTypeOK, HashState, HashOK, QueueOK, TaskOK, TaskState
    <3>2. QED
      BY <1>k, <1>14, <3>1, HashChanges DEF Exhaust, SetHash, At, redisVars
  <2>3. QED
    BY <1>14, <2>1, <2>2, PartsStay DEF Exhaust, docVars, redisVars, bounds
<1>15. CASE ExhaustActive(t)
  <2>1. TaskTypeOK'
    BY <1>15, GotoType DEF ExhaustActive, At, Plain
  <2>2. RedisTypeOK'
    BY <1>15 DEF ExhaustActive, RedisTypeOK
  <2>3. QED
    BY <1>15, <2>1, <2>2, PartsStay DEF ExhaustActive, docVars, redisVars, bounds
<1>16. CASE MoveOn(t)
  <2>1. TaskTypeOK'
    <3> DEFINE k == [task[t] EXCEPT !.at = "askNext"]
    <3>1. k \in TaskState /\ TaskOK(k)
      BY <1>k, <1>16 DEF MoveOn, TaskState, TaskOK, QueueOK, At
    <3>2. task' = [task EXCEPT ![t] = k]
      BY <1>16 DEF MoveOn, Goto, TaskTypeOK
    <3>3. QED
      BY <3>1, <3>2, TaskMoves
  <2>2. RedisTypeOK'
    <3> DEFINE h == [hash[d] EXCEPT !.index = task[t].index, !.due = FALSE]
    <3>a. task[t].index \in 1..MaxRiders
      BY <1>k, <1>16, ConstantsAssumption DEF MoveOn, At, TaskOK, TaskState, QueueOK
    <3>b. d \in Deliveries
      BY <1>k, <1>16 DEF MoveOn, At
    <3>1. hash[d] # NoHash => h \in HashState /\ HashOK(h)
      <4> SUFFICES ASSUME hash[d] # NoHash PROVE h \in HashState /\ HashOK(h)
        OBVIOUS
      <4>1. hash[d] \in HashState /\ HashOK(hash[d])
        BY <3>b DEF RedisTypeOK
      <4>0. task[t].index \in Nat
        BY <1>k DEF TaskState
      <4>2. h \in HashState
        BY <4>0, <4>1 DEF HashState
      <4>3. h.queue = hash[d].queue /\ h.index = task[t].index
        BY <4>1 DEF HashState
      <4>4. HashOK(h)
        BY <3>a, <4>1, <4>3 DEF HashOK, QueueOK
      <4>5. QED
        BY <4>2, <4>4
    <3>2. QED
      BY <1>k, <1>16, <3>1, HashChanges DEF MoveOn, SetHash, At, redisVars
  <2>3. QED
    BY <1>16, <2>1, <2>2, PartsStay DEF MoveOn, docVars, redisVars, bounds
<1>17. CASE AskNext(t)
  <2>1. TaskTypeOK'
    BY <1>17, FinishType DEF AskNext
  <2>2. MessageTypeOK'
    BY <1>k, <1>17 DEF AskNext, At, MessageTypeOK, TaskOK, TaskState, QueueOK
  <2>3. QED
    BY <1>17, <2>1, <2>2, PartsStay DEF AskNext, docVars, redisVars, bounds
<1>18. CASE DropHash(t)
  <2>1. TaskTypeOK'
    BY <1>18, GotoType DEF DropHash, At, Plain
  <2>2. RedisTypeOK'
    BY <1>18 DEF DropHash, RedisTypeOK
  <2>3. QED
    BY <1>18, <2>1, <2>2, PartsStay DEF DropHash, docVars, redisVars, bounds
<1>19. CASE DropActive(t)
  <2>1. TaskTypeOK'
    BY <1>19, FinishType, GotoType DEF DropActive, At, Plain
  <2>2. RedisTypeOK'
    BY <1>19 DEF DropActive, RedisTypeOK
  <2>3. QED
    BY <1>19, <2>1, <2>2, PartsStay DEF DropActive, docVars, redisVars, bounds
<1>20. CASE CancelUnpaid(t)
  <2>1. TaskTypeOK'
    BY <1>20, GotoType DEF CancelUnpaid, At, Plain
  <2>2. DocTypeOK'
    BY <1>20 DEF CancelUnpaid, SetStatus, DocTypeOK
  <2>3. QED
    BY <1>20, <2>1, <2>2, PartsStay DEF CancelUnpaid, docVars, redisVars, bounds
<1>21. CASE DeleteUnpaid(t)
  <2>1. TaskTypeOK'
    BY <1>21, FinishType DEF DeleteUnpaid
  <2>2. DocTypeOK'
    BY <1>21 DEF DeleteUnpaid, DocTypeOK
  <2>3. QED
    BY <1>21, <2>1, <2>2, PartsStay DEF DeleteUnpaid, docVars, redisVars, bounds
<1>22. CASE CustomerCancel(t)
  <2>1. TaskTypeOK'
    BY <1>22, FinishType DEF CustomerCancel
  <2>2. DocTypeOK'
    BY <1>22 DEF CustomerCancel, SetStatus, DocTypeOK
  <2>3. QED
    BY <1>22, <2>1, <2>2, PartsStay DEF CustomerCancel, docVars, redisVars, bounds
<1>23. QED
  BY <1>1, <1>2, <1>3, <1>4, <1>5, <1>6, <1>7, <1>8, <1>9, <1>10, <1>11, <1>12, <1>13, <1>14, <1>15, <1>16, <1>17, <1>18, <1>19, <1>20, <1>21, <1>22 DEF Step

-----------------------------------------------------------------------------
(* So does every event, request and fault. *)

LEMMA ArriveType ==
    ASSUME TypeOK, NEW t \in Tasks, Arrive(t)
    PROVE  TypeOK'
<1> USE DEF TypeOK
<1> PICK d \in Deliveries :
        \/ CustomerRequests(t, d) \/ PaymentCompletes(t, d) \/ StartCustomerCancel(t, d)
        \/ StartRetry(t, d) \/ StartTimeout(t, d)
        \/ \E r \in Riders : ReceiveRejected(t, r, d) \/ ReceiveAccepted(t, r, d)
  BY DEF Arrive
<1>1. CASE CustomerRequests(t, d)
  <2>1. TaskTypeOK'
    BY <1>1, StartType DEF CustomerRequests, Plain
  <2>2. DocTypeOK'
    BY <1>1 DEF CustomerRequests, DocTypeOK
  <2>3. QED
    BY <1>1, <2>1, <2>2, PartsStay DEF CustomerRequests, redisVars, bounds
<1>2. CASE PaymentCompletes(t, d)
  <2>1. TaskTypeOK'
    BY <1>2, StartType DEF PaymentCompletes, Plain
  <2>2. DocTypeOK'
    BY <1>2 DEF PaymentCompletes, DocTypeOK
  <2>3. QED
    BY <1>2, <2>1, <2>2, PartsStay DEF PaymentCompletes, redisVars, bounds
<1>3. CASE StartCustomerCancel(t, d)
  <2>1. TaskTypeOK'
    BY <1>3, StartType DEF StartCustomerCancel, Plain
  <2>2. QED
    BY <1>3, <2>1, PartsStay DEF StartCustomerCancel, docVars, redisVars, bounds
<1>4. CASE StartRetry(t, d)
  <2>1. TaskTypeOK'
    BY <1>4, StartType DEF StartRetry, Plain
  <2>2. QED
    BY <1>4, <2>1, PartsStay DEF StartRetry, docVars, redisVars, bounds
<1>5. CASE StartTimeout(t, d)
  <2>1. TaskTypeOK'
    BY <1>5, StartType DEF StartTimeout, Plain
  <2>2. QED
    BY <1>5, <2>1, PartsStay DEF StartTimeout, docVars, redisVars, bounds
<1>6. ASSUME NEW r \in Riders, ReceiveRejected(t, r, d) PROVE TypeOK'
  <2>1. TaskTypeOK'
    <3> DEFINE k == [task[t] EXCEPT !.at = "setCooldown", !.del = d, !.rider = r]
    <3>1. k \in TaskState /\ TaskOK(k)
      <4>1. task[t] \in TaskState
        BY DEF TaskTypeOK
      <4>2. k \in TaskState
        BY <4>1 DEF TaskState
      <4>3. k.at = "setCooldown" /\ k.del = d /\ k.rider = r
        BY <4>1 DEF TaskState
      <4>4. d # NoDelivery
        BY ConstantsAssumption
      <4> QED
        BY <4>2, <4>3, <4>4 DEF TaskOK
    <3>2. task' = [task EXCEPT ![t] = k]
      BY <1>6 DEF ReceiveRejected, TaskTypeOK
    <3>3. QED
      BY <3>1, <3>2, TaskMoves
  <2>2. MessageTypeOK'
    BY <1>6 DEF ReceiveRejected, MessageTypeOK
  <2>3. QED
    BY <1>6, <2>1, <2>2, PartsStay DEF ReceiveRejected, docVars, redisVars, bounds
<1>7. ASSUME NEW r \in Riders, ReceiveAccepted(t, r, d) PROVE TypeOK'
  <2>1. TaskTypeOK'
    BY <1>7, StartType DEF ReceiveAccepted, Plain
  <2>2. MessageTypeOK'
    BY <1>7 DEF ReceiveAccepted, MessageTypeOK
  <2>3. QED
    BY <1>7, <2>1, <2>2, PartsStay DEF ReceiveAccepted, docVars, redisVars, bounds
<1>8. QED
  BY <1>1, <1>2, <1>3, <1>4, <1>5, <1>6, <1>7

LEMMA RequestStarts ==
    ASSUME RequestTypeOK, NEW q \in Requests, NEW r \in Riders, NEW d \in Deliveries,
           NEW l \in RequestLabels, StartRequest(q, r, d, l)
    PROVE  RequestTypeOK'
  BY DEF RequestTypeOK, RequestState, RequestOK, StartRequest

LEMMA RequestEnds ==
    ASSUME RequestTypeOK, NEW q \in Requests, EndRequest(q)
    PROVE  RequestTypeOK'
  BY DEF RequestTypeOK, RequestState, RequestOK, EndRequest, IdleRequest

LEMMA RequestArrivesType ==
    ASSUME TypeOK, NEW q \in Requests, RequestArrives(q)
    PROVE  TypeOK'
<1> USE DEF TypeOK
<1> PICK r \in Riders, d \in Deliveries :
        StartAccept(q, r, d) \/ StartReject(q, r, d) \/ StartGiveUp(q, r, d) \/ StartAssign(q, r, d)
  BY DEF RequestArrives
<1>1. ASSUME NEW l \in RequestLabels, Reading(q, r, d, l) PROVE TypeOK'
  <2>1. RequestTypeOK'
    BY <1>1, RequestStarts DEF Reading
  <2>2. QED
    BY <1>1, <2>1, PartsStay DEF Reading, docVars, redisVars, bounds
<1>2. CASE StartGiveUp(q, r, d)
  <2>1. RequestTypeOK'
    BY <1>2, RequestStarts DEF StartGiveUp
  <2>2. BoundsOK'
    BY <1>2, ConstantsAssumption DEF StartGiveUp, BoundsOK
  <2>3. QED
    BY <1>2, <2>1, <2>2, PartsStay DEF StartGiveUp, docVars, redisVars
<1>3. QED
  BY <1>1, <1>2 DEF StartAccept, StartReject, StartAssign

LEMMA SaveType ==
    ASSUME TypeOK, NEW q \in Requests, req[q].at # "idle",
           NEW s \in Status \union {Absent}, NEW rider \in Riders \union {NoRider},
           NEW l \in RequestLabels, Save(q, s, rider, l)
    PROVE  TypeOK'
<1> USE DEF TypeOK
<1> DEFINE d == req[q].del
<1>1. req[q] \in RequestState /\ d \in Deliveries /\ req[q].rider \in Riders
  BY DEF RequestTypeOK, RequestOK
<1>2. CASE EndRequest(q) /\ UNCHANGED <<dStatus, dRider>>
  BY <1>2, RequestEnds, PartsStay DEF Save, docVars, redisVars, bounds
<1>3. CASE ~(EndRequest(q) /\ UNCHANGED <<dStatus, dRider>>)
  <2>1. /\ dStatus' = [dStatus EXCEPT ![d] = s]
        /\ dRider' = [dRider EXCEPT ![d] = rider]
        /\ EndRequest(q) \/ req' = [req EXCEPT ![q].at = l]
        /\ UNCHANGED <<requested, dPaid>>
    BY <1>3 DEF Save
  <2>2. DocTypeOK'
    BY <1>1, <2>1 DEF DocTypeOK
  <2>3. RequestTypeOK'
    <3>1. CASE EndRequest(q)
      BY <3>1, RequestEnds
    <3>2. CASE req' = [req EXCEPT ![q].at = l]
      BY <1>1, <3>2 DEF RequestTypeOK, RequestState, RequestOK
    <3>3. QED
      BY <2>1, <3>1, <3>2
  <2>4. QED
    BY <2>2, <2>3, PartsStay DEF Save, redisVars, bounds
<1>4. QED
  BY <1>2, <1>3

LEMMA RequestStepType ==
    ASSUME TypeOK, NEW q \in Requests, RequestStep(q)
    PROVE  TypeOK'
<1> USE DEF TypeOK
<1>0. req[q].at # "idle" => req[q].del \in Deliveries /\ req[q].rider \in Riders
  BY DEF RequestTypeOK, RequestOK
<1>1. CASE AcceptSave(q)
  BY <1>0, <1>1, SaveType DEF AcceptSave
<1>2. CASE AssignSave(q)
  BY <1>0, <1>2, SaveType DEF AssignSave
<1>3. CASE GiveUpSave(q)
  <2>1. dStatus[req[q].del] \in Status \union {Absent}
    BY <1>0, <1>3 DEF GiveUpSave, DocTypeOK
  <2>2. QED
    BY <1>3, <2>1, SaveType DEF GiveUpSave
<1>4. ASSUME NEW type \in {"rider_accepted", "rider_rejected"}, req[q].at # "idle", Publish(q, type)
      PROVE TypeOK'
  <2>1. RequestTypeOK'
    BY <1>4, RequestEnds DEF Publish
  <2>2. MessageTypeOK'
    BY <1>0, <1>4 DEF Publish, MessageTypeOK
  <2>3. QED
    BY <1>4, <2>1, <2>2, PartsStay DEF Publish, docVars, redisVars, bounds
<1>5. CASE AcceptPublish(q) \/ RejectPublish(q)
  BY <1>4, <1>5 DEF AcceptPublish, RejectPublish
<1>6. QED
  BY <1>1, <1>2, <1>3, <1>5 DEF RequestStep

LEMMA EnvironmentType ==
    ASSUME TypeOK, Environment
    PROVE  TypeOK'
<1> USE DEF TypeOK
<1>1. ASSUME NEW d \in Deliveries, SixteenSeconds(d) PROVE TypeOK'
  <2> DEFINE h == [hash[d] EXCEPT !.due = TRUE]
  <2>1. hash[d] # NoHash
    BY <1>1 DEF SixteenSeconds, IsActive
  <2>2. hash[d] \in HashState /\ HashOK(hash[d])
    BY <2>1 DEF RedisTypeOK
  <2>3. h \in HashState /\ h.queue = hash[d].queue /\ h.index = hash[d].index
    BY <2>2 DEF HashState
  <2>4. HashOK(h)
    BY <2>2, <2>3 DEF HashOK, QueueOK
  <2>5. hash' = [hash EXCEPT ![d] = h]
    BY <1>1 DEF SixteenSeconds, RedisTypeOK
  <2>6. RedisTypeOK'
    BY <1>1, <2>3, <2>4, <2>5 DEF SixteenSeconds, RedisTypeOK
  <2>7. QED
    BY <1>1, <2>6, PartsStay DEF SixteenSeconds, docVars, bounds
<1>2. ASSUME NEW d \in Deliveries, HashExpires(d) PROVE TypeOK'
  <2>1. RedisTypeOK'
    BY <1>2 DEF HashExpires, RedisTypeOK
  <2>2. QED
    BY <1>2, <2>1, PartsStay DEF HashExpires, docVars, bounds
<1>3. ASSUME NEW r \in Riders, NEW d \in Deliveries, CooldownEnds(r, d) PROVE TypeOK'
  <2>1. RedisTypeOK'
    BY <1>3 DEF CooldownEnds, RedisTypeOK
  <2>2. QED
    BY <1>3, <2>1, PartsStay DEF CooldownEnds, docVars, bounds
<1>4. CASE EventLost
  <2>1. MessageTypeOK'
    BY <1>4 DEF EventLost, MessageTypeOK
  <2>2. QED
    BY <1>4, <2>1, PartsStay DEF EventLost, docVars, redisVars, bounds
<1>5. ASSUME NEW t \in Tasks, TaskFails(t) PROVE TypeOK'
  <2>1. TaskTypeOK'
    BY <1>5, FinishType DEF TaskFails
  <2>2. BoundsOK'
    BY <1>5, ConstantsAssumption DEF TaskFails, BoundsOK
  <2>3. QED
    BY <1>5, <2>1, <2>2, PartsStay DEF TaskFails, docVars, redisVars
<1>6. CASE Crash
  <2>1. TaskTypeOK'
    BY <1>6 DEF Crash, TaskTypeOK, TaskState, IdleTask, TaskOK
  <2>2. MessageTypeOK' /\ BoundsOK'
    BY <1>6, ConstantsAssumption DEF Crash, MessageTypeOK, BoundsOK
  <2>3. QED
    BY <1>6, <2>1, <2>2, PartsStay DEF Crash, docVars, redisVars
<1>7. QED
  BY <1>1, <1>2, <1>3, <1>4, <1>5, <1>6 DEF Environment

LEMMA TypeNext == TypeOK /\ [Next]_vars => TypeOK'
<1> SUFFICES ASSUME TypeOK, [Next]_vars PROVE TypeOK'
  OBVIOUS
<1>1. CASE UNCHANGED vars
  BY <1>1, PartsStay DEF vars, TypeOK, docVars, redisVars, bounds
<1>2. CASE Next
  BY <1>2, StepType, ArriveType, RequestStepType, RequestArrivesType, EnvironmentType DEF Next
<1>3. QED
  BY <1>1, <1>2

(* The queue is never indexed outside its bounds, and every variable of    *)
(* the matching service and of those who answer it has its type: two       *)
(* handlers may advance one queue, and a new queue replace it, between a   *)
(* read and a write.                                                       *)
THEOREM MatchingTypeCorrect == Spec => []TypeOK
<1>1. Init => TypeOK
  BY TypeInit
<1>2. TypeOK /\ [Next]_vars => TypeOK'
  BY TypeNext
<1>3. QED
  BY <1>1, <1>2, PTL DEF Spec

-----------------------------------------------------------------------------
(* A proof that an unpaid delivery which waits for a rider is always       *)
(* somebody's business: SearchHasOwner.                                    *)

(* Nothing failed and nobody gave a delivery back.  What follows is about  *)
(* such behaviours only.                                                   *)
Quiet == faults = 0 /\ giveBacks = 0

(* The delivery may still be searched for without having been paid.  Once  *)
(* it is paid, taken or deleted it is never open again.                    *)
Open(d) == dStatus[d] # Absent /\ ~dPaid[d] /\ dRider[d] = NoRider

(* Where a task has read whether its delivery is paid. *)
Knowing == (Starting \ {"readDelivery"}) \union Ending \union {"advance", "moveOn", "askNext"}

(* Nothing has ever been done about a delivery nobody asked for. *)
Fresh(d) ==
    /\ dStatus[d] = Absent
    /\ d \notin active
    /\ \A r \in Riders : <<r, d>> \notin asked
    /\ \A r \in Riders : <<"rider_accepted", r, d>> \notin events /\ <<"rider_rejected", r, d>> \notin events
    /\ \A t \in Tasks : task[t].del # d
    /\ \A q \in Requests : req[q].del # d

(* No task takes an open delivery for a paid one. *)
TakenAsUnpaid(d) ==
    \A t \in Tasks : task[t].del = d =>
        /\ task[t].at \notin {"readPaid", "setSearching", "checkHash"}
        /\ task[t].at \in Knowing => ~task[t].keep

(* An open delivery has been accepted by nobody. *)
NotAccepted(d) ==
    /\ \A r \in Riders : <<"rider_accepted", r, d>> \notin events
    /\ \A q \in Requests : req[q].del = d => req[q].at # "acceptPublish"

(* Until the first rider is asked, the search is alone: there is no rider  *)
(* to answer and nothing for the poll to find.                             *)
Alone(t, d) ==
    /\ d \notin active
    /\ \A r \in Riders : <<r, d>> \notin asked /\ <<"rider_rejected", r, d>> \notin events
    /\ \A u \in Tasks \ {t} : task[u].del = d => task[u].at = "customerCancel"
    /\ \A q \in Requests : req[q].del = d => req[q].at = "assignSave"
    /\ task[t].at \in {"expireHash", "initActive"} => IsActive(d)

StartsAlone(d) == \A t \in Tasks : Works(t, d, Starting) => Alone(t, d)

Owned(d) ==
    \/ d \in active /\ IsActive(d)
    \/ \E t \in Tasks : Works(t, d, Starting \union Ending)

Searched(d) ==
    /\ TakenAsUnpaid(d)
    /\ NotAccepted(d)
    /\ StartsAlone(d)
    /\ dStatus[d] = "searching_rider" => Owned(d)

SearchOK(d) ==
    /\ d \notin requested => Fresh(d)
    /\ Quiet /\ Open(d) => Searched(d)

GivenBack == \A q \in Requests : req[q].at = "giveUpSave" => giveBacks > 0

SearchInv == TypeOK /\ GivenBack /\ \A d \in Deliveries : SearchOK(d)

-----------------------------------------------------------------------------
(* A step that does not concern a delivery leaves what is said of it. *)

Unconcerned(e) ==
    /\ e \in requested' <=> e \in requested
    /\ dStatus'[e] = dStatus[e] /\ dPaid'[e] = dPaid[e] /\ dRider'[e] = dRider[e]
    /\ IsActive(e)' <=> IsActive(e)
    /\ e \in active' <=> e \in active
    /\ \A r \in Riders :
          /\ <<r, e>> \in asked' => <<r, e>> \in asked
          /\ <<"rider_accepted", r, e>> \in events' => <<"rider_accepted", r, e>> \in events
          /\ <<"rider_rejected", r, e>> \in events' => <<"rider_rejected", r, e>> \in events
    /\ \A t \in Tasks : task[t].del = e \/ task'[t].del = e => task'[t] = task[t]
    /\ \A q \in Requests : req'[q].del = e => req'[q] = req[q]
    /\ Quiet' => Quiet

LEMMA Elsewhere ==
    ASSUME NEW e \in Deliveries, SearchOK(e), Unconcerned(e)
    PROVE  SearchOK(e)'
<1>1. IsActive(e)' <=> IsActive(e)
  BY DEF Unconcerned
<1>2. e \notin requested' => Fresh(e)'
  BY DEF Unconcerned, SearchOK, Fresh
<1>3. ASSUME Quiet', Open(e)' PROVE Searched(e)'
  <2>1. Searched(e)
    BY <1>3 DEF Unconcerned, SearchOK, Open
  <2>2. TakenAsUnpaid(e)'
    BY <2>1 DEF Unconcerned, Searched, TakenAsUnpaid
  <2>3. NotAccepted(e)'
    BY <2>1 DEF Unconcerned, Searched, NotAccepted
  <2>4. StartsAlone(e)'
    <3> SUFFICES ASSUME NEW t \in Tasks, Works(t, e, Starting)' PROVE Alone(t, e)'
      BY DEF StartsAlone
    <3>1. task'[t] = task[t]
      BY DEF Works, Unconcerned
    <3>2. Alone(t, e)
      BY <2>1, <3>1 DEF Searched, StartsAlone, Works
    <3>3. QED
      BY <1>1, <3>1, <3>2 DEF Alone, Unconcerned
  <2>5. (dStatus[e] = "searching_rider" => Owned(e))'
    BY <1>1, <2>1 DEF Unconcerned, Searched, Owned, Works
  <2>6. QED
    BY <2>2, <2>3, <2>4, <2>5 DEF Searched
<1>4. QED
  BY <1>2, <1>3 DEF SearchOK

-----------------------------------------------------------------------------
(* What a task's step does to the tasks. *)

OthersStay(t) == \A u \in Tasks \ {t} : task'[u] = task[u]

LEMMA Finishes ==
    ASSUME TypeOK, NEW t \in Tasks, Finish(t)
    PROVE  OthersStay(t) /\ task'[t].del = NoDelivery /\ task'[t].at = "idle"
  BY DEF TypeOK, TaskTypeOK, Finish, OthersStay, IdleTask

LEMMA Goes ==
    ASSUME TypeOK, NEW t \in Tasks, NEW l, Goto(t, l)
    PROVE  /\ OthersStay(t)
           /\ task'[t].at = l /\ task'[t].del = task[t].del /\ task'[t].keep = task[t].keep
<1>1. task[t] \in TaskState
  BY DEF TypeOK, TaskTypeOK
<1>2. task' = [task EXCEPT ![t] = [task[t] EXCEPT !.at = l]]
  BY DEF Goto
<1>3. QED
  BY <1>1, <1>2 DEF TypeOK, TaskTypeOK, TaskState, OthersStay

LEMMA Begins ==
    ASSUME TypeOK, NEW t \in Tasks, NEW d \in Deliveries, NEW l, Start(t, d, l)
    PROVE  /\ OthersStay(t) /\ task[t].at = "idle" /\ task[t].del = NoDelivery
           /\ task'[t].at = l /\ task'[t].del = d
<1>1. task[t] \in TaskState /\ TaskOK(task[t])
  BY DEF TypeOK, TaskTypeOK
<1>2. task' = [task EXCEPT ![t] = [task[t] EXCEPT !.at = l, !.del = d]] /\ task[t].at = "idle"
  BY DEF Start, At
<1>3. QED
  BY <1>1, <1>2 DEF TypeOK, TaskTypeOK, TaskState, TaskOK, OthersStay

LEMMA Continues ==
    ASSUME TypeOK, NEW t \in Tasks, NEW queue, NEW l, Continue(t, queue, l)
    PROVE  /\ OthersStay(t)
           /\ \/ task[t].keep /\ task'[t].del = NoDelivery /\ task'[t].at = "idle"
              \/ /\ task'[t].at \in {"dropHash", l}
                 /\ task'[t].del = task[t].del /\ task'[t].keep = task[t].keep
<1>1. CASE queue = <<>> /\ task[t].keep
  BY <1>1, Finishes DEF Continue
<1>2. CASE ~(queue = <<>> /\ task[t].keep)
  <2> DEFINE k == [task[t] EXCEPT !.at = IF queue = <<>> THEN "dropHash" ELSE l, !.queue = queue]
  <2>1. task[t] \in TaskState
    BY DEF TypeOK, TaskTypeOK
  <2>2. task' = [task EXCEPT ![t] = k]
    BY <1>2 DEF Continue
  <2>3. k.at \in {"dropHash", l} /\ k.del = task[t].del /\ k.keep = task[t].keep
    BY <2>1 DEF TaskState
  <2>4. QED
    BY <2>2, <2>3 DEF TypeOK, TaskTypeOK, OthersStay
<1>3. QED
  BY <1>1, <1>2

(* Every step of a task moves that task only, and keeps it about its       *)
(* delivery or makes it idle.                                              *)
LEMMA StepMoves ==
    ASSUME TypeOK, NEW t \in Tasks, Step(t)
    PROVE  OthersStay(t) /\ task'[t].del \in {task[t].del, NoDelivery}
<1>0. task[t] \in TaskState
  BY DEF TypeOK, TaskTypeOK
<1>1. CASE \/ ReadPaid(t) \/ SetSearching(t) \/ CheckHash(t) \/ InitHash(t) \/ ExpireHash(t)
           \/ CheckDue(t) \/ Exhaust(t) \/ ExhaustActive(t) \/ MoveOn(t) \/ DropHash(t)
           \/ DropActive(t) \/ CancelUnpaid(t) \/ InitActive(t) \/ AskNext(t)
           \/ DeleteUnpaid(t) \/ CustomerCancel(t)
  BY <1>1, Finishes, Goes DEF ReadPaid, SetSearching, CheckHash, InitHash, ExpireHash, CheckDue,
       Exhaust, ExhaustActive, MoveOn, DropHash, DropActive, CancelUnpaid, InitActive, AskNext,
       DeleteUnpaid, CustomerCancel
<1>2. CASE FindRiders(t) \/ FilterQueue(t)
  BY <1>2, Continues, Goes DEF FindRiders, FilterQueue
<1>3. CASE ReadDelivery(t) \/ ReadToAdvance(t)
  <2>1. CASE Finish(t)
    BY <2>1, Finishes
  <2>2. CASE ~Finish(t)
    <3> DEFINE b == dPaid[task[t].del]
    <3>1. \/ task' = [task EXCEPT ![t] = [task[t] EXCEPT !.at = "findRiders", !.keep = b]]
          \/ task' = [task EXCEPT ![t] = [task[t] EXCEPT !.at = "advance", !.keep = b]]
      BY <1>3, <2>2 DEF ReadDelivery, ReadToAdvance
    <3>2. \A l : [task[t] EXCEPT !.at = l, !.keep = b].del = task[t].del
      BY <1>0 DEF TaskState
    <3>3. DOMAIN task = Tasks
      BY DEF TypeOK, TaskTypeOK
    <3>4. \E k : k.del = task[t].del /\ task' = [task EXCEPT ![t] = k]
      BY <3>1, <3>2
    <3>5. QED
      BY <3>3, <3>4 DEF OthersStay
  <2>3. QED
    BY <2>1, <2>2
<1>4. CASE SetCooldown(t)
  <2>1. task' = [task EXCEPT ![t] = [task[t] EXCEPT !.at = "readToAdvance", !.rider = NoRider]]
    BY <1>4 DEF SetCooldown
  <2>2. QED
    BY <1>0, <2>1 DEF TypeOK, TaskTypeOK, TaskState, OthersStay
<1>5. CASE Advance(t)
  <2> DEFINE h == hash[task[t].del]
  <2>1. \/ Goto(t, "dropHash") \/ Goto(t, "exhaust")
        \/ task' = [task EXCEPT ![t] = [task[t] EXCEPT !.at = "moveOn", !.queue = h.queue, !.index = h.index + 1]]
    BY <1>5 DEF Advance
  <2>2. CASE task' = [task EXCEPT ![t] = [task[t] EXCEPT !.at = "moveOn", !.queue = h.queue, !.index = h.index + 1]]
    BY <1>0, <2>2 DEF TypeOK, TaskTypeOK, TaskState, OthersStay
  <2>3. QED
    BY <2>1, <2>2, Goes
<1>6. QED
  BY <1>1, <1>2, <1>3, <1>4, <1>5 DEF Step

(* What the steps of a task leave alone. *)
LEMMA StepFrame ==
    ASSUME NEW t \in Tasks, Step(t)
    PROVE  /\ UNCHANGED <<requested, events, req, bounds>>
           /\ ~(SetSearching(t) \/ CancelUnpaid(t) \/ DeleteUnpaid(t) \/ CustomerCancel(t))
                 => UNCHANGED docVars
           /\ ~(InitHash(t) \/ ExpireHash(t) \/ Exhaust(t) \/ MoveOn(t) \/ DropHash(t))
                 => UNCHANGED hash
           /\ ~(InitActive(t) \/ ExhaustActive(t) \/ DropActive(t)) => UNCHANGED active
           /\ ~(InitActive(t) \/ AskNext(t)) => UNCHANGED asked
  BY DEF Step, docVars, redisVars, ReadPaid, SetSearching, CheckHash, ReadDelivery, FindRiders, FilterQueue, InitHash, ExpireHash, InitActive, SetCooldown, CheckDue, ReadToAdvance, Advance, Exhaust, ExhaustActive, MoveOn, AskNext, DropHash, DropActive, CancelUnpaid, DeleteUnpaid, CustomerCancel

(* A step concerns no delivery but that task's. *)
LEMMA StepElsewhere ==
    ASSUME TypeOK, NEW t \in Tasks, Step(t), NEW e \in Deliveries, e # task[t].del
    PROVE  Unconcerned(e)
<1>0. e # NoDelivery
  BY ConstantsAssumption
<1>1. \A u \in Tasks : task[u].del = e \/ task'[u].del = e => task'[u] = task[u]
  BY <1>0, StepMoves DEF OthersStay
<1>2. UNCHANGED <<requested, events, req, bounds>>
  BY StepFrame
<1>3. dStatus'[e] = dStatus[e] /\ dPaid'[e] = dPaid[e] /\ dRider'[e] = dRider[e]
  <2>1. CASE SetSearching(t) \/ CancelUnpaid(t) \/ DeleteUnpaid(t) \/ CustomerCancel(t)
    BY <2>1 DEF TypeOK, DocTypeOK, SetSearching, CancelUnpaid, DeleteUnpaid, CustomerCancel, SetStatus
  <2>2. CASE ~(SetSearching(t) \/ CancelUnpaid(t) \/ DeleteUnpaid(t) \/ CustomerCancel(t))
    BY <2>2, StepFrame DEF docVars
  <2>3. QED
    BY <2>1, <2>2
<1>4. hash'[e] = hash[e]
  <2>1. CASE InitHash(t) \/ ExpireHash(t) \/ Exhaust(t) \/ MoveOn(t) \/ DropHash(t)
    BY <2>1 DEF TypeOK, RedisTypeOK, InitHash, ExpireHash, Exhaust, MoveOn, DropHash, SetHash
  <2>2. CASE ~(InitHash(t) \/ ExpireHash(t) \/ Exhaust(t) \/ MoveOn(t) \/ DropHash(t))
    BY <2>2, StepFrame
  <2>3. QED
    BY <2>1, <2>2
<1>5. e \in active' <=> e \in active
  <2>1. CASE InitActive(t) \/ ExhaustActive(t) \/ DropActive(t)
    BY <2>1 DEF InitActive, ExhaustActive, DropActive
  <2>2. CASE ~(InitActive(t) \/ ExhaustActive(t) \/ DropActive(t))
    BY <2>2, StepFrame
  <2>3. QED
    BY <2>1, <2>2
<1>6. \A r \in Riders : <<r, e>> \in asked' => <<r, e>> \in asked
  <2>1. CASE InitActive(t) \/ AskNext(t)
    BY <2>1 DEF InitActive, AskNext
  <2>2. CASE ~(InitActive(t) \/ AskNext(t))
    BY <2>2, StepFrame
  <2>3. QED
    BY <2>1, <2>2
<1>7. QED
  BY <1>1, <1>2, <1>3, <1>4, <1>5, <1>6 DEF Unconcerned, bounds, Quiet, IsActive

-----------------------------------------------------------------------------
(* What a task's step does to its own delivery. *)

LEMMA StepKeepsOpen ==
    ASSUME SearchInv, NEW t \in Tasks, Step(t), NEW d \in Deliveries, d = task[t].del
    PROVE  /\ d \in requested'
           /\ Quiet' /\ Open(d)' => Open(d) /\ Searched(d)
<1>1. d \in requested
  BY DEF SearchInv, SearchOK, Fresh
<1>2. UNCHANGED <<requested, bounds>>
  BY StepFrame
<1>3. Open(d)' => Open(d)
  <2>1. CASE SetSearching(t) \/ CancelUnpaid(t) \/ CustomerCancel(t)
    BY <2>1 DEF SearchInv, TypeOK, DocTypeOK, SetSearching, CancelUnpaid, CustomerCancel, SetStatus, Open
  <2>2. CASE DeleteUnpaid(t)
    BY <2>2 DEF SearchInv, TypeOK, DocTypeOK, DeleteUnpaid, Open
  <2>3. CASE ~(SetSearching(t) \/ CancelUnpaid(t) \/ DeleteUnpaid(t) \/ CustomerCancel(t))
    <3>1. UNCHANGED docVars
      BY <2>3, StepFrame
    <3>2. QED
      BY <3>1 DEF Open, docVars
  <2>4. QED
    BY <2>1, <2>2, <2>3
<1>4. Quiet' => Quiet
  BY <1>2 DEF Quiet, bounds
<1>5. QED
  BY <1>1, <1>2, <1>3, <1>4 DEF SearchInv, SearchOK

(* A step of a task that makes no search start leaves Searched true, if    *)
(* the delivery keeps an owner.                                            *)
LEMMA NoStart ==
    ASSUME TypeOK, NEW t \in Tasks, NEW d \in Deliveries, task[t].del = d, Searched(d),
           task[t].at # "customerCancel", OthersStay(t), UNCHANGED <<events, req>>,
           task'[t].del = d =>
               /\ task'[t].at \notin Starting \union {"readPaid", "setSearching", "checkHash"}
               /\ task'[t].at \in Knowing => ~task'[t].keep,
           (dStatus[d] = "searching_rider" => Owned(d))'
    PROVE  Searched(d)'
<1>1. TakenAsUnpaid(d)'
  BY DEF Searched, TakenAsUnpaid, OthersStay
<1>2. NotAccepted(d)'
  BY DEF Searched, NotAccepted
<1>3. StartsAlone(d)'
  <2> SUFFICES ASSUME NEW u \in Tasks, Works(u, d, Starting)' PROVE FALSE
    BY DEF StartsAlone
  <2>1. u # t /\ Works(u, d, Starting)
    BY DEF Works, OthersStay
  <2>2. Alone(u, d)
    BY <2>1 DEF Searched, StartsAlone
  <2>3. QED
    BY <2>1, <2>2 DEF Alone
<1>4. QED
  BY <1>1, <1>2, <1>3 DEF Searched

(* A search that goes on starting is still alone. *)
LEMMA StillStarting ==
    ASSUME TypeOK, NEW t \in Tasks, NEW d \in Deliveries, task[t].del = d, Searched(d),
           task[t].at \in Starting, OthersStay(t), UNCHANGED <<active, asked, events, req>>,
           task'[t].del = d, task'[t].at \in Starting \ {"readDelivery"}, ~task'[t].keep,
           task'[t].at \in {"expireHash", "initActive"} => IsActive(d)'
    PROVE  Searched(d)'
<1>1. TakenAsUnpaid(d)'
  BY DEF Searched, TakenAsUnpaid, OthersStay, Starting
<1>2. NotAccepted(d)'
  BY DEF Searched, NotAccepted
<1>3. Alone(t, d)
  BY DEF Searched, StartsAlone, Works
<1>4. Alone(t, d)'
  BY <1>3 DEF Alone, OthersStay
<1>5. \A u \in Tasks \ {t} : ~Works(u, d, Starting)'
  BY <1>3 DEF Alone, OthersStay, Works, Starting
<1>6. StartsAlone(d)'
  BY <1>4, <1>5 DEF StartsAlone
<1>7. Owned(d)'
  BY DEF Owned, Works
<1>8. QED
  BY <1>1, <1>2, <1>6, <1>7 DEF Searched

(* Who owned the delivery still does, unless it was the task that moved.   *)
LEMMA OwnerStays ==
    ASSUME NEW t \in Tasks, NEW d \in Deliveries, OthersStay(t), Owned(d),
           task[t].del = d => task[t].at \notin Starting \union Ending,
           d \in active => d \in active',
           IsActive(d) => IsActive(d)'
    PROVE  Owned(d)'
  BY DEF Owned, Works, OthersStay

(* Writing other fields of a matching state keeps its status. *)
LEMMA StatusKept ==
    ASSUME TypeOK, NEW d \in Deliveries, IsActive(d),
           \/ SetHash(d, [hash[d] EXCEPT !.expires = TRUE])
           \/ \E i \in Nat : SetHash(d, [hash[d] EXCEPT !.index = i, !.due = FALSE])
    PROVE  IsActive(d)'
<1>1. hash[d] \in HashState /\ hash[d] # NoHash /\ hash[d].status = "active"
  BY DEF IsActive, TypeOK, RedisTypeOK
<1>2. PICK h \in HashState : h.status = "active" /\ hash'[d] = h
  <2>1. CASE SetHash(d, [hash[d] EXCEPT !.expires = TRUE])
    <3> DEFINE h == [hash[d] EXCEPT !.expires = TRUE]
    <3>1. h \in HashState /\ h.status = "active"
      BY <1>1 DEF HashState
    <3>2. hash'[d] = h
      BY <1>1, <2>1 DEF SetHash, TypeOK, RedisTypeOK
    <3>3. QED
      BY <3>1, <3>2
  <2>2. ASSUME NEW i \in Nat, SetHash(d, [hash[d] EXCEPT !.index = i, !.due = FALSE])
        PROVE \E h \in HashState : h.status = "active" /\ hash'[d] = h
    <3> DEFINE h == [hash[d] EXCEPT !.index = i, !.due = FALSE]
    <3>1. h \in HashState /\ h.status = "active"
      BY <1>1 DEF HashState
    <3>2. hash'[d] = h
      BY <1>1, <2>2 DEF SetHash, TypeOK, RedisTypeOK
    <3>3. QED
      BY <3>1, <3>2
  <2>3. QED
    BY <2>1, <2>2
<1>3. QED
  BY <1>2, ConstantsAssumption DEF IsActive

(* A task that advances a queue starts no search, and knows what it read.  *)
LEMMA AdvancingTasks ==
    ASSUME TypeOK, NEW t \in Tasks, NEW d \in Deliveries, task[t].del = d, Open(d),
           task[t].at \in Knowing => ~task[t].keep,
           \/ SetCooldown(t) \/ CheckDue(t) \/ ReadToAdvance(t) \/ AskNext(t) \/ Advance(t)
    PROVE  task'[t].del = d =>
               /\ task'[t].at \notin Starting \union {"readPaid", "setSearching", "checkHash"}
               /\ task'[t].at \in Knowing => ~task'[t].keep
<1>0. task[t] \in TaskState /\ d # NoDelivery /\ task \in [Tasks -> TaskState]
  BY ConstantsAssumption DEF TypeOK, TaskTypeOK
<1>1. CASE SetCooldown(t)
  <2> DEFINE k == [task[t] EXCEPT !.at = "readToAdvance", !.rider = NoRider]
  <2>1. task'[t] = k
    BY <1>0, <1>1 DEF SetCooldown
  <2>2. k.at = "readToAdvance"
    BY <1>0 DEF TaskState
  <2>3. QED
    BY <2>1, <2>2 DEF Starting, Ending, Knowing
<1>2. CASE CheckDue(t) \/ AskNext(t)
  BY <1>0, <1>2, Finishes, Goes DEF CheckDue, AskNext, Starting, Ending, Knowing
<1>3. CASE ReadToAdvance(t)
  <2> DEFINE k == [task[t] EXCEPT !.at = "advance", !.keep = dPaid[d]]
  <2>1. task'[t] = k
    BY <1>0, <1>3 DEF ReadToAdvance, Open
  <2>2. k.at = "advance" /\ ~k.keep
    BY <1>0 DEF TaskState, Open
  <2>3. QED
    BY <2>1, <2>2 DEF Starting, Ending
<1>4. CASE Advance(t)
  <2>1. ~task[t].keep
    BY <1>4 DEF Advance, At, Knowing
  <2>2. CASE Goto(t, "dropHash") \/ Goto(t, "exhaust")
    BY <2>1, <2>2, Goes DEF Starting
  <2>3. CASE ~(Goto(t, "dropHash") \/ Goto(t, "exhaust"))
    <3> DEFINE k == [task[t] EXCEPT !.at = "moveOn", !.queue = hash[d].queue, !.index = hash[d].index + 1]
    <3>1. task'[t] = k
      BY <1>0, <1>4, <2>3 DEF Advance
    <3>2. k.at = "moveOn" /\ k.keep = task[t].keep
      BY <1>0 DEF TaskState
    <3>3. QED
      BY <2>1, <3>1, <3>2 DEF Starting
  <2>4. QED
    BY <2>2, <2>3
<1>5. QED
  BY <1>1, <1>2, <1>3, <1>4

LEMMA StepHasDelivery ==
    ASSUME TypeOK, NEW t \in Tasks, Step(t)
    PROVE  task[t].del \in Deliveries
  BY DEF TypeOK, TaskTypeOK, TaskState, TaskOK, Step, At,
         ReadPaid, SetSearching, CheckHash, ReadDelivery, FindRiders, FilterQueue, InitHash, ExpireHash, InitActive, SetCooldown, CheckDue, ReadToAdvance, Advance, Exhaust, ExhaustActive, MoveOn, AskNext, DropHash, DropActive, CancelUnpaid, DeleteUnpaid, CustomerCancel

LEMMA StepSearched ==
    ASSUME SearchInv, NEW t \in Tasks, Step(t), NEW d \in Deliveries, task[t].del = d,
           Quiet', Open(d)'
    PROVE  Searched(d)'
<1>a. TypeOK /\ d # NoDelivery /\ Open(d) /\ Searched(d)
  BY StepKeepsOpen, ConstantsAssumption DEF SearchInv
<1>b. /\ UNCHANGED <<events, req>> /\ OthersStay(t)
      /\ task[t].at \notin {"readPaid", "setSearching", "checkHash"}
      /\ task[t].at \in Knowing => ~task[t].keep
      /\ dStatus[d] = "searching_rider" => Owned(d)
  BY <1>a, StepFrame, StepMoves DEF Searched, TakenAsUnpaid
<1>c. task[t].at \in Starting => Alone(t, d)
  BY <1>a DEF Searched, StartsAlone, Works
<1>d. hash \in [Deliveries -> HashState \union {NoHash}]
  BY <1>a DEF TypeOK, RedisTypeOK
<1>e. dStatus \in [Deliveries -> Status \union {Absent}]
  BY <1>a DEF TypeOK, DocTypeOK
<1>1. CASE ReadPaid(t) \/ SetSearching(t) \/ CheckHash(t)
  BY <1>b, <1>1 DEF ReadPaid, SetSearching, CheckHash, At
<1>2. CASE ReadDelivery(t)
  <2> DEFINE k == [task[t] EXCEPT !.at = "findRiders", !.keep = dPaid[d]]
  <2>1. task' = [task EXCEPT ![t] = k]
    BY <1>a, <1>2 DEF ReadDelivery, Open
  <2>2. k.at = "findRiders" /\ k.del = d /\ ~k.keep
    BY <1>a DEF Open, TypeOK, TaskTypeOK, TaskState
  <2>3. task'[t] = k
    BY <1>a, <2>1 DEF TypeOK, TaskTypeOK
  <2>4. QED
    BY <1>a, <1>b, <1>2, <2>2, <2>3, StillStarting DEF ReadDelivery, At, Starting, redisVars
<1>3. CASE FindRiders(t) \/ FilterQueue(t)
  <2>1. task[t].at \in {"findRiders", "filterQueue"} /\ ~task[t].keep
    BY <1>b, <1>3 DEF FindRiders, FilterQueue, At, Knowing, Starting
  <2>2. /\ task'[t].at \in {"dropHash", "filterQueue", "initHash"}
        /\ task'[t].del = d /\ ~task'[t].keep
    BY <1>a, <1>3, <2>1, Continues, Goes DEF FindRiders, FilterQueue
  <2>3. UNCHANGED <<active, asked>>
    BY <1>3 DEF FindRiders, FilterQueue, redisVars
  <2>4. CASE task'[t].at = "dropHash"
    <3>1. Owned(d)'
      BY <2>2, <2>4 DEF Owned, Works, Ending
    <3>2. QED
      BY <1>a, <1>b, <2>1, <2>2, <2>4, <3>1, NoStart DEF Starting
  <2>5. CASE task'[t].at # "dropHash"
    BY <1>a, <1>b, <2>1, <2>2, <2>3, <2>5, StillStarting DEF Starting
  <2>6. QED
    BY <2>4, <2>5
<1>4. CASE InitHash(t)
  <2>1. task[t].at = "initHash" /\ ~task[t].keep /\ UNCHANGED <<active, asked>>
    BY <1>b, <1>4 DEF InitHash, At, Knowing, Starting
  <2>2. task'[t].at = "expireHash" /\ task'[t].del = d /\ ~task'[t].keep
    BY <1>a, <1>4, <2>1, Goes DEF InitHash
  <2>3. IsActive(d)'
    <3>1. hash'[d].status = "active"
      BY <1>d, <1>4 DEF InitHash
    <3>3. hash'[d] # NoHash
      <4> DEFINE h == [queue |-> task[t].queue, index |-> 1, status |-> "active", due |-> FALSE,
                       expires |-> IF hash[d] = NoHash THEN FALSE ELSE hash[d].expires]
      <4>2. task[t].queue \in Seq(Riders)
        BY <1>a DEF TypeOK, TaskTypeOK, TaskState
      <4>3. h.expires \in BOOLEAN
        BY <1>d DEF HashState
      <4>4. h \in HashState
        BY <4>2, <4>3 DEF HashState
      <4>5. hash'[d] = h
        BY <1>d, <1>4 DEF InitHash
      <4>6. QED
        BY <4>4, <4>5, ConstantsAssumption
    <3>4. QED
      BY <3>1, <3>3 DEF IsActive
  <2>4. QED
    BY <1>a, <1>b, <2>1, <2>2, <2>3, StillStarting DEF Starting
<1>5. CASE ExpireHash(t)
  <2>1. task[t].at = "expireHash" /\ ~task[t].keep /\ UNCHANGED <<active, asked>>
    BY <1>b, <1>5 DEF ExpireHash, At, Knowing, Starting
  <2>2. task'[t].at = "initActive" /\ task'[t].del = d /\ ~task'[t].keep
    BY <1>a, <1>5, <2>1, Goes DEF ExpireHash
  <2>3. IsActive(d)'
    BY <1>a, <1>c, <1>d, <1>5, <2>1, StatusKept DEF ExpireHash, Alone, Starting
  <2>4. QED
    BY <1>a, <1>b, <2>1, <2>2, <2>3, StillStarting DEF Starting
<1>6. CASE InitActive(t)
  <2>1. task[t].at = "initActive" /\ IsActive(d)
    BY <1>c, <1>6 DEF InitActive, At, Starting, Alone
  <2>2. task'[t].del = NoDelivery
    BY <1>a, <1>6, Finishes DEF InitActive
  <2>3. d \in active' /\ IsActive(d)'
    BY <1>6, <2>1 DEF InitActive, IsActive
  <2>4. QED
    BY <1>a, <1>b, <2>1, <2>2, <2>3, NoStart DEF Owned
<1>7. CASE SetCooldown(t) \/ CheckDue(t) \/ ReadToAdvance(t) \/ AskNext(t) \/ Advance(t)
  <2>1. /\ task[t].at \in {"setCooldown", "checkDue", "readToAdvance", "askNext", "advance"}
        /\ UNCHANGED <<hash, active>> /\ UNCHANGED docVars
    BY <1>7 DEF SetCooldown, CheckDue, ReadToAdvance, AskNext, Advance, At, redisVars
  <2>2. task'[t].del = d =>
            /\ task'[t].at \notin Starting \union {"readPaid", "setSearching", "checkHash"}
            /\ task'[t].at \in Knowing => ~task'[t].keep
    BY <1>a, <1>b, <1>7, AdvancingTasks
  <2>3. (dStatus[d] = "searching_rider" => Owned(d))'
    BY <1>b, <2>1, OwnerStays DEF docVars, Starting, Ending, IsActive
  <2>4. QED
    BY <1>a, <1>b, <2>1, <2>2, <2>3, NoStart
<1>8. CASE MoveOn(t)
  <2>1. task[t].at = "moveOn" /\ ~task[t].keep /\ UNCHANGED active /\ UNCHANGED docVars
    BY <1>b, <1>8 DEF MoveOn, At, Knowing
  <2>2. task'[t].at = "askNext" /\ task'[t].del = d /\ ~task'[t].keep
    BY <1>a, <1>8, <2>1, Goes DEF MoveOn
  <2>3. IsActive(d) => IsActive(d)'
    <3>1. task[t].index \in Nat
      BY <1>a DEF TypeOK, TaskTypeOK, TaskState
    <3>2. QED
      BY <1>a, <1>8, <3>1, StatusKept DEF MoveOn
  <2>4. (dStatus[d] = "searching_rider" => Owned(d))'
    BY <1>b, <2>1, <2>3, OwnerStays DEF docVars, Starting, Ending
  <2>5. QED
    BY <1>a, <1>b, <2>1, <2>2, <2>4, NoStart DEF Starting
<1>9. CASE \/ Exhaust(t) \/ ExhaustActive(t) \/ DropHash(t) \/ DropActive(t) \/ CancelUnpaid(t)
  <2>1. task[t].at \in Ending /\ task[t].at # "customerCancel" /\ ~task[t].keep
    BY <1>b, <1>9 DEF Exhaust, ExhaustActive, DropHash, DropActive, CancelUnpaid, At, Knowing, Ending
  <2>2. task'[t].at \in Ending /\ task'[t].del = d /\ ~task'[t].keep
    BY <1>a, <1>9, <2>1, Goes
       DEF Exhaust, ExhaustActive, DropHash, DropActive, CancelUnpaid, Ending
  <2>3. Owned(d)'
    BY <2>2 DEF Owned, Works
  <2>4. QED
    BY <1>a, <1>b, <2>1, <2>2, <2>3, NoStart DEF Starting, Ending
<1>10. CASE DeleteUnpaid(t)
  BY <1>a, <1>e, <1>10 DEF DeleteUnpaid, Open
<1>11. CASE CustomerCancel(t)
  <2>0. dStatus'[d] # "searching_rider"
    <3>1. SetStatus(d, "cancelled") /\ dStatus[d] # Absent
      BY <1>a, <1>11 DEF CustomerCancel, Open
    <3>2. dStatus'[d] = "cancelled"
      BY <1>e, <3>1 DEF SetStatus
    <3>3. QED
      BY <3>2
  <2>1. task[t].at = "customerCancel" /\ UNCHANGED <<hash, active, asked>>
    BY <1>11 DEF CustomerCancel, At, redisVars
  <2>2. task'[t].del = NoDelivery
    BY <1>a, <1>11, Finishes DEF CustomerCancel
  <2>3. TakenAsUnpaid(d)' /\ NotAccepted(d)'
    BY <1>a, <1>b, <2>2 DEF Searched, TakenAsUnpaid, NotAccepted, OthersStay
  <2>4. StartsAlone(d)'
    <3> SUFFICES ASSUME NEW u \in Tasks, Works(u, d, Starting)' PROVE Alone(u, d)'
      BY DEF StartsAlone
    <3>1. u # t /\ task'[u] = task[u] /\ Alone(u, d)
      BY <1>a, <1>b, <2>2 DEF Works, OthersStay, Searched, StartsAlone
    <3>2. IsActive(d) <=> IsActive(d)'
      BY <2>1 DEF IsActive
    <3>3. QED
      BY <1>a, <1>b, <2>1, <2>2, <3>1, <3>2 DEF Alone, OthersStay
  <2>5. QED
    BY <2>0, <2>3, <2>4 DEF Searched
<1>12. QED
  BY <1>1, <1>2, <1>3, <1>4, <1>5, <1>6, <1>7, <1>8, <1>9, <1>10, <1>11 DEF Step

LEMMA StepSearch ==
    ASSUME SearchInv, NEW t \in Tasks, Step(t)
    PROVE  \A e \in Deliveries : SearchOK(e)'
<1> SUFFICES ASSUME NEW e \in Deliveries PROVE SearchOK(e)'
  OBVIOUS
<1>1. CASE e = task[t].del
  BY <1>1, StepKeepsOpen, StepSearched DEF SearchOK
<1>2. CASE e # task[t].del
  BY <1>2, StepElsewhere, Elsewhere DEF SearchInv
<1>3. QED
  BY <1>1, <1>2

-----------------------------------------------------------------------------
(* Events that start a task. *)

LEMMA RequestedBefore ==
    ASSUME NEW d \in Deliveries, SearchOK(d), ~Fresh(d), d \in requested => d \in requested',
           Quiet' /\ Open(d)' => Quiet /\ Open(d) /\ (Searched(d) => Searched(d)')
    PROVE  SearchOK(d)'
  BY DEF SearchOK

(* A new task that starts no search, when no search is starting. *)
LEMMA NewTask ==
    ASSUME NEW t \in Tasks, NEW d \in Deliveries, Searched(d),
           OthersStay(t), task[t].del = NoDelivery, task'[t].del = d,
           task'[t].at \in {"customerCancel", "setCooldown", "checkDue"},
           task'[t].at # "customerCancel" => \A u \in Tasks : ~Works(u, d, Starting),
           UNCHANGED <<docVars, redisVars, asked, req>>, events' \subseteq events
    PROVE  Searched(d)'
<1>0. d # NoDelivery
  BY ConstantsAssumption
<1>1. TakenAsUnpaid(d)'
  BY DEF Searched, TakenAsUnpaid, OthersStay, Knowing, Starting, Ending
<1>2. NotAccepted(d)'
  BY DEF Searched, NotAccepted
<1>3. IsActive(d)' <=> IsActive(d)
  BY DEF IsActive, redisVars
<1>4. StartsAlone(d)'
  <2> SUFFICES ASSUME NEW u \in Tasks, Works(u, d, Starting)' PROVE Alone(u, d)'
    BY DEF StartsAlone
  <2>1. u # t /\ Works(u, d, Starting)
    BY DEF Works, OthersStay, Starting
  <2>2. Alone(u, d) /\ task'[t].at = "customerCancel"
    BY <2>1 DEF Searched, StartsAlone
  <2>3. QED
    BY <1>3, <2>1, <2>2 DEF Alone, OthersStay, redisVars
<1>5. (dStatus[d] = "searching_rider" => Owned(d))'
  BY <1>0, <1>3, OwnerStays DEF Searched, docVars, redisVars
<1>6. QED
  BY <1>1, <1>2, <1>4, <1>5 DEF Searched

LEMMA ArriveSearch ==
    ASSUME SearchInv, NEW t \in Tasks, Arrive(t)
    PROVE  \A e \in Deliveries : SearchOK(e)'
<1>0. TypeOK /\ \A e \in Deliveries : SearchOK(e) /\ e # NoDelivery
  BY ConstantsAssumption DEF SearchInv
<1> PICK d \in Deliveries :
        \/ CustomerRequests(t, d) \/ PaymentCompletes(t, d) \/ StartCustomerCancel(t, d)
        \/ StartRetry(t, d) \/ StartTimeout(t, d)
        \/ \E r \in Riders : ReceiveRejected(t, r, d) \/ ReceiveAccepted(t, r, d)
  BY DEF Arrive
<1>1. OthersStay(t) /\ task[t].del = NoDelivery /\ task'[t].del = d
  <2>1. ASSUME NEW r \in Riders, ReceiveRejected(t, r, d)
        PROVE OthersStay(t) /\ task[t].del = NoDelivery /\ task'[t].del = d
    <3>1. task' = [task EXCEPT ![t] = [task[t] EXCEPT !.at = "setCooldown", !.del = d, !.rider = r]]
      BY <2>1 DEF ReceiveRejected
    <3>2. task \in [Tasks -> TaskState] /\ TaskOK(task[t]) /\ task[t].at = "idle"
      BY <1>0, <2>1 DEF TypeOK, TaskTypeOK, ReceiveRejected, At
    <3>3. QED
      BY <3>1, <3>2 DEF TaskState, TaskOK, OthersStay
  <2>2. QED
    BY <1>0, <2>1, Begins
       DEF CustomerRequests, PaymentCompletes, StartCustomerCancel, StartRetry, StartTimeout, ReceiveAccepted
<1>2. ASSUME NEW e \in Deliveries, e # d PROVE SearchOK(e)'
  <2>1. \A u \in Tasks : task[u].del = e \/ task'[u].del = e => task'[u] = task[u]
    BY <1>0, <1>1, <1>2 DEF OthersStay
  <2>2. /\ e \in requested' <=> e \in requested
        /\ dStatus'[e] = dStatus[e] /\ dPaid'[e] = dPaid[e] /\ dRider'[e] = dRider[e]
    BY <1>0, <1>2 DEF TypeOK, DocTypeOK, docVars, CustomerRequests, PaymentCompletes,
         StartCustomerCancel, StartRetry, StartTimeout, ReceiveRejected, ReceiveAccepted
  <2>3. UNCHANGED <<redisVars, asked, req, bounds>> /\ events' \subseteq events
    BY DEF CustomerRequests, PaymentCompletes, StartCustomerCancel, StartRetry, StartTimeout,
         ReceiveRejected, ReceiveAccepted
  <2>4. Unconcerned(e)
    BY <2>1, <2>2, <2>3 DEF Unconcerned, redisVars, bounds, Quiet, IsActive
  <2>5. QED
    BY <1>0, <2>4, Elsewhere
<1>3. CASE CustomerRequests(t, d)
  <2>1. Fresh(d)
    BY <1>0, <1>3 DEF CustomerRequests, SearchOK
  <2>2. task'[t].at = "readDelivery"
    BY <1>0, <1>3, Begins DEF CustomerRequests
  <2>3. \A u \in Tasks : task'[u].del = d => u = t
    BY <1>1, <2>1 DEF OthersStay, Fresh
  <2>4. UNCHANGED <<active, asked, events, req>>
    BY <1>3 DEF CustomerRequests, redisVars
  <2>5. TakenAsUnpaid(d)' /\ NotAccepted(d)'
    BY <2>1, <2>2, <2>3, <2>4 DEF TakenAsUnpaid, NotAccepted, Fresh, Knowing, Starting, Ending
  <2>6. StartsAlone(d)'
    BY <2>1, <2>2, <2>3, <2>4 DEF StartsAlone, Alone, Works, Fresh
  <2>7. Owned(d)'
    BY <1>1, <2>2 DEF Owned, Works, Starting
  <2>8. SearchOK(d)'
    BY <1>3, <2>5, <2>6, <2>7 DEF SearchOK, Searched, CustomerRequests
  <2>9. QED
    BY <1>2, <2>8
<1>4. CASE PaymentCompletes(t, d)
  <2>1. d \in requested' /\ ~Open(d)'
    BY <1>0, <1>4 DEF PaymentCompletes, TypeOK, DocTypeOK, Open
  <2>2. QED
    BY <1>2, <2>1 DEF SearchOK
<1>5. CASE StartRetry(t, d)
  <2>1. d \in requested
    BY <1>0, <1>5 DEF StartRetry, SearchOK, Fresh, Absent
  <2>2. SearchOK(d)'
    BY <1>5, <2>1 DEF SearchOK, StartRetry, docVars, Open
  <2>3. QED
    BY <1>2, <2>2
<1>6. ASSUME StartCustomerCancel(t, d) \/ StartTimeout(t, d)
             \/ \E r \in Riders : ReceiveRejected(t, r, d) \/ ReceiveAccepted(t, r, d)
      PROVE  SearchOK(d)'
  <2>1. UNCHANGED <<docVars, redisVars, asked, req, bounds>> /\ events' \subseteq events
    BY <1>6 DEF StartCustomerCancel, StartTimeout, ReceiveRejected, ReceiveAccepted
  <2>2. ~Fresh(d)
    BY <1>6 DEF StartCustomerCancel, StartTimeout, ReceiveRejected, ReceiveAccepted, Fresh, Absent, Status
  <2>3. Quiet' /\ Open(d)' => Quiet /\ Open(d)
    BY <2>1 DEF Quiet, Open, docVars, bounds
  <2>4. ASSUME Searched(d) PROVE Searched(d)'
    <3>1. CASE StartCustomerCancel(t, d)
      <4>1. task'[t].at = "customerCancel"
        BY <1>0, <3>1, Begins DEF StartCustomerCancel
      <4>2. QED
        BY <1>1, <2>1, <2>4, <4>1, NewTask
    <3>2. CASE StartTimeout(t, d)
      <4>1. task'[t].at = "checkDue" /\ d \in active
        BY <1>0, <3>2, Begins DEF StartTimeout
      <4>2. \A u \in Tasks : ~Works(u, d, Starting)
        BY <2>4, <4>1 DEF Searched, StartsAlone, Alone
      <4>3. QED
        BY <1>1, <2>1, <2>4, <4>1, <4>2, NewTask
    <3>3. ASSUME NEW r \in Riders, ReceiveRejected(t, r, d) PROVE Searched(d)'
      <4>1. task' = [task EXCEPT ![t] = [task[t] EXCEPT !.at = "setCooldown", !.del = d, !.rider = r]]
        BY <3>3 DEF ReceiveRejected
      <4>2. task'[t].at = "setCooldown"
        BY <1>0, <4>1 DEF TypeOK, TaskTypeOK, TaskState
      <4>3. \A u \in Tasks : ~Works(u, d, Starting)
        BY <2>4, <3>3 DEF Searched, StartsAlone, Alone, ReceiveRejected
      <4>4. QED
        BY <1>1, <2>1, <2>4, <4>2, <4>3, NewTask
    <3>4. ASSUME NEW r \in Riders, ReceiveAccepted(t, r, d) PROVE Searched(d)'
      BY <2>4, <3>4 DEF ReceiveAccepted, Searched, NotAccepted
    <3>5. QED
      BY <1>6, <3>1, <3>2, <3>3, <3>4
  <2>5. QED
    BY <1>0, <2>1, <2>2, <2>3, <2>4, RequestedBefore DEF docVars
<1>7. QED
  BY <1>2, <1>3, <1>4, <1>5, <1>6

-----------------------------------------------------------------------------
(* Requests of riders and admins. *)

LEMMA RequestStarted ==
    ASSUME TypeOK, NEW q \in Requests, NEW r, NEW d, NEW l, StartRequest(q, r, d, l)
    PROVE  /\ req'[q].at = l /\ req'[q].del = d
           /\ \A p \in Requests \ {q} : req'[p] = req[p]
<1> DEFINE k == [at |-> l, del |-> d, rider |-> r, sawSearching |-> dStatus[d] = "searching_rider"]
<1>1. req' = [req EXCEPT ![q] = k]
  BY DEF StartRequest
<1>2. k.at = l /\ k.del = d
  OBVIOUS
<1> HIDE DEF k
<1>3. req'[q] = k /\ \A p \in Requests \ {q} : req'[p] = req[p]
  BY <1>1 DEF TypeOK, RequestTypeOK
<1>4. QED
  BY <1>2, <1>3

LEMMA RequestEnded ==
    ASSUME TypeOK, NEW q \in Requests, EndRequest(q)
    PROVE  /\ req'[q].at = "idle" /\ req'[q].del = NoDelivery
           /\ \A p \in Requests \ {q} : req'[p] = req[p]
<1>1. IdleRequest.at = "idle" /\ IdleRequest.del = NoDelivery
  BY DEF IdleRequest
<1>2. req'[q] = IdleRequest /\ \A p \in Requests \ {q} : req'[p] = req[p]
  BY DEF TypeOK, RequestTypeOK, EndRequest
<1>3. QED
  BY <1>1, <1>2

LEMMA ReadingSearch ==
    ASSUME SearchInv, NEW q \in Requests, NEW r \in Riders, NEW d \in Deliveries,
           NEW l \in {"acceptSave", "rejectPublish", "assignSave"}, Reading(q, r, d, l),
           dStatus[d] # Absent, l # "assignSave" => <<r, d>> \in asked
    PROVE  \A e \in Deliveries : SearchOK(e)'
<1>0. TypeOK /\ \A e \in Deliveries : SearchOK(e) /\ e # NoDelivery
  BY ConstantsAssumption DEF SearchInv
<1>1. /\ req'[q].at = l /\ req'[q].del = d
      /\ \A p \in Requests \ {q} : req'[p] = req[p]
  BY <1>0, RequestStarted DEF Reading
<1>2. UNCHANGED <<docVars, redisVars, asked, events, task, bounds>>
  BY DEF Reading
<1>3. \A e \in Deliveries : IsActive(e)' <=> IsActive(e)
  BY <1>2 DEF IsActive, redisVars
<1>4. ASSUME NEW e \in Deliveries, e # d PROVE SearchOK(e)'
  <2>1. Unconcerned(e)
    BY <1>1, <1>2, <1>3, <1>4 DEF Unconcerned, docVars, redisVars, bounds, Quiet
  <2>2. QED
    BY <1>0, <2>1, Elsewhere
<1>5. SearchOK(d)'
  <2>1. ~Fresh(d)
    BY DEF Fresh
  <2>2. Quiet' /\ Open(d)' => Quiet /\ Open(d)
    BY <1>2 DEF Quiet, Open, docVars, bounds
  <2>3. ASSUME Searched(d) PROVE Searched(d)'
    <3>1. TakenAsUnpaid(d)'
      BY <1>2, <2>3 DEF Searched, TakenAsUnpaid
    <3>2. NotAccepted(d)'
      BY <1>1, <1>2, <2>3 DEF Searched, NotAccepted
    <3>3. (dStatus[d] = "searching_rider" => Owned(d))'
      BY <1>2, <1>3, <2>3 DEF Searched, Owned, Works, docVars, redisVars
    <3>4. StartsAlone(d)'
      <4> SUFFICES ASSUME NEW u \in Tasks, Works(u, d, Starting)' PROVE Alone(u, d)'
        BY DEF StartsAlone
      <4>1. Alone(u, d)
        BY <1>2, <2>3 DEF Works, Searched, StartsAlone
      <4>2. l = "assignSave"
        BY <4>1 DEF Alone
      <4>3. QED
        BY <1>1, <1>2, <1>3, <4>1, <4>2 DEF Alone, redisVars
    <3>5. QED
      BY <3>1, <3>2, <3>3, <3>4 DEF Searched
  <2>4. QED
    BY <1>0, <1>2, <2>1, <2>2, <2>3, RequestedBefore DEF docVars
<1>6. QED
  BY <1>4, <1>5

(* No delivery is open that its request has just taken or given back. *)
LEMMA RequestArrivesSearch ==
    ASSUME SearchInv, NEW q \in Requests, RequestArrives(q)
    PROVE  GivenBack' /\ \A e \in Deliveries : SearchOK(e)'
<1>0. TypeOK /\ GivenBack /\ \A e \in Deliveries : SearchOK(e) /\ e # NoDelivery
  BY ConstantsAssumption DEF SearchInv
<1> PICK r \in Riders, d \in Deliveries :
        StartAccept(q, r, d) \/ StartReject(q, r, d) \/ StartGiveUp(q, r, d) \/ StartAssign(q, r, d)
  BY DEF RequestArrives
<1>1. CASE StartAccept(q, r, d) \/ StartReject(q, r, d) \/ StartAssign(q, r, d)
  <2>1. PICK l \in {"acceptSave", "rejectPublish", "assignSave"} :
           /\ Reading(q, r, d, l) /\ dStatus[d] # Absent
           /\ l # "assignSave" => <<r, d>> \in asked
    BY <1>1 DEF StartAccept, StartReject, StartAssign, OpenToRiders, AssignableByAdmin, Absent
  <2>2. GivenBack'
    BY <1>0, <2>1, RequestStarted DEF GivenBack, Reading, bounds
  <2>3. QED
    BY <2>1, <2>2, ReadingSearch
<1>2. CASE StartGiveUp(q, r, d)
  <2>1. /\ req'[q].at = "giveUpSave" /\ req'[q].del = d
        /\ \A p \in Requests \ {q} : req'[p] = req[p]
    BY <1>0, <1>2, RequestStarted DEF StartGiveUp
  <2>2. giveBacks' > 0
    BY <1>0, <1>2, ConstantsAssumption DEF StartGiveUp, TypeOK, BoundsOK
  <2>3. UNCHANGED <<docVars, redisVars, asked, events, task>> /\ dStatus[d] # Absent
    BY <1>2 DEF StartGiveUp
  <2>4. ASSUME NEW e \in Deliveries PROVE SearchOK(e)'
    BY <1>0, <2>1, <2>2, <2>3 DEF SearchOK, Fresh, Quiet, docVars, redisVars
  <2>5. QED
    BY <2>2, <2>4 DEF GivenBack
<1>3. QED
  BY <1>1, <1>2

LEMMA SaveSearch ==
    ASSUME SearchInv, NEW q \in Requests, req[q].at # "idle",
           NEW s \in Status \union {Absent}, NEW rider \in Riders \union {NoRider},
           NEW l \in {"idle", "acceptPublish"}, Save(q, s, rider, l),
           rider = NoRider => ~Quiet
    PROVE  GivenBack' /\ \A e \in Deliveries : SearchOK(e)'
<1>0. TypeOK /\ GivenBack /\ \A e \in Deliveries : SearchOK(e) /\ e # NoDelivery
  BY ConstantsAssumption DEF SearchInv
<1>1. PICK d \in Deliveries : d = req[q].del
  BY <1>0 DEF TypeOK, RequestTypeOK, RequestOK
<1>2. req[q] \in RequestState /\ d \in requested
  BY <1>0, <1>1 DEF TypeOK, RequestTypeOK, SearchOK, Fresh
<1>3. /\ \A p \in Requests \ {q} : req'[p] = req[p]
      /\ req'[q].del \in {d, NoDelivery} /\ req'[q].at \in {"idle", "acceptPublish"}
  <2>1. CASE EndRequest(q)
    BY <1>0, <2>1, RequestEnded
  <2>2. CASE req' = [req EXCEPT ![q].at = l]
    BY <1>0, <1>1, <1>2, <2>2 DEF TypeOK, RequestTypeOK, RequestState
  <2>3. QED
    BY <2>1, <2>2 DEF Save
<1>4. /\ UNCHANGED <<requested, dPaid, redisVars, asked, events, task, bounds>>
      /\ \A e \in Deliveries \ {d} : dStatus'[e] = dStatus[e] /\ dRider'[e] = dRider[e]
      /\ Open(d)' => ~Quiet
  <2>1. CASE dStatus[d] = Absent
    BY <1>1, <2>1 DEF Save, Open
  <2>2. CASE dStatus[d] # Absent
    <3>1. /\ dStatus' = [dStatus EXCEPT ![d] = s] /\ dRider' = [dRider EXCEPT ![d] = rider]
          /\ UNCHANGED <<requested, dPaid, redisVars, asked, events, task, bounds>>
      BY <1>1, <2>2 DEF Save
    <3>2. dRider'[d] = rider
      BY <1>0, <3>1 DEF TypeOK, DocTypeOK
    <3>3. QED
      BY <1>0, <3>1, <3>2 DEF TypeOK, DocTypeOK, Open
  <2>3. QED
    BY <2>1, <2>2
<1>5. ASSUME NEW e \in Deliveries PROVE SearchOK(e)'
  <2>1. CASE e = d
    BY <1>2, <1>4, <2>1 DEF SearchOK, Quiet, bounds
  <2>2. CASE e # d
    <3>1. Unconcerned(e)
      BY <1>0, <1>3, <1>4, <2>2 DEF Unconcerned, redisVars, bounds, Quiet, IsActive
    <3>2. QED
      BY <1>0, <3>1, Elsewhere
  <2>3. QED
    BY <2>1, <2>2
<1>6. GivenBack'
  BY <1>0, <1>3, <1>4 DEF GivenBack, bounds
<1>7. QED
  BY <1>5, <1>6

LEMMA PublishSearch ==
    ASSUME SearchInv, NEW q \in Requests, AcceptPublish(q) \/ RejectPublish(q)
    PROVE  GivenBack' /\ \A e \in Deliveries : SearchOK(e)'
<1>0. TypeOK /\ GivenBack /\ \A e \in Deliveries : SearchOK(e) /\ e # NoDelivery
  BY ConstantsAssumption DEF SearchInv
<1>1. PICK d \in Deliveries : d = req[q].del
  BY <1>0 DEF TypeOK, RequestTypeOK, RequestOK, AcceptPublish, RejectPublish
<1>2. /\ req'[q].del = NoDelivery /\ req'[q].at = "idle"
      /\ \A p \in Requests \ {q} : req'[p] = req[p]
  BY <1>0, RequestEnded DEF AcceptPublish, RejectPublish, Publish
<1>3. UNCHANGED <<docVars, redisVars, asked, task, bounds>>
  BY DEF AcceptPublish, RejectPublish, Publish
<1>4. \E type \in {"rider_accepted", "rider_rejected"} :
          events' = events \union {<<type, req[q].rider, d>>}
  BY <1>1 DEF AcceptPublish, RejectPublish, Publish
<1>5. \A e \in Deliveries : IsActive(e)' <=> IsActive(e)
  BY <1>3 DEF IsActive, redisVars
<1>6. ASSUME NEW e \in Deliveries, e # d PROVE SearchOK(e)'
  <2>1. Unconcerned(e)
    BY <1>0, <1>2, <1>3, <1>4, <1>5, <1>6 DEF Unconcerned, docVars, redisVars, bounds, Quiet
  <2>2. QED
    BY <1>0, <2>1, Elsewhere
<1>7. SearchOK(d)'
  <2>1. ~Fresh(d)
    BY <1>1 DEF Fresh
  <2>2. Quiet' /\ Open(d)' => Quiet /\ Open(d)
    BY <1>3 DEF Quiet, Open, docVars, bounds
  <2>3. ASSUME Searched(d) PROVE Searched(d)'
    <3>1. TakenAsUnpaid(d)'
      BY <1>3, <2>3 DEF Searched, TakenAsUnpaid
    <3>2. RejectPublish(q)
      BY <1>1, <2>3 DEF Searched, NotAccepted, AcceptPublish
    <3>3. events' = events \union {<<"rider_rejected", req[q].rider, d>>}
      BY <1>1, <3>2 DEF RejectPublish, Publish
    <3>4. NotAccepted(d)'
      BY <1>0, <1>2, <2>3, <3>3 DEF Searched, NotAccepted
    <3>5. (dStatus[d] = "searching_rider" => Owned(d))'
      BY <1>3, <1>5, <2>3 DEF Searched, Owned, Works, docVars, redisVars
    <3>6. StartsAlone(d)'
      <4> SUFFICES ASSUME NEW u \in Tasks, Works(u, d, Starting)' PROVE FALSE
        BY DEF StartsAlone
      <4>1. Alone(u, d)
        BY <1>3, <2>3 DEF Works, Searched, StartsAlone
      <4>2. QED
        BY <1>1, <3>2, <4>1 DEF Alone, RejectPublish
    <3>7. QED
      BY <3>1, <3>4, <3>5, <3>6 DEF Searched
  <2>4. QED
    BY <1>0, <1>3, <2>1, <2>2, <2>3, RequestedBefore DEF docVars
<1>8. GivenBack'
  BY <1>0, <1>2, <1>3 DEF GivenBack, bounds
<1>9. QED
  BY <1>6, <1>7, <1>8

LEMMA RequestStepSearch ==
    ASSUME SearchInv, NEW q \in Requests, RequestStep(q)
    PROVE  GivenBack' /\ \A e \in Deliveries : SearchOK(e)'
<1>0. TypeOK /\ GivenBack
  BY DEF SearchInv
<1>1. req[q].at # "idle" => req[q].rider \in Riders /\ req[q].del \in Deliveries
  BY <1>0 DEF TypeOK, RequestTypeOK, RequestOK
<1>2. CASE AcceptSave(q) \/ AssignSave(q)
  <2>1. req[q].rider # NoRider /\ req[q].rider \in Riders /\ req[q].at # "idle"
    BY <1>1, <1>2, ConstantsAssumption DEF AcceptSave, AssignSave
  <2>2. QED
    BY <1>2, <2>1, SaveSearch DEF AcceptSave, AssignSave, Status
<1>3. CASE GiveUpSave(q)
  <2>1. ~Quiet /\ req[q].at # "idle"
    BY <1>0, <1>3 DEF GivenBack, GiveUpSave, Quiet
  <2>2. dStatus[req[q].del] \in Status \union {Absent} /\ "searching_rider" \in Status
    BY <1>0, <1>1, <2>1 DEF TypeOK, DocTypeOK, Status
  <2>3. QED
    BY <1>3, <2>1, <2>2, SaveSearch DEF GiveUpSave
<1>4. CASE AcceptPublish(q) \/ RejectPublish(q)
  BY <1>4, PublishSearch
<1>5. QED
  BY <1>2, <1>3, <1>4 DEF RequestStep

-----------------------------------------------------------------------------
(* Time and faults. *)

LEMMA EnvironmentSearch ==
    ASSUME SearchInv, Environment
    PROVE  \A e \in Deliveries : SearchOK(e)'
<1>0. TypeOK /\ \A e \in Deliveries : SearchOK(e) /\ e # NoDelivery
  BY ConstantsAssumption DEF SearchInv
<1> SUFFICES ASSUME NEW e \in Deliveries PROVE SearchOK(e)'
  OBVIOUS
<1>1. ASSUME UNCHANGED <<docVars, active, asked, task, req, bounds>>, events' \subseteq events,
             IsActive(e)' <=> IsActive(e)
      PROVE  SearchOK(e)'
  <2>1. Unconcerned(e)
    BY <1>1 DEF Unconcerned, docVars, bounds, Quiet
  <2>2. QED
    BY <1>0, <2>1, Elsewhere
<1>2. ASSUME NEW d \in Deliveries, SixteenSeconds(d) PROVE SearchOK(e)'
  <2>1. CASE e = d
    <3> DEFINE h == [hash[e] EXCEPT !.due = TRUE]
    <3>1. hash[e] \in HashState /\ IsActive(e)
      BY <1>0, <1>2, <2>1 DEF SixteenSeconds, IsActive, TypeOK, RedisTypeOK
    <3>2. h \in HashState /\ h.status = hash[e].status
      BY <3>1 DEF HashState
    <3>3. hash'[e] = h
      BY <1>0, <1>2, <2>1 DEF SixteenSeconds, TypeOK, RedisTypeOK
    <3>4. IsActive(e)'
      BY <3>1, <3>2, <3>3, ConstantsAssumption DEF IsActive
    <3>5. QED
      BY <1>1, <1>2, <3>1, <3>4 DEF SixteenSeconds
  <2>2. CASE e # d
    <3>1. hash'[e] = hash[e]
      BY <1>0, <1>2, <2>2 DEF SixteenSeconds, TypeOK, RedisTypeOK
    <3>2. QED
      BY <1>1, <1>2, <3>1 DEF SixteenSeconds, IsActive
  <2>3. QED
    BY <2>1, <2>2
<1>3. ASSUME NEW d \in Deliveries, HashExpires(d) PROVE SearchOK(e)'
  <2>1. hash' = [hash EXCEPT ![d] = NoHash] /\ UNCHANGED <<docVars, active, asked, events, task, req, bounds>>
    BY <1>3 DEF HashExpires
  <2>2. CASE e # d
    <3>1. hash'[e] = hash[e]
      BY <1>0, <2>1, <2>2 DEF TypeOK, RedisTypeOK
    <3>2. QED
      BY <1>1, <2>1, <3>1 DEF IsActive
  <2>3. CASE e = d /\ ~IsActive(e)
    <3>1. ~IsActive(e)'
      BY <1>0, <2>1, <2>3 DEF IsActive, TypeOK, RedisTypeOK
    <3>2. QED
      BY <1>1, <2>1, <2>3, <3>1
  <2>4. CASE e = d /\ IsActive(e)
    <3>1. e \notin requested' => Fresh(e)'
      BY <1>0, <2>1 DEF SearchOK, Fresh, docVars
    <3>2. ASSUME Quiet', Open(e)' PROVE Searched(e)'
      <4>1. Open(e) /\ Searched(e)
        BY <1>0, <2>1, <3>2 DEF SearchOK, Quiet, Open, docVars, bounds
      <4>2. e \notin active
        BY <1>3, <2>4, <4>1 DEF HashExpires, PollAdvances, Open
      <4>3. \A u \in Tasks : ~Works(u, e, Starting \union Ending)
        BY <1>3, <2>4 DEF HashExpires, AtRest, Works, Starting, Ending
      <4>4. dStatus[e] # "searching_rider"
        BY <4>1, <4>2, <4>3 DEF Searched, Owned
      <4>5. TakenAsUnpaid(e)' /\ NotAccepted(e)'
        BY <2>1, <4>1 DEF Searched, TakenAsUnpaid, NotAccepted
      <4>6. StartsAlone(e)'
        BY <2>1, <4>3 DEF StartsAlone, Works
      <4>7. QED
        BY <2>1, <4>4, <4>5, <4>6 DEF Searched, docVars
    <3>3. QED
      BY <3>1, <3>2 DEF SearchOK
  <2>5. QED
    BY <2>2, <2>3, <2>4
<1>4. ASSUME NEW r \in Riders, NEW d \in Deliveries, CooldownEnds(r, d) PROVE SearchOK(e)'
  BY <1>1, <1>4 DEF CooldownEnds, IsActive
<1>5. CASE EventLost
  BY <1>1, <1>5 DEF EventLost, redisVars, IsActive
<1>6. ASSUME Crash \/ \E t \in Tasks : TaskFails(t) PROVE SearchOK(e)'
  <2>1. /\ UNCHANGED <<docVars, redisVars, asked, req>> /\ events' \subseteq events
        /\ faults' = faults + 1 /\ faults \in Nat
    BY <1>0, <1>6, ConstantsAssumption DEF Crash, TaskFails, TypeOK, BoundsOK
  <2>2. \A u \in Tasks : task'[u].del \in {task[u].del, NoDelivery}
    <3>1. ASSUME NEW t \in Tasks, TaskFails(t) PROVE \A u \in Tasks : task'[u].del \in {task[u].del, NoDelivery}
      BY <1>0, <3>1, Finishes DEF TaskFails, OthersStay
    <3>2. CASE Crash
      BY <3>2 DEF Crash, IdleTask
    <3>3. QED
      BY <1>6, <3>1, <3>2
  <2>3. ~Quiet'
    BY <2>1 DEF Quiet
  <2>4. QED
    BY <1>0, <2>1, <2>2, <2>3 DEF SearchOK, Fresh, docVars, redisVars
<1>7. QED
  BY <1>2, <1>3, <1>4, <1>5, <1>6 DEF Environment

-----------------------------------------------------------------------------
LEMMA SearchInit == Init => SearchInv
<1> SUFFICES ASSUME Init PROVE SearchInv
  OBVIOUS
<1>1. TypeOK
  BY TypeInit
<1>2. GivenBack
  BY DEF Init, GivenBack, IdleRequest
<1>3. ASSUME NEW d \in Deliveries PROVE SearchOK(d)
  BY ConstantsAssumption DEF Init, SearchOK, Fresh, Open, IdleTask, IdleRequest
<1>4. QED
  BY <1>1, <1>2, <1>3 DEF SearchInv

LEMMA SearchNext == SearchInv /\ [Next]_vars => SearchInv'
<1> SUFFICES ASSUME SearchInv, [Next]_vars PROVE SearchInv'
  OBVIOUS
<1>0. GivenBack /\ \A e \in Deliveries : SearchOK(e)
  BY DEF SearchInv
<1>1. TypeOK'
  BY TypeNext DEF SearchInv
<1>2. ASSUME NEW t \in Tasks, Step(t) \/ Arrive(t) PROVE SearchInv'
  <2>1. \A e \in Deliveries : SearchOK(e)'
    BY <1>2, StepSearch, ArriveSearch
  <2>2. UNCHANGED <<req, giveBacks>>
    BY <1>2, StepFrame DEF Arrive, CustomerRequests, PaymentCompletes, StartCustomerCancel,
         StartRetry, StartTimeout, ReceiveRejected, ReceiveAccepted, bounds
  <2>3. QED
    BY <1>0, <1>1, <2>1, <2>2 DEF SearchInv, GivenBack
<1>3. ASSUME NEW q \in Requests, RequestStep(q) \/ RequestArrives(q) PROVE SearchInv'
  BY <1>1, <1>3, RequestStepSearch, RequestArrivesSearch DEF SearchInv
<1>4. CASE Environment
  <2>1. UNCHANGED <<req, giveBacks>>
    BY <1>4 DEF Environment, SixteenSeconds, HashExpires, CooldownEnds, EventLost, TaskFails, Crash, bounds
  <2>2. QED
    BY <1>0, <1>1, <1>4, <2>1, EnvironmentSearch DEF SearchInv, GivenBack
<1>5. CASE UNCHANGED vars
  <2>1. ASSUME NEW e \in Deliveries PROVE Unconcerned(e)
    BY <1>5 DEF vars, docVars, redisVars, bounds, Unconcerned, Quiet, IsActive
  <2>2. QED
    BY <1>0, <1>1, <1>5, <2>1, Elsewhere DEF SearchInv, GivenBack, vars, bounds
<1>6. QED
  BY <1>2, <1>3, <1>4, <1>5 DEF Next

(* What is said above of every delivery holds of every behaviour.          *)
THEOREM SearchInvariant == Spec => []SearchInv
<1>1. Init => SearchInv
  BY SearchInit
<1>2. SearchInv /\ [Next]_vars => SearchInv'
  BY SearchNext
<1>3. QED
  BY <1>1, <1>2, PTL DEF Spec

(* An unpaid delivery that waits for a rider is in a state the poll looks  *)
(* at, or a task is on its way to ask a rider or to end the search, as     *)
(* long as nothing has failed and no rider has given it back.              *)
THEOREM SomebodySearches == Spec => []SearchHasOwner
<1>1. SearchInv => SearchHasOwner
  <2> SUFFICES ASSUME SearchInv, NEW d \in Deliveries,
                      faults = 0, giveBacks = 0, Waiting(d), ~dPaid[d]
               PROVE  Owned(d)
    BY DEF SearchHasOwner, Owned
  <2>1. QED
    BY DEF SearchInv, SearchOK, Searched, Quiet, Open, Waiting, Absent
<1>2. QED
  BY <1>1, SearchInvariant, PTL
=============================================================================
