------------------------ MODULE DeletePipelineProofs ------------------------
(***************************************************************************)
(* Proofs about DeletePipeline for every value of its constants: the type  *)
(* invariant, and that a delete task never removes a banner nobody asked   *)
(* to delete (NoForeignDelete), through the inductive invariant IInv.     *)
(***************************************************************************)
EXTENDS DeletePipeline, TLAPS

-----------------------------------------------------------------------------
(* Lemmas about Range on the sequence operations the broker uses.          *)

LEMMA RangeEmpty == Range(<<>>) = {}
  BY DEF Range

LEMMA RangeAppend ==
  ASSUME NEW S, NEW s \in Seq(S), NEW x
  PROVE  Range(Append(s, x)) = Range(s) \cup {x}
  BY DEF Range

LEMMA RangeTail ==
  ASSUME NEW S, NEW s \in Seq(S), s # <<>>
  PROVE  /\ Range(Tail(s)) \subseteq Range(s)
         /\ Head(s) \in Range(s)
  BY DEF Range

-----------------------------------------------------------------------------
USE ConstantsAssumption

LEMMA InitIInv == Init => IInv
<1> SUFFICES ASSUME Init PROVE IInv
  OBVIOUS
<1>1. TypeOK
  <2>1. client \in [Clients -> [pc : {"idle", "checked"}, id : Ids \cup {NoId}]]
    BY DEF Init, NoId
  <2>2. queue \in Seq(Msg) /\ buf \in [Workers -> Seq(Msg)]
    BY DEF Init
  <2>3. /\ wpc \in [Workers -> {"loop", "wait", "delete", "retry", "stopped"}]
        /\ task \in [Workers -> Ids \cup {NoId}]
        /\ retries \in [Workers -> 0..MaxRetries]
    BY DEF Init, NoId
  <2>4. nextId \in 1..(MaxBannerId + 1) /\ banners \subseteq Ids
    BY DEF Init
  <2>5. /\ faults \in 0..MaxFaults /\ published \in 0..MaxPublishes
        /\ accepted \in 0..MaxRequests /\ attempts \in Nat
    BY DEF Init
  <2>6. QED
    BY <2>1, <2>2, <2>3, <2>4, <2>5 DEF Init, TypeOK
<1>2. QueueRequested /\ BufRequested
  BY RangeEmpty DEF Init, QueueRequested, BufRequested
<1>3. HeldRequested /\ ClientRequested
  BY DEF Init, HeldRequested, ClientRequested
<1>4. OnlyCreated /\ NoForeignDelete
  BY DEF Init, OnlyCreated, NoForeignDelete, Created
<1>5. QED
  BY <1>1, <1>2, <1>3, <1>4 DEF IInv

-----------------------------------------------------------------------------
(* One lemma per action: each step of the pipeline preserves IInv.         *)

(* insertBanner takes a fresh id: no request and no task names it yet.     *)
LEMMA CreateBannerIInv == IInv /\ CreateBanner => IInv'
<1> SUFFICES ASSUME IInv, CreateBanner PROVE IInv'
  OBVIOUS
<1>1. TypeOK'
  BY DEF IInv, TypeOK, CreateBanner, Ids
<1>2. requested' = requested
  BY DEF IInv, OnlyCreated, Created, CreateBanner, TypeOK, Ids
<1>3. (QueueRequested /\ BufRequested /\ HeldRequested /\ ClientRequested)'
  BY <1>2 DEF IInv, CreateBanner, QueueRequested, BufRequested,
             HeldRequested, ClientRequested
<1>4. (OnlyCreated /\ NoForeignDelete)'
  BY <1>2 DEF IInv, TypeOK, OnlyCreated, NoForeignDelete, Created,
             CreateBanner, Ids
<1>5. QED
  BY <1>1, <1>3, <1>4 DEF IInv

(* GetBannerByID found the banner: its id joins the requested ids.         *)
LEMMA CheckExistsIInv ==
  ASSUME IInv, NEW c \in Clients, NEW id \in Ids, CheckExists(c, id)
  PROVE  IInv'
<1>1. TypeOK'
  BY DEF IInv, TypeOK, CheckExists
<1>2. requested \subseteq requested'
  BY DEF CheckExists
<1>3. (QueueRequested /\ BufRequested /\ HeldRequested)'
  BY <1>2 DEF IInv, CheckExists, QueueRequested, BufRequested, HeldRequested
<1>4. ClientRequested'
  BY DEF IInv, TypeOK, CheckExists, ClientRequested
<1>5. (OnlyCreated /\ NoForeignDelete)'
  BY DEF IInv, OnlyCreated, NoForeignDelete, Created, CheckExists
<1>6. QED
  BY <1>1, <1>3, <1>4, <1>5 DEF IInv

(* Publish carries the checked id to the queue, or fails; the handler      *)
(* returns either way.                                                     *)
LEMMA PublishTaskIInv ==
  ASSUME IInv, NEW c \in Clients, PublishTask(c)
  PROVE  IInv'
<1>1. client[c].id \in requested /\ client[c].id \in Msg
  BY DEF IInv, TypeOK, PublishTask, ClientRequested, OnlyCreated, Created,
         Msg, Ids
<1>2. CASE PublishOk(client[c].id)
  <2>1. Range(queue') = Range(queue) \cup {client[c].id}
    BY <1>2, RangeAppend DEF IInv, TypeOK, PublishOk
  <2>2. TypeOK'
    BY <1>1, <1>2 DEF IInv, TypeOK, PublishTask, PublishOk, NoId
  <2>3. QueueRequested'
    BY <1>1, <2>1 DEF IInv, PublishTask, QueueRequested
  <2>4. (BufRequested /\ HeldRequested /\ ClientRequested)'
    BY DEF IInv, TypeOK, PublishTask, BufRequested, HeldRequested,
           ClientRequested
  <2>5. (OnlyCreated /\ NoForeignDelete)'
    BY DEF IInv, PublishTask, OnlyCreated, NoForeignDelete, Created
  <2>6. QED
    BY <2>2, <2>3, <2>4, <2>5 DEF IInv
<1>3. CASE PublishFails
  <2>1. TypeOK'
    BY <1>3 DEF IInv, TypeOK, PublishTask, PublishFails, NoId
  <2>2. (QueueRequested /\ BufRequested /\ HeldRequested /\ ClientRequested)'
    BY <1>3 DEF IInv, TypeOK, PublishTask, PublishFails, QueueRequested,
              BufRequested, HeldRequested, ClientRequested
  <2>3. (OnlyCreated /\ NoForeignDelete)'
    BY DEF IInv, PublishTask, OnlyCreated, NoForeignDelete, Created
  <2>4. QED
    BY <2>1, <2>2, <2>3 DEF IInv
<1>4. QED
  BY <1>2, <1>3 DEF PublishTask

(* The broker moves the head of the queue into a live consumer's buffer.   *)
LEMMA DeliverToWorkerIInv ==
  ASSUME IInv, NEW w \in Workers, DeliverToWorker(w)
  PROVE  IInv'
<1>1. Head(queue) \in requested /\ Range(Tail(queue)) \subseteq requested
  BY RangeTail DEF IInv, TypeOK, QueueRequested, DeliverToWorker
<1>2. Range(buf'[w]) = Range(buf[w]) \cup {Head(queue)}
  BY RangeAppend DEF IInv, TypeOK, DeliverToWorker
<1>3. TypeOK'
  BY DEF IInv, TypeOK, DeliverToWorker
<1>4. QueueRequested'
  BY <1>1 DEF DeliverToWorker, QueueRequested
<1>5. BufRequested'
  BY <1>1, <1>2 DEF IInv, TypeOK, DeliverToWorker, BufRequested
<1>6. (HeldRequested /\ ClientRequested /\ OnlyCreated /\ NoForeignDelete)'
  BY DEF IInv, DeliverToWorker, HeldRequested, ClientRequested, OnlyCreated,
         NoForeignDelete, Created
<1>7. QED
  BY <1>3, <1>4, <1>5, <1>6 DEF IInv

(* An abandoned consumer takes the head of the queue and drops it.         *)
LEMMA DeliverToStaleIInv == IInv /\ DeliverToStale => IInv'
<1> SUFFICES ASSUME IInv, DeliverToStale PROVE IInv'
  OBVIOUS
<1>1. Range(Tail(queue)) \subseteq requested
  BY RangeTail DEF IInv, TypeOK, QueueRequested, DeliverToStale
<1>2. TypeOK'
  BY DEF IInv, TypeOK, DeliverToStale
<1>3. QueueRequested'
  BY <1>1 DEF DeliverToStale, QueueRequested
<1>4. (BufRequested /\ HeldRequested /\ ClientRequested /\ OnlyCreated
       /\ NoForeignDelete)'
  BY DEF IInv, DeliverToStale, BufRequested, HeldRequested, ClientRequested,
         OnlyCreated, NoForeignDelete, Created
<1>5. QED
  BY <1>2, <1>3, <1>4 DEF IInv

(* The top of Run's loop: the worker stops, or waits on a fresh consumer;  *)
(* it holds no task in either place.                                       *)
LEMMA RunLoopIInv ==
  ASSUME IInv, NEW w \in Workers, RunLoop(w)
  PROVE  IInv'
<1>1. wpc'[w] \in {"stopped", "wait"}
  BY DEF IInv, TypeOK, RunLoop
<1>2. TypeOK'
  <2>1. buf' \in [Workers -> Seq(Msg)]
    <3>1. CASE stopped
      <4>1. buf' = buf
        BY <3>1 DEF RunLoop
      <4>2. QED
        BY <4>1 DEF IInv, TypeOK
    <3>2. CASE ~stopped
      <4>1. buf' = [buf EXCEPT ![w] = <<>>]
        BY <3>2 DEF RunLoop
      <4>2. QED
        BY <4>1 DEF IInv, TypeOK
    <3>3. QED
      BY <3>1, <3>2
  <2>2. wpc' \in [Workers -> {"loop", "wait", "delete", "retry", "stopped"}]
    BY DEF IInv, TypeOK, RunLoop
  <2>3. QED
    BY <2>1, <2>2 DEF IInv, TypeOK, RunLoop, NoId
<1>3. BufRequested'
  BY RangeEmpty DEF IInv, TypeOK, RunLoop, BufRequested
<1>4. HeldRequested'
  BY <1>1 DEF IInv, TypeOK, RunLoop, HeldRequested
<1>5. (QueueRequested /\ ClientRequested /\ OnlyCreated /\ NoForeignDelete)'
  BY DEF IInv, RunLoop, QueueRequested, ClientRequested, OnlyCreated,
         NoForeignDelete, Created
<1>6. QED
  BY <1>2, <1>3, <1>4, <1>5 DEF IInv

(* Consume returns the first buffered message as the worker's task.        *)
LEMMA ReceiveIInv ==
  ASSUME IInv, NEW w \in Workers, Receive(w)
  PROVE  IInv'
<1>1. Head(buf[w]) \in requested /\ Head(buf[w]) \in Msg
  BY RangeTail DEF IInv, TypeOK, BufRequested, Receive
<1>2. TypeOK'
  BY <1>1 DEF IInv, TypeOK, Receive, Msg
<1>3. BufRequested'
  BY RangeEmpty DEF IInv, TypeOK, Receive, BufRequested
<1>4. HeldRequested'
  BY <1>1 DEF IInv, TypeOK, Receive, HeldRequested
<1>5. (QueueRequested /\ ClientRequested /\ OnlyCreated /\ NoForeignDelete)'
  BY DEF IInv, Receive, QueueRequested, ClientRequested, OnlyCreated,
         NoForeignDelete, Created
<1>6. QED
  BY <1>2, <1>3, <1>4, <1>5 DEF IInv

(* The outcome of one DeleteBanner transaction on a requested id: the      *)
(* banner set only loses that id, and faults stay within their bound.      *)
LEMMA DeleteStep ==
  ASSUME IInv, NEW id \in requested, DeleteOk(id) \/ DeleteFails(id)
  PROVE  /\ banners' \subseteq banners
         /\ banners \ banners' \subseteq {id}
         /\ faults' \in 0..MaxFaults
<1>1. CASE DeleteOk(id)
  BY <1>1 DEF DeleteOk, IInv, TypeOK
<1>2. CASE DeleteFails(id)
  BY <1>2 DEF DeleteFails, IInv, TypeOK
<1>3. QED
  BY <1>1, <1>2

(* A deletion that removes only requested ids keeps NoForeignDelete and    *)
(* OnlyCreated when the id sequence and the requested ids stay put.        *)
LEMMA RemoveRequested ==
  ASSUME IInv, NEW id \in requested,
         banners' \subseteq banners, banners \ banners' \subseteq {id},
         nextId' = nextId, requested' = requested
  PROVE  (OnlyCreated /\ NoForeignDelete)'
  BY DEF IInv, OnlyCreated, NoForeignDelete, Created

(* Run's first call of deleteBanner on the task it received.               *)
LEMMA FirstDeleteIInv ==
  ASSUME IInv, NEW w \in Workers, FirstDelete(w)
  PROVE  IInv'
<1>1. task[w] \in requested
  BY DEF IInv, HeldRequested, FirstDelete
<1>2. /\ banners' \subseteq banners
      /\ banners \ banners' \subseteq {task[w]}
      /\ faults' \in 0..MaxFaults
  BY <1>1, DeleteStep DEF FirstDelete
<1>3. /\ wpc' \in [Workers -> {"loop", "wait", "delete", "retry", "stopped"}]
      /\ wpc'[w] \in {"loop", "retry"}
      /\ \A v \in Workers \ {w} : wpc'[v] = wpc[v]
      /\ retries' \in [Workers -> 0..MaxRetries]
  <2>1. CASE wpc' = [wpc EXCEPT ![w] = "loop"] /\ UNCHANGED retries
    BY <2>1 DEF IInv, TypeOK
  <2>2. CASE wpc' = [wpc EXCEPT ![w] = "retry"]
             /\ retries' = [retries EXCEPT ![w] = 0]
    BY <2>2 DEF IInv, TypeOK
  <2>3. QED
    BY <2>1, <2>2 DEF FirstDelete
<1>4. TypeOK'
  BY <1>2, <1>3 DEF IInv, TypeOK, FirstDelete
<1>5. HeldRequested'
  BY <1>1, <1>3 DEF IInv, TypeOK, FirstDelete, HeldRequested
<1>6. (QueueRequested /\ BufRequested /\ ClientRequested)'
  BY DEF IInv, FirstDelete, QueueRequested, BufRequested, ClientRequested
<1>7. (OnlyCreated /\ NoForeignDelete)'
  BY <1>1, <1>2, RemoveRequested DEF FirstDelete
<1>8. QED
  BY <1>4, <1>5, <1>6, <1>7 DEF IInv

(* One iteration of retryDeleteBanner: the delete again, and on failure a  *)
(* re-publish of the same task, which is still a requested id.             *)
LEMMA RetryDeleteIInv ==
  ASSUME IInv, NEW w \in Workers, RetryDelete(w)
  PROVE  IInv'
<1>1. task[w] \in requested /\ task[w] \in Msg
  BY DEF IInv, TypeOK, HeldRequested, OnlyCreated, Created, RetryDelete,
         Msg, Ids
<1>2. /\ banners' \subseteq banners
      /\ banners \ banners' \subseteq {task[w]}
      /\ faults' \in 0..MaxFaults
  BY <1>1, DeleteStep DEF RetryDelete
<1>3. /\ TypeOK'
      /\ QueueRequested'
      /\ HeldRequested'
  <2> DEFINE Incr == retries' = [retries EXCEPT ![w] = @ + 1]
  <2>1. retries[w] + 1 \in 0..MaxRetries
    BY DEF IInv, TypeOK, RetryDelete
  <2>2. CASE /\ wpc' = [wpc EXCEPT ![w] = "loop"]
             /\ UNCHANGED <<retries, queue, published>>
    BY <1>2, <2>2 DEF IInv, TypeOK, RetryDelete, QueueRequested, HeldRequested
  <2>3. CASE Incr /\ PublishOk(task[w]) /\ UNCHANGED wpc
    <3>1. Range(queue') = Range(queue) \cup {task[w]}
      BY <2>3, RangeAppend DEF IInv, TypeOK, PublishOk
    <3>2. TypeOK'
      BY <1>1, <1>2, <2>1, <2>3 DEF IInv, TypeOK, RetryDelete, PublishOk
    <3>3. QED
      BY <1>1, <2>3, <3>1, <3>2 DEF IInv, RetryDelete, QueueRequested,
                                     HeldRequested
  <2>4. CASE Incr /\ PublishFails /\ wpc' = [wpc EXCEPT ![w] = "loop"]
    BY <1>2, <2>1, <2>4 DEF IInv, TypeOK, RetryDelete, PublishFails,
                          QueueRequested, HeldRequested
  <2>5. QED
    BY <2>2, <2>3, <2>4 DEF RetryDelete
<1>4. (BufRequested /\ ClientRequested)'
  BY DEF IInv, RetryDelete, BufRequested, ClientRequested
<1>5. (OnlyCreated /\ NoForeignDelete)'
  BY <1>1, <1>2, RemoveRequested DEF RetryDelete
<1>6. QED
  BY <1>3, <1>4, <1>5 DEF IInv

(* retries reached maxRetries: the worker drops the task.                  *)
LEMMA GiveUpIInv ==
  ASSUME IInv, NEW w \in Workers, GiveUp(w)
  PROVE  IInv'
<1>1. TypeOK'
  BY DEF IInv, TypeOK, GiveUp
<1>2. HeldRequested'
  BY DEF IInv, TypeOK, GiveUp, HeldRequested
<1>3. (QueueRequested /\ BufRequested /\ ClientRequested /\ OnlyCreated
       /\ NoForeignDelete)'
  BY DEF IInv, GiveUp, QueueRequested, BufRequested, ClientRequested,
         OnlyCreated, NoForeignDelete, Created
<1>4. QED
  BY <1>1, <1>2, <1>3 DEF IInv

(* Shutdown closes workerStopCh and touches nothing else.                  *)
LEMMA ShutdownIInv == IInv /\ Shutdown => IInv'
  BY DEF IInv, TypeOK, Shutdown, QueueRequested, BufRequested, HeldRequested,
         ClientRequested, OnlyCreated, NoForeignDelete, Created

(* A stuttering step leaves every variable, hence IInv, as it was.         *)
LEMMA StutterIInv == IInv /\ UNCHANGED vars => IInv'
  BY DEF vars, IInv, TypeOK, QueueRequested, BufRequested, HeldRequested,
         ClientRequested, OnlyCreated, NoForeignDelete, Created

LEMMA NextIInv == IInv /\ [Next]_vars => IInv'
<1> SUFFICES ASSUME IInv, [Next]_vars PROVE IInv'
  OBVIOUS
<1>1. CASE CreateBanner
  BY <1>1, CreateBannerIInv
<1>2. CASE \E c \in Clients, id \in Ids : CheckExists(c, id)
  BY <1>2, CheckExistsIInv
<1>3. CASE \E c \in Clients : PublishTask(c)
  BY <1>3, PublishTaskIInv
<1>4. CASE \E w \in Workers : DeliverToWorker(w)
  BY <1>4, DeliverToWorkerIInv
<1>5. CASE DeliverToStale
  BY <1>5, DeliverToStaleIInv
<1>6. CASE \E w \in Workers : RunLoop(w) \/ Receive(w) \/ FirstDelete(w)
                              \/ RetryDelete(w) \/ GiveUp(w)
  BY <1>6, RunLoopIInv, ReceiveIInv, FirstDeleteIInv, RetryDeleteIInv,
     GiveUpIInv
<1>7. CASE Shutdown
  BY <1>7, ShutdownIInv
<1>8. CASE UNCHANGED vars
  BY <1>8, StutterIInv
<1>9. QED
  BY <1>1, <1>2, <1>3, <1>4, <1>5, <1>6, <1>7, <1>8 DEF Next

-----------------------------------------------------------------------------
(* Every reachable state of the pipeline satisfies the inductive invariant *)
(* IInv: tasks in flight name only requested ids, and only handed-out ids  *)
(* are live or requested.                                                  *)
THEOREM IInvInvariant == Spec => []IInv
  BY InitIInv, NextIInv, PTL DEF Spec

(* Type correctness of the pipeline: queue contents, per-worker buffers,   *)
(* worker program counters and counters stay within their types.          *)
THEOREM TypeCorrect == Spec => []TypeOK
  BY IInvInvariant, PTL DEF IInv

(* A task taken by a DeleteBannerWorker (first delete or any retry) never  *)
(* removes a banner that nobody asked to delete, because the id sequence   *)
(* never hands out an id again.                                            *)
THEOREM NoForeignDeleteSafe == Spec => []NoForeignDelete
  BY IInvInvariant, PTL DEF IInv

=============================================================================
