--------------------------- MODULE DeletePipeline ---------------------------
(***************************************************************************)
(* The asynchronous banner deletion pipeline:                              *)
(*   BannerService.DeleteBanner (services/banner/banner.go) checks that    *)
(*   the banner exists and publishes a DeleteBannerTask;                   *)
(*   BannerQueue + RabbitMQQueue (queue.go, rabbitmq.go) carry it;         *)
(*   DeleteBannerWorker.Run / retryDeleteBanner (deleteworker.go) consume  *)
(*   it and call BannerRepository.DeleteBanner (repo/banner.go).           *)
(*                                                                         *)
(* Every call of BannerQueue.Consume registers a NEW auto-ack consumer on  *)
(* the broker (rabbitmq.go:62-84) and reads one message from it; the       *)
(* consumer is never cancelled.  The broker keeps dispatching to every     *)
(* registered consumer, and the messages an abandoned consumer receives    *)
(* are acknowledged and never read.  `stale' records that such a consumer  *)
(* exists.                                                                 *)
(***************************************************************************)
EXTENDS Naturals, Sequences, Functions

CONSTANTS
    Workers,        \* the goroutines started by NewBannerService
    Clients,        \* concurrent DELETE /banner/{id} request handlers
    MaxBannerId,    \* the banner ids the store's id sequence hands out
    MaxRetries,     \* maxRetries in retryDeleteBanner (5 in the code)
    MaxPublishes,   \* bound: messages published to the broker in a run
    MaxRequests,    \* bound: DELETE requests that pass the existence check
    MaxFaults       \* bound: transient store failures of DeleteBanner

ASSUME ConstantsAssumption ==
    /\ Workers # {}
    /\ MaxBannerId \in Nat
    /\ MaxRetries \in Nat
    /\ MaxPublishes \in Nat
    /\ MaxRequests \in Nat
    /\ MaxFaults \in Nat

VARIABLES
    banners,    \* ids of the rows of `banners' (with their mappings)
    nextId,     \* next value of the banners id sequence
    client,     \* per request handler: between GetBannerByID and Publish
    queue,      \* the broker queue of encoded DeleteBannerTasks
    buf,        \* per worker: messages its current consumer has received
    stale,      \* an abandoned consumer is registered on the queue
    wpc,        \* per worker: where it is in Run / retryDeleteBanner
    task,       \* per worker: the banner id of the task it holds
    retries,    \* per worker: the `retries' local of retryDeleteBanner
    stopped,    \* workerStopCh has been closed by Shutdown
    faults,     \* transient store failures so far
    published,  \* messages published so far
    requested,  \* auxiliary: ids whose existence check passed since creation
    accepted,   \* auxiliary: DELETE requests that passed the check
    attempts    \* auxiliary: calls of BannerRepository.DeleteBanner

vars == <<banners, nextId, client, queue, buf, stale, wpc, task, retries,
          stopped, faults, published, requested, accepted, attempts>>

Ids == 1..MaxBannerId
NoId == 0

(* gob encoding of DeleteBannerTask{ID} round-trips the int64 exactly, so  *)
(* a message is represented by the id it carries.                          *)
Msg == Ids

TypeOK ==
    /\ banners \subseteq Ids
    /\ nextId \in 1..(MaxBannerId + 1)
    /\ client \in [Clients -> [pc : {"idle", "checked"}, id : Ids \cup {NoId}]]
    /\ queue \in Seq(Msg)
    /\ buf \in [Workers -> Seq(Msg)]
    /\ stale \in BOOLEAN
    /\ wpc \in [Workers -> {"loop", "wait", "delete", "retry", "stopped"}]
    /\ task \in [Workers -> Ids \cup {NoId}]
    /\ retries \in [Workers -> 0..MaxRetries]
    /\ stopped \in BOOLEAN
    /\ faults \in 0..MaxFaults
    /\ published \in 0..MaxPublishes
    /\ requested \subseteq Ids
    /\ accepted \in 0..MaxRequests
    /\ attempts \in Nat

Init ==
    /\ banners = {}
    /\ nextId = 1
    /\ client = [c \in Clients |-> [pc |-> "idle", id |-> NoId]]
    /\ queue = <<>>
    /\ buf = [w \in Workers |-> <<>>]
    /\ stale = FALSE
    /\ wpc = [w \in Workers |-> "loop"]
    /\ task = [w \in Workers |-> NoId]
    /\ retries = [w \in Workers |-> 0]
    /\ stopped = FALSE
    /\ faults = 0
    /\ published = 0
    /\ requested = {}
    /\ accepted = 0
    /\ attempts = 0

-----------------------------------------------------------------------------
(* BannerRepository: the store side of the pipeline.                       *)

(* Mutant of CreateBanner: ids allocated as MAX(id) + 1 over the live rows *)
(* instead of from a sequence, so a deleted top id is handed out again.    *)
CreateBannerMaxPlusOne ==
    LET id == IF banners = {} THEN 1
              ELSE (CHOOSE m \in banners : \A b \in banners : b <= m) + 1
    IN  /\ id \in Ids
        /\ banners' = banners \cup {id}
        /\ nextId' = IF id < nextId THEN nextId ELSE id + 1
        /\ requested' = requested \ {id}
        /\ UNCHANGED <<client, queue, buf, stale, wpc, task, retries, stopped,
                       faults, published, accepted, attempts>>

(* CreateBanner: insertBanner takes the next value of the id sequence.     *)
(* A new banner has had no delete request yet.                             *)
CreateBanner ==
    /\ nextId \in Ids
    /\ banners' = banners \cup {nextId}
    /\ nextId' = nextId + 1
    /\ requested' = requested \ {nextId}
    /\ UNCHANGED <<client, queue, buf, stale, wpc, task, retries, stopped,
                   faults, published, accepted, attempts>>

(* The outcomes of one DeleteBanner(id) transaction: it commits when the   *)
(* banner row exists, fails with ErrNotFound when the row delete affects   *)
(* zero rows, and may fail with an opaque SQL error (a fault).             *)
DeleteOk(id) == id \in banners /\ banners' = banners \ {id} /\ UNCHANGED faults
DeleteFails(id) ==
    /\ UNCHANGED banners
    /\ \/ id \notin banners /\ UNCHANGED faults
       \/ faults < MaxFaults /\ faults' = faults + 1

(* Publish through BannerQueue: the broker accepts the message, or the     *)
(* channel returns an error (forced once the publish bound is reached).    *)
PublishOk(id) ==
    /\ published < MaxPublishes
    /\ queue' = Append(queue, id)
    /\ published' = published + 1
PublishFails == published = MaxPublishes /\ UNCHANGED <<queue, published>>

-----------------------------------------------------------------------------
(* BannerService.DeleteBanner, first half: GetBannerByID succeeds.  (On a  *)
(* missing banner it returns ErrNotFound and changes nothing.)             *)
CheckExists(c, id) ==
    /\ client[c].pc = "idle"
    /\ accepted < MaxRequests
    /\ id \in banners
    /\ client' = [client EXCEPT ![c] = [pc |-> "checked", id |-> id]]
    /\ requested' = requested \cup {id}
    /\ accepted' = accepted + 1
    /\ UNCHANGED <<banners, nextId, queue, buf, stale, wpc, task, retries,
                   stopped, faults, published, attempts>>

(* BannerService.DeleteBanner, second half: Queue.Publish(task); the       *)
(* request returns 204, or 500 when the publish fails.                     *)
PublishTask(c) ==
    /\ client[c].pc = "checked"
    /\ PublishOk(client[c].id) \/ PublishFails
    /\ client' = [client EXCEPT ![c] = [pc |-> "idle", id |-> NoId]]
    /\ UNCHANGED <<banners, nextId, buf, stale, wpc, task, retries, stopped,
                   faults, requested, accepted, attempts>>

-----------------------------------------------------------------------------
(* The broker dispatches the head of the queue to a registered consumer:   *)
(* the live consumer of a worker blocked in Consume, or an abandoned one,  *)
(* which acknowledges the message and drops it.                            *)
DeliverToWorker(w) ==
    /\ queue # <<>>
    /\ wpc[w] = "wait"
    /\ buf' = [buf EXCEPT ![w] = Append(@, Head(queue))]
    /\ queue' = Tail(queue)
    /\ UNCHANGED <<banners, nextId, client, stale, wpc, task, retries, stopped,
                   faults, published, requested, accepted, attempts>>

DeliverToStale ==
    /\ queue # <<>>
    /\ stale
    /\ queue' = Tail(queue)
    /\ UNCHANGED <<banners, nextId, client, buf, stale, wpc, task, retries,
                   stopped, faults, published, requested, accepted, attempts>>

-----------------------------------------------------------------------------
(* DeleteBannerWorker.Run: the select at the top of the loop.  A closed    *)
(* stopCh ends Run and runWorker returns; otherwise Consume registers a    *)
(* fresh consumer and blocks on its channel.                               *)
RunLoop(w) ==
    /\ wpc[w] = "loop"
    /\ IF stopped
          THEN wpc' = [wpc EXCEPT ![w] = "stopped"] /\ UNCHANGED buf
          ELSE /\ wpc' = [wpc EXCEPT ![w] = "wait"]
               /\ buf' = [buf EXCEPT ![w] = <<>>]
    /\ task' = [task EXCEPT ![w] = NoId]
    /\ retries' = [retries EXCEPT ![w] = 0]
    /\ UNCHANGED <<banners, nextId, client, queue, stale, stopped, faults,
                   published, requested, accepted, attempts>>

(* Consume returns the first message of its consumer; the consumer stays   *)
(* registered and whatever else it received is lost.                       *)
Receive(w) ==
    /\ wpc[w] = "wait"
    /\ buf[w] # <<>>
    /\ task' = [task EXCEPT ![w] = Head(buf[w])]
    /\ buf' = [buf EXCEPT ![w] = <<>>]
    /\ stale' = TRUE
    /\ wpc' = [wpc EXCEPT ![w] = "delete"]
    /\ UNCHANGED <<banners, nextId, client, queue, retries, stopped, faults,
                   published, requested, accepted, attempts>>

(* Run: err = w.deleteBanner(ctx, task); on error, retryDeleteBanner.      *)
FirstDelete(w) ==
    /\ wpc[w] = "delete"
    /\ attempts' = attempts + 1
    /\ \/ DeleteOk(task[w]) /\ wpc' = [wpc EXCEPT ![w] = "loop"]
                            /\ UNCHANGED retries
       \/ DeleteFails(task[w]) /\ wpc' = [wpc EXCEPT ![w] = "retry"]
                               /\ retries' = [retries EXCEPT ![w] = 0]
    /\ UNCHANGED <<nextId, client, queue, buf, stale, task, stopped,
                   published, requested, accepted>>

(* Mutant of RetryDelete: the loop condition written `retries <= max'.     *)
RetryDeleteInclusive(w) ==
    /\ wpc[w] = "retry"
    /\ retries[w] <= MaxRetries
    /\ attempts' = attempts + 1
    /\ \/ /\ DeleteOk(task[w])
          /\ wpc' = [wpc EXCEPT ![w] = "loop"]
          /\ UNCHANGED <<retries, queue, published>>
       \/ /\ DeleteFails(task[w])
          /\ retries' = [retries EXCEPT ![w] = @ + 1]
          /\ \/ PublishOk(task[w]) /\ UNCHANGED wpc
             \/ PublishFails /\ wpc' = [wpc EXCEPT ![w] = "loop"]
    /\ UNCHANGED <<nextId, client, buf, stale, task, stopped, requested,
                   accepted>>

(* One iteration of the loop of retryDeleteBanner: delete again; on      *)
(* success return nil; otherwise retries++, re-publish the task (a publish *)
(* error returns it) and sleep before the next iteration.                  *)
RetryDelete(w) ==
    /\ wpc[w] = "retry"
    /\ retries[w] < MaxRetries
    /\ attempts' = attempts + 1
    /\ \/ /\ DeleteOk(task[w])
          /\ wpc' = [wpc EXCEPT ![w] = "loop"]
          /\ UNCHANGED <<retries, queue, published>>
       \/ /\ DeleteFails(task[w])
          /\ retries' = [retries EXCEPT ![w] = @ + 1]
          /\ \/ PublishOk(task[w]) /\ UNCHANGED wpc
             \/ PublishFails /\ wpc' = [wpc EXCEPT ![w] = "loop"]
    /\ UNCHANGED <<nextId, client, buf, stale, task, stopped, requested,
                   accepted>>

(* retries reached maxRetries: the error is logged and Run continues.      *)
GiveUp(w) ==
    /\ wpc[w] = "retry"
    /\ retries[w] = MaxRetries
    /\ wpc' = [wpc EXCEPT ![w] = "loop"]
    /\ UNCHANGED <<banners, nextId, client, queue, buf, stale, task, retries,
                   stopped, faults, published, requested, accepted, attempts>>

(* BannerService.Shutdown closes workerStopCh.                             *)
Shutdown ==
    /\ ~stopped
    /\ stopped' = TRUE
    /\ UNCHANGED <<banners, nextId, client, queue, buf, stale, wpc, task,
                   retries, faults, published, requested, accepted, attempts>>

Next ==
    \/ CreateBanner
    \/ \E c \in Clients, id \in Ids : CheckExists(c, id)
    \/ \E c \in Clients : PublishTask(c)
    \/ \E w \in Workers : DeliverToWorker(w)
    \/ DeliverToStale
    \/ \E w \in Workers : RunLoop(w) \/ Receive(w) \/ FirstDelete(w)
                          \/ RetryDelete(w) \/ GiveUp(w)
    \/ Shutdown

Spec == Init /\ [][Next]_vars

(* The worker goroutines started in NewBannerService are scheduled by the  *)
(* Go runtime: a worker that can take its next step eventually does, and   *)
(* the broker eventually pushes a queued message to a waiting consumer.    *)
(* Request handlers and Shutdown get no fairness: clients may stop.        *)
FairSpec ==
    /\ Spec
    /\ \A w \in Workers :
          /\ WF_vars(RunLoop(w)) /\ WF_vars(Receive(w))
          /\ WF_vars(FirstDelete(w)) /\ WF_vars(RetryDelete(w))
          /\ WF_vars(GiveUp(w)) /\ WF_vars(DeliverToWorker(w))

-----------------------------------------------------------------------------
(* The delete tasks in flight: published and undelivered, delivered to a   *)
(* worker's live consumer, held by a worker, or about to be published by a *)
(* request handler.                                                        *)
Pending ==
    Range(queue)
    \cup UNION {Range(buf[w]) : w \in Workers}
    \cup {task[w] : w \in {v \in Workers : wpc[v] \in {"delete", "retry"}}}
    \cup {client[c].id : c \in {d \in Clients : client[d].pc = "checked"}}

(* Created banners are the ids the sequence has handed out.                *)
Created == 1..(nextId - 1)

(* A delete task never removes a banner nobody asked to delete: every      *)
(* created banner that is gone had a DELETE request accepted after it was  *)
(* created.  This rests on ids never being reused, because a duplicate or  *)
(* retried task outlives the banner it was published for.                  *)
NoForeignDelete == \A id \in Created \ banners : id \in requested

(* Once Shutdown has closed workerStopCh, every worker eventually leaves   *)
(* Run (spec 3: the stop signal "causes every worker to exit its consume   *)
(* loop at the next iteration boundary").  Run reads stopCh only in its    *)
(* select; a worker blocked in Consume's <-messages never gets back there. *)
WorkersStop == stopped ~> \A w \in Workers : wpc[w] = "stopped"

-----------------------------------------------------------------------------
(* The inductive strengthening of NoForeignDelete: every task in flight    *)
(* names a banner whose deletion was requested in its current incarnation, *)
(* and only handed-out ids are live or requested.  Because a fresh id has  *)
(* never been requested, no task in flight can name the next banner.       *)
QueueRequested == Range(queue) \subseteq requested
BufRequested == \A w \in Workers : Range(buf[w]) \subseteq requested
HeldRequested ==
    \A w \in Workers : wpc[w] \in {"delete", "retry"} => task[w] \in requested
ClientRequested ==
    \A c \in Clients : client[c].pc = "checked" => client[c].id \in requested
OnlyCreated == banners \subseteq Created /\ requested \subseteq Created

IInv ==
    /\ TypeOK
    /\ QueueRequested
    /\ BufRequested
    /\ HeldRequested
    /\ ClientRequested
    /\ OnlyCreated
    /\ NoForeignDelete

(* A DELETE request that returned 204 for a banner that still exists has a *)
(* task in flight that will delete it: the task is not lost between the    *)
(* broker and a worker (spec 4.3, 8: "after the worker processes the task  *)
(* the row and its mappings are gone").                                    *)
TaskNotLost == \A id \in requested \cap banners : id \in Pending

(* With a healthy store, each accepted delete costs at most one attempt    *)
(* plus MaxRetries retries before it is dropped (spec 4.3, 7).             *)
AttemptsBounded == faults = 0 => attempts <= (1 + MaxRetries) * accepted

=============================================================================
