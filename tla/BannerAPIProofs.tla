--------------------------- MODULE BannerAPIProofs ---------------------------
(***************************************************************************)
(* Proofs about the management API composed with the repository, for      *)
(* every value of the constants: the type invariant (through APIInv, the  *)
(* store's StoreInv and the API's types) and the two action properties    *)
(* that say which requests may write: only an admin's, and only one that  *)
(* succeeds.  The store's per-transaction lemmas are reused as they are.  *)
(***************************************************************************)
EXTENDS BannerAPI, BannerStoreProofs

USE StoreAssumption, APIAssumption

-----------------------------------------------------------------------------
(* Lemmas about the status helpers.                                        *)

(* The early returns answer 400, 401 or 403, or let the request through   *)
(* (0), and only an admin token gets through.                             *)
LEMMA EarlyStatusFacts ==
  ASSUME NEW tok, NEW bad
  PROVE  /\ EarlyStatus(tok, bad) \in {0, 400, 401, 403}
         /\ EarlyStatus(tok, bad) = 0 => tok = "admin"
  BY DEF EarlyStatus, ValidToken, Roles

(* The statuses the handlers map an outcome to, and which of them say     *)
(* success.                                                                *)
LEMMA StatusFacts ==
  ASSUME NEW o
  PROVE  /\ CreateStatus(o) \in {201, 500}
         /\ UpdateStatus(o) \in {200, 404, 400, 500}
         /\ RestoreStatus(o) \in {200, 404, 500}
         /\ CreateStatus(o) \in {200, 201, 204} => o = "ok"
         /\ UpdateStatus(o) \in {200, 201, 204} => o = "ok"
         /\ RestoreStatus(o) \in {200, 201, 204} => o = "ok"
  BY DEF CreateStatus, UpdateStatus, RestoreStatus

(* A transaction that reports anything but "ok" leaves the tables as they *)
(* were: the repository rolls its transaction back.                        *)
LEMMA CreateFailedUnchanged ==
  ASSUME NEW tagIDs, NEW f, NEW c, NEW a, CreateBanner(tagIDs, f, c, a),
         req'.outcome # "ok"
  PROVE  UNCHANGED tables
  BY DEF CreateBanner, Done, storeVars, tables

LEMMA UpdateFailedUnchanged ==
  ASSUME NEW id, NEW tagIDs, NEW f, NEW c, NEW a,
         UpdateBanner(id, tagIDs, f, c, a), req'.outcome # "ok"
  PROVE  UNCHANGED tables
<1>1. PICK r \in Resolutions(id, f, a), t \in FirstTags(tagIDs) :
        LET new     == MappingsAfter(id, tagIDs, r)
            outcome == UpdateOutcome(id, tagIDs, c # Null,
                         tagIDs # {} \/ f # Null \/ a # Null, new, t)
        IN  /\ Done("update", id, outcome)
            /\ IF outcome # "ok" THEN UNCHANGED storeVars
               ELSE /\ content' = IF c # Null
                                     THEN [content EXCEPT ![id] = c]
                                     ELSE content
                    /\ history' = IF c # Null
                                     THEN history \cup
                                          {[banner |-> id, content |-> c,
                                            at |-> clock, row |-> nextRow]}
                                     ELSE history
                    /\ mappings' = IF tagIDs # {} \/ f # Null \/ a # Null
                                      THEN (mappings \ MappingsOf(id)) \cup
                                           MappingsAfter(id, tagIDs, r)
                                      ELSE mappings
                    /\ UNCHANGED rows
  BY DEF UpdateBanner
<1>2. QED
  BY <1>1 DEF Done, storeVars, tables

LEMMA RestoreFailedUnchanged ==
  ASSUME NEW id, NEW key, RestoreVersion(id, key), req'.outcome # "ok"
  PROVE  UNCHANGED tables
  BY DEF RestoreVersion, Done, tables

-----------------------------------------------------------------------------
(* Which steps serve a request, and what a served request may write.      *)

(* A request stopped by an early return, in any handler.                  *)
LEMMA RejectUnchanged ==
  ASSUME NEW op, NEW tok, NEW id, NEW bad, Reject(op, tok, id, bad)
  PROVE  /\ UNCHANGED <<tables, tasks>>
         /\ resp'.token = tok
         /\ resp'.status = EarlyStatus(tok, bad)
  BY DEF Reject, Respond, tables

(* The steps a request is served by, with what the request could change:  *)
(* every step that writes a table or a task and serves a request got past *)
(* the early returns with an admin token and reported success.            *)
LEMMA ServedStep ==
  ASSUME [APINext]_apiVars, served' # served
  PROVE  \/ UNCHANGED <<tables, tasks>>
         \/ /\ resp'.token = "admin"
            /\ resp'.status \in {200, 201, 204}
<1>1. CASE \E tok \in Tokens, bad \in Bad : HandleCreate(tok, bad)
  <2>1. PICK tok \in Tokens, bad \in Bad : HandleCreate(tok, bad)
    BY <1>1
  <2>2. CASE Reject("create", tok, 0, bad)
    BY <2>2, RejectUnchanged
  <2>3. CASE /\ EarlyStatus(tok, bad) = 0
             /\ \E tagIDs \in (SUBSET Tags) \ {{}}, f \in Features,
                   c \in Contents, a \in BOOLEAN :
                   CreateBanner(tagIDs, f, c, a)
             /\ Respond("create", tok, nextId, req'.outcome,
                        CreateStatus(req'.outcome))
             /\ UNCHANGED tasks
    <3>1. resp'.token = "admin"
      BY <2>3, EarlyStatusFacts DEF Respond
    <3>2. CASE req'.outcome = "ok"
      BY <2>3, <3>1, <3>2 DEF Respond, CreateStatus
    <3>3. CASE req'.outcome # "ok"
      BY <2>3, <3>3, CreateFailedUnchanged
    <3>4. QED
      BY <3>2, <3>3
  <2>4. QED
    BY <2>1, <2>2, <2>3 DEF HandleCreate
<1>2. CASE \E tok \in Tokens, bad \in Bad, id \in Ids : HandleUpdate(tok, bad, id)
  <2>1. PICK tok \in Tokens, bad \in Bad, id \in Ids : HandleUpdate(tok, bad, id)
    BY <1>2
  <2>2. CASE Reject("update", tok, id, bad)
    BY <2>2, RejectUnchanged
  <2>3. CASE /\ EarlyStatus(tok, bad) = 0
             /\ \E tagIDs \in SUBSET Tags, f \in OptFeature,
                   c \in OptContent, a \in OptBool :
                   UpdateBanner(id, tagIDs, f, c, a)
             /\ Respond("update", tok, id, req'.outcome,
                        UpdateStatus(req'.outcome))
             /\ UNCHANGED tasks
    <3>1. resp'.token = "admin"
      BY <2>3, EarlyStatusFacts DEF Respond
    <3>2. CASE req'.outcome = "ok"
      BY <2>3, <3>1, <3>2 DEF Respond, UpdateStatus
    <3>3. CASE req'.outcome # "ok"
      BY <2>3, <3>3, UpdateFailedUnchanged
    <3>4. QED
      BY <3>2, <3>3
  <2>4. QED
    BY <2>1, <2>2, <2>3 DEF HandleUpdate
<1>3. CASE \E tok \in Tokens, bad \in Bad, id \in Ids : HandleDelete(tok, bad, id)
  <2>1. PICK tok \in Tokens, bad \in Bad, id \in Ids : HandleDelete(tok, bad, id)
    BY <1>3
  <2>2. CASE Reject("delete", tok, id, bad)
    BY <2>2, RejectUnchanged
  <2>3. CASE /\ EarlyStatus(tok, bad) = 0
             /\ \/ /\ ~Found(id)
                   /\ Respond("delete", tok, id, "notfound", 404)
                   /\ UNCHANGED tasks
                \/ /\ Found(id)
                   /\ tasks' = tasks \cup {id}
                   /\ Respond("delete", tok, id, "ok", 204)
                \/ /\ Found(id)
                   /\ Respond("delete", tok, id, "internal", 500)
                   /\ UNCHANGED tasks
             /\ UNCHANGED <<rows, content, mappings, history, nextId, nextRow,
                            clock, req>>
    <3>1. resp'.token = "admin"
      BY <2>3, EarlyStatusFacts DEF Respond
    <3>2. QED
      BY <2>3, <3>1 DEF Respond, tables
  <2>4. QED
    BY <2>1, <2>2, <2>3 DEF HandleDelete
<1>4. CASE \E tok \in Tokens, bad \in Bad, id \in Ids : HandleRestore(tok, bad, id)
  <2>1. PICK tok \in Tokens, bad \in Bad, id \in Ids : HandleRestore(tok, bad, id)
    BY <1>4
  <2>2. CASE Reject("restore", tok, id, bad)
    BY <2>2, RejectUnchanged
  <2>3. CASE /\ EarlyStatus(tok, bad) = 0
             /\ \E key \in Keys : RestoreVersion(id, key)
             /\ Respond("restore", tok, id, req'.outcome,
                        RestoreStatus(req'.outcome))
             /\ UNCHANGED tasks
    <3>1. resp'.token = "admin"
      BY <2>3, EarlyStatusFacts DEF Respond
    <3>2. CASE req'.outcome = "ok"
      BY <2>3, <3>1, <3>2 DEF Respond, RestoreStatus
    <3>3. CASE req'.outcome # "ok"
      BY <2>3, <3>3, RestoreFailedUnchanged
    <3>4. QED
      BY <3>2, <3>3
  <2>4. QED
    BY <2>1, <2>2, <2>3 DEF HandleRestore
<1>5. CASE \E id \in tasks : RunTask(id)
  BY <1>5 DEF RunTask
<1>6. CASE APITick
  BY <1>6 DEF APITick
<1>7. CASE UNCHANGED apiVars
  BY <1>7 DEF apiVars
<1>8. QED
  BY <1>1, <1>2, <1>3, <1>4, <1>5, <1>6, <1>7 DEF APINext

-----------------------------------------------------------------------------
(* APIInv holds initially and is preserved by every step.                 *)

LEMMA InitAPIInv == APIInit => APIInv
  BY InitStoreInv DEF APIInit, APIInv, APITypeOK, Response, Tokens, StoreInv

(* Serving a request keeps the count within its bound.                     *)
LEMMA ServeType ==
  ASSUME served \in 0..MaxRequests, Serve
  PROVE  served' \in 0..MaxRequests
  BY DEF Serve

(* A response built from a known operation, token, id, outcome and status *)
(* is a Response.                                                          *)
LEMMA RespondType ==
  ASSUME NEW op \in {"create", "update", "delete", "restore"},
         NEW tok \in Tokens, NEW id \in Ids \cup {0},
         NEW o \in Outcome \cup {"none"},
         NEW st \in {200, 201, 204, 400, 401, 403, 404, 500},
         Respond(op, tok, id, o, st)
  PROVE  resp' \in Response
  BY DEF Respond, Response

(* An early return: the store is untouched and the 400, 401 or 403 is a   *)
(* Response.                                                               *)
LEMMA RejectAPIInv ==
  ASSUME APIInv, Serve,
         NEW op \in {"create", "update", "delete", "restore"},
         NEW tok \in Tokens, NEW id \in Ids \cup {0}, NEW bad,
         Reject(op, tok, id, bad)
  PROVE  APIInv'
<1>1. StoreInv'
  <2>1. UNCHANGED vars
    BY DEF Reject, vars, tables
  <2>2. QED
    BY <2>1, StutterStoreInv DEF APIInv
<1>2. EarlyStatus(tok, bad) \in {200, 201, 204, 400, 401, 403, 404, 500}
  BY EarlyStatusFacts DEF Reject
<1>3. resp' \in Response
  BY <1>2, RespondType DEF Reject
<1>4. QED
  BY <1>1, <1>3, ServeType DEF Reject, APIInv, APITypeOK, StoreInv

LEMMA HandleCreateAPIInv ==
  ASSUME APIInv, NEW tok \in Tokens, NEW bad \in Bad, HandleCreate(tok, bad)
  PROVE  APIInv'
<1>1. CASE Reject("create", tok, 0, bad)
  BY <1>1, RejectAPIInv DEF HandleCreate
<1>2. CASE /\ \E tagIDs \in (SUBSET Tags) \ {{}}, f \in Features,
                 c \in Contents, a \in BOOLEAN :
                 CreateBanner(tagIDs, f, c, a)
           /\ Respond("create", tok, nextId, req'.outcome,
                      CreateStatus(req'.outcome))
           /\ UNCHANGED tasks
  <2>1. StoreInv' /\ nextId \in Ids
    BY <1>2, CreateBannerInv DEF APIInv, CreateBanner
  <2>2. req'.outcome \in Outcome
    BY <2>1 DEF StoreInv, TypeOK, Request
  <2>3. resp' \in Response
    BY <1>2, <2>1, <2>2, StatusFacts, RespondType
  <2>4. QED
    BY <1>2, <2>1, <2>3, ServeType DEF HandleCreate, APIInv, APITypeOK, StoreInv
<1>3. QED
  BY <1>1, <1>2 DEF HandleCreate

LEMMA HandleUpdateAPIInv ==
  ASSUME APIInv, NEW tok \in Tokens, NEW bad \in Bad, NEW id \in Ids,
         HandleUpdate(tok, bad, id)
  PROVE  APIInv'
<1>1. CASE Reject("update", tok, id, bad)
  BY <1>1, RejectAPIInv DEF HandleUpdate
<1>2. CASE /\ \E tagIDs \in SUBSET Tags, f \in OptFeature,
                 c \in OptContent, a \in OptBool :
                 UpdateBanner(id, tagIDs, f, c, a)
           /\ Respond("update", tok, id, req'.outcome,
                      UpdateStatus(req'.outcome))
           /\ UNCHANGED tasks
  <2>1. StoreInv'
    BY <1>2, UpdateBannerInv DEF APIInv
  <2>2. req'.outcome \in Outcome
    BY <2>1 DEF StoreInv, TypeOK, Request
  <2>3. resp' \in Response
    BY <1>2, <2>2, StatusFacts, RespondType
  <2>4. QED
    BY <1>2, <2>1, <2>3, ServeType DEF HandleUpdate, APIInv, APITypeOK, StoreInv
<1>3. QED
  BY <1>1, <1>2 DEF HandleUpdate

LEMMA HandleDeleteAPIInv ==
  ASSUME APIInv, NEW tok \in Tokens, NEW bad \in Bad, NEW id \in Ids,
         HandleDelete(tok, bad, id)
  PROVE  APIInv'
<1>1. CASE Reject("delete", tok, id, bad)
  BY <1>1, RejectAPIInv DEF HandleDelete
<1>2. CASE /\ \/ /\ Respond("delete", tok, id, "notfound", 404)
                 /\ UNCHANGED tasks
              \/ /\ tasks' = tasks \cup {id}
                 /\ Respond("delete", tok, id, "ok", 204)
              \/ /\ Respond("delete", tok, id, "internal", 500)
                 /\ UNCHANGED tasks
           /\ UNCHANGED <<rows, content, mappings, history, nextId, nextRow,
                          clock, req>>
  <2>1. StoreInv'
    BY <1>2, StutterStoreInv DEF APIInv, vars
  <2>2. resp' \in Response /\ tasks' \subseteq Ids
    BY <1>2, RespondType DEF APIInv, APITypeOK, Outcome
  <2>3. QED
    BY <2>1, <2>2, ServeType DEF HandleDelete, APIInv, APITypeOK, StoreInv
<1>3. QED
  BY <1>1, <1>2 DEF HandleDelete

LEMMA HandleRestoreAPIInv ==
  ASSUME APIInv, NEW tok \in Tokens, NEW bad \in Bad, NEW id \in Ids,
         HandleRestore(tok, bad, id)
  PROVE  APIInv'
<1>1. CASE Reject("restore", tok, id, bad)
  BY <1>1, RejectAPIInv DEF HandleRestore
<1>2. CASE /\ \E key \in Keys : RestoreVersion(id, key)
           /\ Respond("restore", tok, id, req'.outcome,
                      RestoreStatus(req'.outcome))
           /\ UNCHANGED tasks
  <2>1. StoreInv'
    BY <1>2, RestoreVersionInv DEF APIInv
  <2>2. req'.outcome \in Outcome
    BY <2>1 DEF StoreInv, TypeOK, Request
  <2>3. resp' \in Response
    BY <1>2, <2>2, StatusFacts, RespondType
  <2>4. QED
    BY <1>2, <2>1, <2>3, ServeType DEF HandleRestore, APIInv, APITypeOK, StoreInv
<1>3. QED
  BY <1>1, <1>2 DEF HandleRestore

(* A worker deleting a published task's banner: the store's DeleteBanner, *)
(* the task leaving the queue.                                             *)
LEMMA RunTaskAPIInv ==
  ASSUME APIInv, NEW id \in tasks, RunTask(id)
  PROVE  APIInv'
<1>1. id \in Ids
  BY DEF APIInv, APITypeOK
<1>2. StoreInv'
  BY <1>1, DeleteBannerInv DEF RunTask, APIInv
<1>3. QED
  BY <1>2 DEF RunTask, APIInv, APITypeOK, StoreInv

LEMMA APITickAPIInv ==
  ASSUME APIInv, APITick
  PROVE  APIInv'
  BY TickInv DEF APITick, APIInv, APITypeOK, StoreInv

LEMMA NextAPIInv == APIInv /\ [APINext]_apiVars => APIInv'
<1> SUFFICES ASSUME APIInv, [APINext]_apiVars PROVE APIInv'
  OBVIOUS
<1>1. CASE \E tok \in Tokens, bad \in Bad : HandleCreate(tok, bad)
  BY <1>1, HandleCreateAPIInv
<1>2. CASE \E tok \in Tokens, bad \in Bad, id \in Ids : HandleUpdate(tok, bad, id)
  BY <1>2, HandleUpdateAPIInv
<1>3. CASE \E tok \in Tokens, bad \in Bad, id \in Ids : HandleDelete(tok, bad, id)
  BY <1>3, HandleDeleteAPIInv
<1>4. CASE \E tok \in Tokens, bad \in Bad, id \in Ids : HandleRestore(tok, bad, id)
  BY <1>4, HandleRestoreAPIInv
<1>5. CASE \E id \in tasks : RunTask(id)
  BY <1>5, RunTaskAPIInv
<1>6. CASE APITick
  BY <1>6, APITickAPIInv
<1>7. CASE UNCHANGED apiVars
  <2>1. UNCHANGED vars
    BY <1>7 DEF apiVars, vars
  <2>2. QED
    BY <1>7, <2>1, StutterStoreInv DEF apiVars, APIInv, APITypeOK, StoreInv
<1>8. QED
  BY <1>1, <1>2, <1>3, <1>4, <1>5, <1>6, <1>7 DEF APINext

(* The repository's invariant and the API's types hold in every reachable *)
(* state of the composed system, for every value of the constants.        *)
THEOREM APIInvInvariant == APISpec => []APIInv
  BY InitAPIInv, NextAPIInv, PTL DEF APISpec

(* The tables, the last response, the task queue and the request count    *)
(* keep their types whatever the order of requests, tasks and ticks.      *)
THEOREM APITypeCorrect == APISpec => []APITypeOK
  BY APIInvInvariant, PTL DEF APIInv

-----------------------------------------------------------------------------
(* A request that fails, at an early return or in its transaction, writes *)
(* no table and publishes no delete task, for every value of the          *)
(* constants: the handlers call the repository only past every early      *)
(* return, and every repository method rolls back on an error.           *)
THEOREM FailedRequestChangesNothingSafe == APISpec => FailedRequestChangesNothing
<1>1. [APINext]_apiVars =>
        [served' # served /\ resp'.status \notin {200, 201, 204}
           => UNCHANGED <<tables, tasks>>]_apiVars
  BY ServedStep
<1>2. QED
  BY <1>1, PTL DEF APISpec, FailedRequestChangesNothing

(* A request whose token is invalid or carries any role but "admin"       *)
(* writes no table and publishes no task, for every value of the          *)
(* constants: the role check is an early return of every management       *)
(* handler.                                                                *)
THEOREM AdminOnlyWritesSafe == APISpec => AdminOnlyWrites
<1>1. [APINext]_apiVars =>
        [served' # served /\ resp'.token # "admin"
           => UNCHANGED <<tables, tasks>>]_apiVars
  BY ServedStep
<1>2. QED
  BY <1>1, PTL DEF APISpec, AdminOnlyWrites

=============================================================================
