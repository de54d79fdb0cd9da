------------------------------ MODULE BannerAPI ------------------------------
(***************************************************************************)
(* The management API in front of the repository: the HTTP handlers of     *)
(* transport/banner.go and transport/versions.go, AuthService.ValidateToken *)
(* (services/auth/auth.go) and the pass-through methods of BannerService,  *)
(* composed with BannerStore, whose transactions they call.                *)
(*                                                                         *)
(* A handler runs its early returns in the code's order (path parameters,  *)
(* token, role, body), then one repository transaction, and maps the      *)
(* error it gets to a status.  DELETE only checks that the banner exists   *)
(* and publishes a task; a worker later runs the repository's DeleteBanner *)
(* (the delivery and retry of tasks is DeletePipeline's subject; here a    *)
(* published task is an id in `tasks').                                    *)
(***************************************************************************)
EXTENDS BannerStore

CONSTANTS
    MaxRequests     \* bound: HTTP requests served

ASSUME APIAssumption == MaxRequests \in Nat

VARIABLES
    resp,       \* the last HTTP response and what produced it
    tasks,      \* delete tasks published and not yet run by a worker
    served      \* requests served so far

tables == <<rows, content, mappings, history>>
apiVars == <<rows, content, mappings, history, nextId, nextRow, clock, req,
          resp, tasks, served>>

(* What a request carries, abstracted to what the handlers tell apart: the *)
(* token, and whether a path parameter or the JSON body fails validation.  *)
(* Every error of ValidateToken (empty token, bad signature or method,     *)
(* expired, no user_type claim) is the same 401, so one "invalid" token    *)
(* stands for them all.                                                    *)
Tokens == {"invalid", "admin", "user", "other"}
Bad == {"none", "path", "body"}

(* ValidateToken: a valid token yields its user_type claim, any string.   *)
Roles == {"admin", "user", "other"}
ValidToken(tok) == tok \in Roles

Response == [op : {"none", "create", "update", "delete", "restore"},
             token : Tokens, id : Ids \cup {0},
             outcome : Outcome \cup {"none"},
             status : {0, 200, 201, 204, 400, 401, 403, 404, 500}]

APITypeOK ==
    /\ TypeOK
    /\ resp \in Response
    /\ tasks \subseteq Ids
    /\ served \in 0..MaxRequests

APIInit ==
    /\ Init
    /\ resp = [op |-> "none", token |-> "invalid", id |-> 0,
               outcome |-> "none", status |-> 0]
    /\ tasks = {}
    /\ served = 0

-----------------------------------------------------------------------------
(* Mutant of EarlyStatus: the role check dropped.                          *)
EarlyStatusNoRole(tok, bad) ==
    CASE bad = "path"         -> 400
      [] ~ValidToken(tok)     -> 401
      [] bad = "body"         -> 400
      [] OTHER                -> 0

(* The early returns of a handler, in the code's order: validate() of the *)
(* path parameters (400), ValidateToken (401), userType != AdminRole       *)
(* (403), decoding and checking the body (400).  0: none fired.            *)
EarlyStatus(tok, bad) ==
    CASE bad = "path"         -> 400
      [] ~ValidToken(tok)     -> 401
      [] tok # "admin"        -> 403
      [] bad = "body"         -> 400
      [] OTHER                -> 0

(* The status each handler maps the service's error to.                   *)
CreateStatus(o) == IF o = "ok" THEN 201 ELSE 500
(* Mutant of UpdateStatus: a unique violation answered with 409.           *)
UpdateStatusConflict409(o) == CASE o = "ok" -> 200 [] o = "notfound" -> 404
                                [] o = "conflict" -> 409 [] OTHER -> 500
UpdateStatus(o) == CASE o = "ok" -> 200 [] o = "notfound" -> 404
                     [] o = "conflict" -> 400 [] OTHER -> 500
RestoreStatus(o) == CASE o = "ok" -> 200 [] o = "notfound" -> 404
                      [] OTHER -> 500

Respond(op, tok, id, o, status) ==
    resp' = [op |-> op, token |-> tok, id |-> id, outcome |-> o,
             status |-> status]

Serve == served < MaxRequests /\ served' = served + 1

(* A request stopped by an early return touches nothing but the response. *)
Reject(op, tok, id, bad) ==
    /\ EarlyStatus(tok, bad) # 0
    /\ Respond(op, tok, id, "none", EarlyStatus(tok, bad))
    /\ UNCHANGED <<tables, nextId, nextRow, clock, req, tasks>>

-----------------------------------------------------------------------------
(* POST /banner: token and role first, then the body (content not null,   *)
(* tag_ids not empty), then BannerService.CreateBanner.  Every error of    *)
(* the repository, ErrUniqueViolation included, is a 500.                  *)
HandleCreate(tok, bad) ==
    /\ Serve
    /\ bad \in {"none", "body"}
    /\ \/ Reject("create", tok, 0, bad)
       \/ /\ EarlyStatus(tok, bad) = 0
          /\ \E tagIDs \in (SUBSET Tags) \ {{}}, f \in Features,
                c \in Contents, a \in BOOLEAN :
                CreateBanner(tagIDs, f, c, a)
          /\ Respond("create", tok, nextId, req'.outcome,
                     CreateStatus(req'.outcome))
          /\ UNCHANGED tasks

(* PATCH /banner/{id}: BannerService.UpdateBanner; ErrNotFound is 404,     *)
(* ErrUniqueViolation a 400 with the conflict message, the rest 500.       *)
HandleUpdate(tok, bad, id) ==
    /\ Serve
    /\ \/ Reject("update", tok, id, bad)
       \/ /\ EarlyStatus(tok, bad) = 0
          /\ \E tagIDs \in SUBSET Tags, f \in OptFeature,
                c \in OptContent, a \in OptBool :
                UpdateBanner(id, tagIDs, f, c, a)
          /\ Respond("update", tok, id, req'.outcome,
                     UpdateStatus(req'.outcome))
          /\ UNCHANGED tasks

(* BannerService.DeleteBanner's existence check: GetBannerByID joins       *)
(* banners with banner_mappings, so a banner is found only with a mapping. *)
Found(id) == id \in rows /\ MappingsOf(id) # {}

(* DELETE /banner/{id}: GetBannerByID, then Publish of the task; 404 when  *)
(* not found, 500 when the publish fails, 204 otherwise.                   *)
HandleDelete(tok, bad, id) ==
    /\ Serve
    /\ bad \in {"none", "path"}
    /\ \/ Reject("delete", tok, id, bad)
       \/ /\ EarlyStatus(tok, bad) = 0
          /\ \/ /\ ~Found(id)
                /\ Respond("delete", tok, id, "notfound", 404)
                /\ UNCHANGED tasks
             \/ /\ Found(id)
                /\ tasks' = tasks \cup {id}
                /\ Respond("delete", tok, id, "ok", 204)
             \/ /\ Found(id)
                /\ Respond("delete", tok, id, "internal", 500)
                /\ UNCHANGED tasks
          /\ UNCHANGED <<rows, content, mappings, history, nextId, nextRow,
                         clock, req>>

(* POST /banner/{id}/versions/{updatedAt}/restore: both path parameters    *)
(* are validated, then BannerService.RestoreVersion; ErrNotFound is 404.   *)
HandleRestore(tok, bad, id) ==
    /\ Serve
    /\ bad \in {"none", "path"}
    /\ \/ Reject("restore", tok, id, bad)
       \/ /\ EarlyStatus(tok, bad) = 0
          /\ \E key \in Keys : RestoreVersion(id, key)
          /\ Respond("restore", tok, id, req'.outcome,
                     RestoreStatus(req'.outcome))
          /\ UNCHANGED tasks

(* A worker runs a published task: the repository's DeleteBanner.          *)
RunTask(id) ==
    /\ id \in tasks
    /\ DeleteBanner(id)
    /\ tasks' = tasks \ {id}
    /\ UNCHANGED <<resp, served>>

APITick ==
    /\ Tick
    /\ UNCHANGED <<resp, tasks, served>>

APINext ==
    \/ \E tok \in Tokens, bad \in Bad :
          \/ HandleCreate(tok, bad)
          \/ \E id \in Ids :
                HandleUpdate(tok, bad, id) \/ HandleDelete(tok, bad, id)
                \/ HandleRestore(tok, bad, id)
    \/ \E id \in tasks : RunTask(id)
    \/ APITick

APISpec == APIInit /\ [][APINext]_apiVars

-----------------------------------------------------------------------------
(* A request that fails, whatever its status, leaves the tables and the    *)
(* task queue as they were: an early return happens before any call, and   *)
(* every repository method rolls its transaction back on an error (spec    *)
(* 4.1: no partial write observable).                                      *)
FailedRequestChangesNothing ==
    [][served' # served /\ resp'.status \notin {200, 201, 204}
         => UNCHANGED <<tables, tasks>>]_apiVars

(* Only an admin changes banners: a request whose token is missing,        *)
(* invalid, or carries any role but "admin" writes no table and publishes  *)
(* no task (spec 6: management operations are admin-only).                 *)
AdminOnlyWrites ==
    [][served' # served /\ resp'.token # "admin"
         => UNCHANGED <<tables, tasks>>]_apiVars

(* The inductive invariant behind APITypeOK: the repository's StoreInv   *)
(* (a response carries the outcome of a transaction the store ran, and a  *)
(* task the id of a banner it found) together with the API's own types.   *)
APIInv == StoreInv /\ APITypeOK

(* The response tells the client what the service reported (spec 6: a     *)
(* NotFound is 404, a Conflict 400 with the conflict message, any other    *)
(* failure 500).                                                           *)
StatusFollowsOutcome ==
    /\ resp.outcome = "notfound" => resp.status = 404
    /\ resp.outcome = "conflict" => resp.status = 400
    /\ resp.outcome = "internal" => resp.status = 500

=============================================================================
