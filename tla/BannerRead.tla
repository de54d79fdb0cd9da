----------------------------- MODULE BannerRead -----------------------------
(***************************************************************************)
(* The banner read path and its cache:                                     *)
(*   GetBannerForUser.Handle (transport/banner.go) decides onlyActive from *)
(*   the role and rejects use_last_revision for non-admins;                *)
(*   BannerService.GetBanner (services/banner/banner.go) reads the cache,  *)
(*   falls back to BannerRepository.GetBanner and starts a goroutine that  *)
(*   pushes the banner it read into the cache;                             *)
(*   BannerCache.Push/Get (cache.go) over Redis (storage/redis/redis.go).  *)
(* Management writes go to the store and never touch the cache.           *)
(*                                                                         *)
(* The store is seen through the one query the read path makes: the row   *)
(* of banners joined with banner_mappings under a (tag_id, feature_id)     *)
(* key, which the unique index makes at most one.                          *)
(***************************************************************************)
EXTENDS Naturals, FiniteSets

CONSTANTS
    Readers,    \* concurrent GET /user_banner request handlers
    Tags,       \* tag ids
    Features,   \* feature ids (positive)
    Contents,   \* banner contents (opaque JSON)
    Null,       \* no content: the zero Banner returned with an error
    MaxReads,   \* bound: GET /user_banner requests served
    MaxWrites   \* bound: management writes to the store

ASSUME ReadAssumption ==
    /\ 0 \notin Features
    /\ Null \notin Contents
    /\ Tags # {}           \* an idle handler's key is some (tag, feature)
    /\ Features # {}
    /\ MaxReads \in Nat
    /\ MaxWrites \in Nat

VARIABLES
    db,         \* per (tag, feature) key: the banner row visible to GetBanner
    cache,      \* Redis: key -> encoded Banner, for the keys present
    rd,         \* per request handler: where it is in Handle/GetBanner
    pushes,     \* Cache.Push goroutines started and not yet finished
    reads,      \* requests served so far
    writes      \* management writes so far

vars == <<db, cache, rd, pushes, reads, writes>>

(* fmt.Sprintf("%d_%d", tagID, featureID) is injective on int64 pairs, so  *)
(* a cache key is the pair it is built from.                               *)
Key == Tags \X Features

Row == [content : Contents, active : BOOLEAN]
NoRow == [content |-> Null, active |-> FALSE]

(* models.Banner as the read path fills it; gob encodes and decodes it     *)
(* without loss, so a cache entry is the Banner itself.                    *)
Banner == [content : Contents \cup {Null}, active : BOOLEAN,
           feature : Features \cup {0}, tags : SUBSET Tags]
NoBanner == [content |-> Null, active |-> FALSE, feature |-> 0, tags |-> {}]

(* ValidateToken returns the token's user_type claim, any string: "admin", *)
(* "user", or another value the handlers compare against both; or an      *)
(* error, every one of which Handle answers with 401 ("invalid").          *)
Roles == {"admin", "user", "other"}
Tokens == Roles \cup {"invalid"}
Result == {"none", "ok", "notfound", "badrequest", "unauthorized",
           "forbidden", "error"}
Handler == [pc : {"idle", "cache", "store"}, key : Key, last : BOOLEAN,
            role : Tokens, only : BOOLEAN, result : Result, banner : Banner]

(* A Push goroutine: the banner it was handed, and (auxiliary) the key     *)
(* of the request that read it and whether Redis answered every Set.       *)
Push == [banner : Banner, key : Key, ok : BOOLEAN]

TypeOK ==
    /\ db \in [Key -> Row \cup {NoRow}]
    /\ DOMAIN cache \subseteq Key
    /\ \A k \in DOMAIN cache : cache[k] \in Banner
    /\ rd \in [Readers -> Handler]
    /\ pushes \subseteq Push
    /\ reads \in 0..MaxReads
    /\ writes \in 0..MaxWrites

Init ==
    /\ db = [k \in Key |-> NoRow]
    /\ cache = [k \in {} |-> NoBanner]
    /\ rd = [r \in Readers |->
               [pc |-> "idle", key |-> CHOOSE k \in Key : TRUE, last |-> FALSE,
                role |-> "user", only |-> TRUE, result |-> "none",
                banner |-> NoBanner]]
    /\ pushes = {}
    /\ reads = 0
    /\ writes = 0

-----------------------------------------------------------------------------
(* Mutant of Found: the onlyActive filter (repo/banner.go:34-36) dropped.  *)
FoundNoFilter(k, only) == db[k] # NoRow

(* BannerRepository.GetBanner(tagID, featureID, onlyActive): SELECT id,    *)
(* content, is_active, created_at, updated_at ... WHERE tag_id, feature_id *)
(* [AND is_active] LIMIT 1.  feature_id and tag_ids are not selected, so   *)
(* the Banner carries FeatureID 0 and no TagIds.                           *)
Found(k, only) == db[k] # NoRow /\ (only => db[k].active)

(* Mutant of StoreBanner: tag_ids aggregated as GetBannerByID does, but    *)
(* feature_id still not selected.                                          *)
StoreBannerTagsOnly(k) ==
    [content |-> db[k].content, active |-> db[k].active,
     feature |-> 0, tags |-> {k[1]}]

(* Mutant of StoreBanner: the query also selects the tag and feature it   *)
(* matched, so the Banner carries the key it was read under.              *)
StoreBannerKeyed(k) ==
    [content |-> db[k].content, active |-> db[k].active,
     feature |-> k[2], tags |-> {k[1]}]

StoreBanner(k) ==
    [content |-> db[k].content, active |-> db[k].active,
     feature |-> 0, tags |-> {}]

(* BannerCache.Push: one Redis Set per tag under (tag, banner.FeatureID);  *)
(* the first failing Set ends the loop.  Which keys get written.           *)
PushedKeys(b, written) == {<<t, b.feature>> : t \in written}

-----------------------------------------------------------------------------
(* GetBannerForUser.Handle's early returns, in their order: a malformed   *)
(* tag_id, feature_id or use_last_revision is 400, a failed ValidateToken  *)
(* 401, use_last_revision without the admin role 403; "none" goes on.     *)
Rejection(valid, role, last) ==
    CASE ~valid                   -> "badrequest"
      [] role = "invalid"         -> "unauthorized"
      [] last /\ role # "admin"   -> "forbidden"
      [] OTHER                    -> "none"

(* GetBannerForUser.Handle: validate, ValidateToken, the role check; a     *)
(* request that passes them reads with onlyActive exactly when its role is *)
(* "user".                                                                 *)
Request(r, k, last, role, valid) ==
    /\ rd[r].pc = "idle"
    /\ reads < MaxReads
    /\ reads' = reads + 1
    /\ IF Rejection(valid, role, last) # "none"
          THEN rd' = [rd EXCEPT ![r] = [@ EXCEPT !.key = k, !.last = last,
                        !.role = role, !.result = Rejection(valid, role, last),
                        !.banner = NoBanner]]
          ELSE rd' = [rd EXCEPT ![r] = [pc |-> IF last THEN "store" ELSE "cache",
                        key |-> k, last |-> last, role |-> role,
                        only |-> role = "user", result |-> "none",
                        banner |-> NoBanner]]
    /\ UNCHANGED <<db, cache, pushes, writes>>

(* GetBanner without use_last_revision: Cache.Get; a hit (decoded) is      *)
(* returned as it is, anything else (redis.Nil, a Redis or decode error)   *)
(* falls through to the store.                                             *)
CacheGet(r) ==
    LET k == rd[r].key IN
    /\ rd[r].pc = "cache"
    /\ \/ /\ k \in DOMAIN cache
          /\ rd' = [rd EXCEPT ![r].pc = "idle", ![r].result = "ok",
                              ![r].banner = cache[k]]
       \/ rd' = [rd EXCEPT ![r].pc = "store"]
    /\ UNCHANGED <<db, cache, pushes, reads, writes>>

(* GetBanner's store read: NotFound is 404, another error 500; on success  *)
(* `go s.Cache.Push(banner, ttl)' and the banner is returned.              *)
StoreGet(r) ==
    LET k == rd[r].key IN
    /\ rd[r].pc = "store"
    /\ \/ /\ Found(k, rd[r].only)
          /\ rd' = [rd EXCEPT ![r].pc = "idle", ![r].result = "ok",
                              ![r].banner = StoreBanner(k)]
          /\ \E ok \in BOOLEAN :
                pushes' = pushes \cup
                            {[banner |-> StoreBanner(k), key |-> k, ok |-> ok]}
       \/ /\ ~Found(k, rd[r].only)
          /\ rd' = [rd EXCEPT ![r].pc = "idle", ![r].result = "notfound",
                              ![r].banner = NoBanner]
          /\ UNCHANGED pushes
       \/ /\ rd' = [rd EXCEPT ![r].pc = "idle", ![r].result = "error",
                              ![r].banner = NoBanner]
          /\ UNCHANGED pushes
    /\ UNCHANGED <<db, cache, reads, writes>>

(* A Push goroutine runs: Set for each tag of the banner until one fails;  *)
(* its error is discarded.  A failing push writes a part of the keys.      *)
RunPush(p) ==
    /\ p \in pushes
    /\ \E written \in SUBSET p.banner.tags :
          /\ p.ok => written = p.banner.tags
          /\ LET new == PushedKeys(p.banner, written) IN
             cache' = [k \in DOMAIN cache \cup new |->
                         IF k \in new THEN p.banner ELSE cache[k]]
    /\ pushes' = pushes \ {p}
    /\ UNCHANGED <<db, rd, reads, writes>>

(* CreateBanner, UpdateBanner, DeleteBanner and RestoreVersion go to the   *)
(* store without any cache involvement: the row under a key appears,       *)
(* changes its content or activity, or disappears.                        *)
Write(k, row) ==
    /\ writes < MaxWrites
    /\ writes' = writes + 1
    /\ db' = [db EXCEPT ![k] = row]
    /\ UNCHANGED <<cache, rd, pushes, reads>>

Next ==
    \/ \E r \in Readers, k \in Key, last \in BOOLEAN, role \in Tokens,
          valid \in BOOLEAN : Request(r, k, last, role, valid)
    \/ \E r \in Readers : CacheGet(r) \/ StoreGet(r)
    \/ \E p \in pushes : RunPush(p)
    \/ \E k \in Key, row \in Row \cup {NoRow} : Write(k, row)

Spec == Init /\ [][Next]_vars

-----------------------------------------------------------------------------
(* A request made with the user role never gets an inactive banner: the    *)
(* store read filters on is_active, and a cache hit would not (spec 9:     *)
(* the cache key has no onlyActive dimension).  It holds only while no     *)
(* admin read can put an inactive banner where a user read finds it.      *)
NoInactiveToUser ==
    \A r \in Readers :
        rd[r].role = "user" /\ rd[r].result = "ok" => rd[r].banner.active

(* A Push of a banner read under (tag, feature), with Redis healthy,       *)
(* leaves that key in the cache (spec 4.2 and 5: a miss populates the      *)
(* cache under f(tagID, featureID) for every tag of the banner).           *)
CachePopulated ==
    [][\A p \in pushes :
          p \notin pushes' /\ p.ok => p.key \in DOMAIN cache']_vars

(* Why NoInactiveToUser holds, as an inductive invariant: the Banner that *)
(* GetBanner hands to Cache.Push has no TagIds (repo/banner.go selects no *)
(* tag_id), so Push's loop sets no key and the cache stays empty; every   *)
(* user request still in flight reads with onlyActive.  A Banner that     *)
(* carried its tags would let an admin read put an inactive banner where  *)
(* a user read hits it.                                                   *)
ReadInv ==
    /\ TypeOK
    /\ DOMAIN cache = {}
    /\ \A p \in pushes : p.banner.tags = {}
    /\ \A r \in Readers : rd[r].role = "user" /\ rd[r].pc # "idle" => rd[r].only
    /\ NoInactiveToUser

=============================================================================
