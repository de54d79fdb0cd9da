-------------------------- MODULE BannerReadProofs ---------------------------
(***************************************************************************)
(* Proofs about the read path for every number of request handlers, tags, *)
(* features, contents and bounds: the type invariant and NoInactiveToUser, *)
(* through the inductive invariant ReadInv (the cache stays empty because  *)
(* the banner GetBanner pushes carries no tags).                          *)
(***************************************************************************)
EXTENDS BannerRead, TLAPS

USE ReadAssumption

-----------------------------------------------------------------------------
(* Lemmas about the helpers of the read path.                              *)

(* The zero Banner and the placeholder row are values of their types.     *)
LEMMA NoBannerType == NoBanner \in Banner /\ NoRow \in Row \cup {NoRow}
  BY DEF NoBanner, Banner, NoRow, Row

(* The Banner the store query builds from a row is a Banner, with the     *)
(* row's activity and no tags.                                             *)
LEMMA StoreBannerFacts ==
  ASSUME TypeOK, NEW k \in Key
  PROVE  /\ StoreBanner(k) \in Banner
         /\ StoreBanner(k).active = db[k].active
         /\ StoreBanner(k).tags = {}
<1>1. db[k] \in Row \cup {NoRow}
  BY DEF TypeOK
<1>2. db[k].content \in Contents \cup {Null} /\ db[k].active \in BOOLEAN
  <2>1. CASE db[k] \in Row
    BY <2>1 DEF Row
  <2>2. CASE db[k] = NoRow
    BY <2>2 DEF NoRow
  <2>3. QED
    BY <1>1, <2>1, <2>2
<1>3. QED
  BY <1>2 DEF StoreBanner, Banner

(* A banner read with onlyActive is active.                                *)
LEMMA FoundActive ==
  ASSUME TypeOK, NEW k \in Key, Found(k, TRUE)
  PROVE  StoreBanner(k).active
  BY StoreBannerFacts DEF Found

(* A handler finishing its request: its pc, result and banner set, the   *)
(* rest of it and the other handlers left alone.                          *)
LEMMA FinishFacts ==
  ASSUME TypeOK, NEW r \in Readers, NEW res \in Result, NEW b \in Banner,
         rd' = [rd EXCEPT ![r].pc = "idle", ![r].result = res,
                          ![r].banner = b]
  PROVE  /\ rd' \in [Readers -> Handler]
         /\ rd'[r].pc = "idle" /\ rd'[r].result = res /\ rd'[r].banner = b
         /\ rd'[r].role = rd[r].role
         /\ \A s \in Readers : s # r => rd'[s] = rd[s]
<1>1. rd[r] \in Handler
  BY DEF TypeOK
<1> DEFINE e == [rd[r] EXCEPT !.pc = "idle", !.result = res, !.banner = b]
<1>2. e \in Handler /\ e.pc = "idle" /\ e.result = res /\ e.banner = b
  BY <1>1 DEF Handler
<1>3. rd' = [rd EXCEPT ![r] = e]
  BY DEF TypeOK
<1>4. QED
  BY <1>2, <1>3 DEF TypeOK

(* Cache.Push of a banner without tags writes no key.                      *)
LEMMA PushedKeysEmpty ==
  ASSUME NEW b, NEW written \in SUBSET b.tags, b.tags = {}
  PROVE  PushedKeys(b, written) = {}
  BY DEF PushedKeys

-----------------------------------------------------------------------------
(* ReadInv holds initially and is preserved by every action.               *)

LEMMA InitReadInv == Init => ReadInv
<1> SUFFICES ASSUME Init PROVE ReadInv
  OBVIOUS
<1>1. (CHOOSE k \in Key : TRUE) \in Key
  <2>1. PICK t \in Tags, f \in Features : TRUE
    OBVIOUS
  <2>2. <<t, f>> \in Key
    BY <2>1 DEF Key
  <2>3. QED
    BY <2>2
<1>2. rd \in [Readers -> Handler]
  BY <1>1, NoBannerType DEF Init, Handler, Tokens, Roles, Result
<1>3. db \in [Key -> Row \cup {NoRow}]
  BY NoBannerType DEF Init
<1>4. TypeOK
  BY <1>2, <1>3 DEF Init, TypeOK
<1>5. QED
  BY <1>4 DEF Init, ReadInv, NoInactiveToUser

(* GetBannerForUser.Handle: either an early return (400, 401 or 403),    *)
(* the handler staying idle, or a read started with onlyActive set for    *)
(* exactly the user role.                                                 *)
LEMMA RequestReadInv ==
  ASSUME ReadInv, NEW r \in Readers, NEW k \in Key, NEW last \in BOOLEAN,
         NEW role \in Tokens, NEW valid \in BOOLEAN,
         Request(r, k, last, role, valid)
  PROVE  ReadInv'
<1> USE DEF ReadInv
<1>1. rd[r] \in Handler /\ rd[r].pc = "idle"
  BY DEF TypeOK, Request
<1> DEFINE rej == Rejection(valid, role, last)
<1>0. rej \in Result
  BY DEF Rejection, Result
<1>2. CASE rej # "none"
  <2> DEFINE h == [rd[r] EXCEPT !.key = k, !.last = last, !.role = role,
                                !.result = rej, !.banner = NoBanner]
  <2>1. rd' = [rd EXCEPT ![r] = h]
    BY <1>2 DEF Request
  <2>2. h \in Handler /\ h.pc = "idle" /\ h.result # "ok"
    <3>1. rej # "ok"
      BY DEF Rejection
    <3>2. QED
      BY <1>0, <1>1, <3>1, NoBannerType DEF Handler, Tokens
  <2>3. rd' \in [Readers -> Handler]
    BY <2>1, <2>2 DEF TypeOK
  <2>4. \A s \in Readers : s # r => rd'[s] = rd[s]
    BY <2>1 DEF TypeOK
  <2>5. rd'[r] = h
    BY <2>1 DEF TypeOK
  <2>6. TypeOK'
    BY <2>3 DEF Request, TypeOK
  <2>7. \A s \in Readers : rd'[s].role = "user" /\ rd'[s].pc # "idle" => rd'[s].only
    BY <2>2, <2>4, <2>5
  <2>8. NoInactiveToUser'
    BY <2>2, <2>4, <2>5 DEF NoInactiveToUser
  <2>9. QED
    BY <2>6, <2>7, <2>8 DEF Request
<1>3. CASE rej = "none"
  <2> DEFINE h == [pc |-> IF last THEN "store" ELSE "cache", key |-> k,
                   last |-> last, role |-> role, only |-> role = "user",
                   result |-> "none", banner |-> NoBanner]
  <2>1. rd' = [rd EXCEPT ![r] = h]
    BY <1>3 DEF Request
  <2>2. h \in Handler /\ h.result = "none" /\ (h.role = "user" => h.only)
    BY NoBannerType DEF Handler, Tokens, Result
  <2>3. rd' \in [Readers -> Handler]
    BY <2>1, <2>2 DEF TypeOK
  <2>4. \A s \in Readers : s # r => rd'[s] = rd[s]
    BY <2>1 DEF TypeOK
  <2>5. rd'[r] = h
    BY <2>1 DEF TypeOK
  <2>6. TypeOK'
    BY <2>3 DEF Request, TypeOK
  <2>7. \A s \in Readers : rd'[s].role = "user" /\ rd'[s].pc # "idle" => rd'[s].only
    BY <2>2, <2>4, <2>5
  <2>8. NoInactiveToUser'
    BY <2>2, <2>4, <2>5 DEF NoInactiveToUser
  <2>9. QED
    BY <2>6, <2>7, <2>8 DEF Request
<1>4. QED
  BY <1>2, <1>3

(* Cache.Get: the cache is empty, so it misses and the read goes on to   *)
(* the store with the same onlyActive.                                     *)
LEMMA CacheGetReadInv ==
  ASSUME ReadInv, NEW r \in Readers, CacheGet(r)
  PROVE  ReadInv'
<1> USE DEF ReadInv
<1>1. rd' = [rd EXCEPT ![r].pc = "store"]
  BY DEF CacheGet
<1>2. rd' \in [Readers -> Handler]
  BY <1>1 DEF TypeOK, Handler
<1>3. TypeOK'
  BY <1>2 DEF CacheGet, TypeOK
<1>4. QED
  BY <1>1, <1>3 DEF CacheGet, TypeOK, NoInactiveToUser

(* The store read: a banner read with onlyActive is active; what is      *)
(* handed to Push has no tags.                                             *)
LEMMA StoreGetReadInv ==
  ASSUME ReadInv, NEW r \in Readers, StoreGet(r)
  PROVE  ReadInv'
<1> USE DEF ReadInv
<1> DEFINE k == rd[r].key
<1>1. k \in Key /\ rd[r].pc = "store"
  BY DEF TypeOK, Handler, StoreGet
<1>2. CASE /\ Found(k, rd[r].only)
           /\ rd' = [rd EXCEPT ![r].pc = "idle", ![r].result = "ok",
                               ![r].banner = StoreBanner(k)]
           /\ \E ok \in BOOLEAN :
                 pushes' = pushes \cup
                             {[banner |-> StoreBanner(k), key |-> k, ok |-> ok]}
  <2>1. PICK ok \in BOOLEAN :
          pushes' = pushes \cup {[banner |-> StoreBanner(k), key |-> k, ok |-> ok]}
    BY <1>2
  <2>2. rd[r].role = "user" => StoreBanner(k).active
    BY <1>1, <1>2, FoundActive DEF Found
  <2>6. StoreBanner(k) \in Banner /\ StoreBanner(k).tags = {}
    BY <1>1, StoreBannerFacts
  <2>7. rd' \in [Readers -> Handler] /\ rd'[r].result = "ok"
        /\ rd'[r].banner = StoreBanner(k) /\ \A s \in Readers : s # r => rd'[s] = rd[s]
    <3>1. rd[r] \in Handler
      BY DEF TypeOK
    <3> DEFINE e == [rd[r] EXCEPT !.pc = "idle", !.result = "ok",
                                  !.banner = StoreBanner(k)]
    <3>2. e \in Handler /\ e.result = "ok" /\ e.banner = StoreBanner(k)
      BY <2>6, <3>1 DEF Handler, Result
    <3>3. rd' = [rd EXCEPT ![r] = e]
      BY <1>2 DEF TypeOK
    <3>4. QED
      BY <3>2, <3>3 DEF TypeOK
  <2>8. pushes' \subseteq Push
    BY <1>1, <2>1, <2>6 DEF TypeOK, Push
  <2>3. TypeOK'
    BY <2>7, <2>8 DEF StoreGet, TypeOK
  <2>4. \A p \in pushes' : p.banner.tags = {}
    BY <2>1, <2>6
  <2>9. rd'[r].role = rd[r].role
    BY <1>2 DEF TypeOK, Handler
  <2>5. QED
    BY <1>2, <2>2, <2>3, <2>4, <2>7, <2>9 DEF StoreGet, TypeOK, NoInactiveToUser
<1>3. CASE /\ rd' = [rd EXCEPT ![r].pc = "idle", ![r].result = "notfound",
                               ![r].banner = NoBanner]
           /\ UNCHANGED pushes
  <2>3. rd' \in [Readers -> Handler] /\ rd'[r].result = "notfound"
        /\ \A s \in Readers : s # r => rd'[s] = rd[s]
    <3>1. TypeOK /\ "notfound" \in Result
      BY DEF Result
    <3>2. QED
      BY <1>3, <3>1, NoBannerType, FinishFacts
  <2>1. TypeOK'
    BY <1>3, <2>3 DEF StoreGet, TypeOK
  <2>4. rd'[r].role = rd[r].role
    BY <1>3 DEF TypeOK
  <2>2. QED
    BY <1>3, <2>1, <2>3, <2>4 DEF StoreGet, TypeOK, NoInactiveToUser
<1>4. CASE /\ rd' = [rd EXCEPT ![r].pc = "idle", ![r].result = "error",
                               ![r].banner = NoBanner]
           /\ UNCHANGED pushes
  <2>3. rd' \in [Readers -> Handler] /\ rd'[r].result = "error"
        /\ \A s \in Readers : s # r => rd'[s] = rd[s]
    <3>1. TypeOK /\ "error" \in Result
      BY DEF Result
    <3>2. QED
      BY <1>4, <3>1, NoBannerType, FinishFacts
  <2>1. TypeOK'
    BY <1>4, <2>3 DEF StoreGet, TypeOK
  <2>4. rd'[r].role = rd[r].role
    BY <1>4 DEF TypeOK
  <2>2. QED
    BY <1>4, <2>1, <2>3, <2>4 DEF StoreGet, TypeOK, NoInactiveToUser
<1>5. QED
  BY <1>2, <1>3, <1>4 DEF StoreGet

(* A Push goroutine of a banner without tags sets no key.                  *)
LEMMA RunPushReadInv ==
  ASSUME ReadInv, NEW p \in pushes, RunPush(p)
  PROVE  ReadInv'
<1> USE DEF ReadInv
<1>1. PICK written \in SUBSET p.banner.tags :
        cache' = [k \in DOMAIN cache \cup PushedKeys(p.banner, written) |->
                    IF k \in PushedKeys(p.banner, written) THEN p.banner
                                                          ELSE cache[k]]
  BY DEF RunPush
<1>2. PushedKeys(p.banner, written) = {}
  BY PushedKeysEmpty
<1>3. DOMAIN cache' = {}
  BY <1>1, <1>2
<1>4. QED
  BY <1>3 DEF RunPush, TypeOK, NoInactiveToUser

(* A management write changes one row of the store and nothing the read  *)
(* path holds.                                                             *)
LEMMA WriteReadInv ==
  ASSUME ReadInv, NEW k \in Key, NEW row \in Row \cup {NoRow}, Write(k, row)
  PROVE  ReadInv'
  BY DEF ReadInv, Write, TypeOK, NoInactiveToUser

LEMMA NextReadInv == ReadInv /\ [Next]_vars => ReadInv'
<1> SUFFICES ASSUME ReadInv, [Next]_vars PROVE ReadInv'
  OBVIOUS
<1>1. CASE \E r \in Readers, k \in Key, last \in BOOLEAN, role \in Tokens,
             valid \in BOOLEAN : Request(r, k, last, role, valid)
  BY <1>1, RequestReadInv
<1>2. CASE \E r \in Readers : CacheGet(r) \/ StoreGet(r)
  BY <1>2, CacheGetReadInv, StoreGetReadInv
<1>3. CASE \E p \in pushes : RunPush(p)
  BY <1>3, RunPushReadInv
<1>4. CASE \E k \in Key, row \in Row \cup {NoRow} : Write(k, row)
  BY <1>4, WriteReadInv
<1>5. CASE UNCHANGED vars
  BY <1>5 DEF vars, ReadInv, TypeOK, NoInactiveToUser
<1>6. QED
  BY <1>1, <1>2, <1>3, <1>4, <1>5 DEF Next

-----------------------------------------------------------------------------
(* The read path's state keeps the cache empty, the pushes tagless and    *)
(* every user read in flight filtered on is_active, in every reachable    *)
(* state.                                                                  *)
THEOREM ReadInvInvariant == Spec => []ReadInv
  BY InitReadInv, NextReadInv, PTL DEF Spec

(* The store rows, cache entries, handlers and Push goroutines of the     *)
(* read path keep their types.                                             *)
THEOREM ReadTypeCorrect == Spec => []TypeOK
  BY ReadInvInvariant, PTL DEF ReadInv

(* GET /user_banner with the user role never answers with an inactive     *)
(* banner, whatever the interleaving of reads, pushes and management      *)
(* writes.                                                                 *)
THEOREM NoInactiveToUserSafe == Spec => []NoInactiveToUser
  BY ReadInvInvariant, PTL DEF ReadInv

=============================================================================
