------------------------- MODULE BannerStoreProofs --------------------------
(***************************************************************************)
(* Proofs about BannerStore for every value of its constants: the type     *)
(* invariant and MappingsConsistent, through the inductive invariant       *)
(* StoreInv.                                                               *)
(***************************************************************************)
EXTENDS BannerStore, TLAPS

USE StoreAssumption

-----------------------------------------------------------------------------
(* Lemmas about the helpers of the repository.                             *)

(* The rows NewMappings builds belong to the banner, carry the given       *)
(* feature and activity, and there is one per tag.                         *)
LEMMA NewMappingsFacts ==
  ASSUME NEW id, NEW tagIDs, NEW f, NEW a
  PROVE  /\ \A m \in NewMappings(id, tagIDs, f, a) :
               m.banner = id /\ m.feature = f /\ m.active = a /\ m.tag \in tagIDs
         /\ tagIDs # {} => NewMappings(id, tagIDs, f, a) # {}
<1>1. ASSUME NEW m \in NewMappings(id, tagIDs, f, a)
      PROVE  m.banner = id /\ m.feature = f /\ m.active = a /\ m.tag \in tagIDs
  <2>1. PICK t \in tagIDs :
          m = [banner |-> id, tag |-> t, feature |-> f, active |-> a]
    BY DEF NewMappings
  <2>2. QED
    BY <2>1
<1>2. ASSUME NEW t \in tagIDs
      PROVE  NewMappings(id, tagIDs, f, a) # {}
  <2>1. [banner |-> id, tag |-> t, feature |-> f, active |-> a]
          \in NewMappings(id, tagIDs, f, a)
    BY DEF NewMappings
  <2>2. QED
    BY <2>1
<1>3. QED
  BY <1>1, <1>2

(* A resolution read from an existing mapping row, or supplied by the     *)
(* request, is a real feature and a Boolean.                               *)
LEMMA ResolutionsType ==
  ASSUME TypeOK, NEW id \in Ids,
         NEW featureID \in Features \cup {Null},
         NEW isActive \in BOOLEAN \cup {Null},
         MappingsOf(id) # {},
         NEW r \in Resolutions(id, featureID, isActive)
  PROVE  r.feature \in Features /\ r.active \in BOOLEAN
<1>1. PICK m \in MappingsOf(id) :
        r = [feature |-> IF featureID # Null THEN featureID ELSE m.feature,
             active  |-> IF isActive # Null THEN isActive ELSE m.active]
  BY DEF Resolutions
<1>2. m \in Mapping
  BY DEF TypeOK, MappingsOf
<1>3. QED
  BY <1>1, <1>2 DEF Mapping

(* The banner's rows after updateBannerMappings all carry the resolved     *)
(* feature and activity, and there are some whenever the banner had some   *)
(* or new tags were given.                                                 *)
LEMMA MappingsAfterFacts ==
  ASSUME NEW id, NEW tagIDs, NEW r
  PROVE  /\ \A m \in MappingsAfter(id, tagIDs, r) :
               m.banner = id /\ m.feature = r.feature /\ m.active = r.active
         /\ (tagIDs # {} \/ MappingsOf(id) # {}) =>
               MappingsAfter(id, tagIDs, r) # {}
<1>1. CASE tagIDs # {}
  <2>1. MappingsAfter(id, tagIDs, r) = NewMappings(id, tagIDs, r.feature, r.active)
    BY <1>1 DEF MappingsAfter
  <2>2. QED
    BY <1>1, <2>1, NewMappingsFacts
<1>2. CASE tagIDs = {}
  <2>1. MappingsAfter(id, tagIDs, r) =
          {[m EXCEPT !.feature = r.feature, !.active = r.active] :
             m \in MappingsOf(id)}
    BY <1>2 DEF MappingsAfter
  <2>2. ASSUME NEW n \in MappingsAfter(id, tagIDs, r)
        PROVE  n.banner = id /\ n.feature = r.feature /\ n.active = r.active
    <3>1. PICK m \in MappingsOf(id) :
            n = [m EXCEPT !.feature = r.feature, !.active = r.active]
      BY <2>1
    <3>2. m \in mappings /\ m.banner = id
      BY DEF MappingsOf
    <3>3. QED
      BY <3>1, <3>2
  <2>3. MappingsOf(id) # {} => MappingsAfter(id, tagIDs, r) # {}
    BY <2>1
  <2>4. QED
    BY <1>2, <2>2, <2>3
<1>3. QED
  BY <1>1, <1>2

(* UpdateBanner commits only when none of its early returns fired: no      *)
(* ErrNotFound from updateBanner, no foreign-key failure on the insert of  *)
(* new tags, and no unique violation.                                      *)
LEMMA UpdateOutcomeOk ==
  ASSUME NEW id, NEW tagIDs, NEW sc, NEW sm, NEW new, NEW first,
         UpdateOutcome(id, tagIDs, sc, sm, new, first) = "ok"
  PROVE  /\ ~(sc /\ id \notin rows)
         /\ ~(sm /\ tagIDs # {} /\ id \notin rows)
         /\ ~(sm /\ Clash(new, mappings \ MappingsOf(id)))
  BY DEF UpdateOutcome

LEMMA UpdateOutcomeType ==
  ASSUME NEW id, NEW tagIDs, NEW sc, NEW sm, NEW new, NEW first
  PROVE  UpdateOutcome(id, tagIDs, sc, sm, new, first) \in Outcome
  BY DEF UpdateOutcome, Outcome

(* With a real resolved feature, the rows updateBannerMappings writes are  *)
(* mapping rows of the table.                                              *)
LEMMA MappingsAfterType ==
  ASSUME TypeOK, NEW id \in Ids, NEW tagIDs \in SUBSET Tags,
         NEW r, r.feature \in Features, r.active \in BOOLEAN
  PROVE  MappingsAfter(id, tagIDs, r) \subseteq Mapping
<1>1. CASE tagIDs # {}
  BY <1>1 DEF MappingsAfter, NewMappings, Mapping
<1>2. CASE tagIDs = {}
  <2>1. ASSUME NEW m \in MappingsOf(id)
        PROVE  [m EXCEPT !.feature = r.feature, !.active = r.active] \in Mapping
    <3>1. m \in Mapping
      BY DEF MappingsOf, TypeOK
    <3>2. QED
      BY <3>1 DEF Mapping
  <2>2. QED
    BY <1>2, <2>1 DEF MappingsAfter
<1>3. QED
  BY <1>1, <1>2

-----------------------------------------------------------------------------
LEMMA InitStoreInv == Init => StoreInv
  BY DEF Init, StoreInv, TypeOK, MappingsConsistent, NoOrphanMappings,
         FreshIds, Request, Outcome, Ids, NoContent

-----------------------------------------------------------------------------
(* One lemma per repository method: each transaction preserves StoreInv.   *)

(* CreateBanner: a fresh id gets its row and one mapping per tag, all with *)
(* the request's feature and activity, or a unique violation rolls back.   *)
LEMMA CreateBannerInv ==
  ASSUME StoreInv,
         NEW tagIDs \in (SUBSET Tags) \ {{}}, NEW f \in Features,
         NEW c \in Contents, NEW a \in BOOLEAN,
         CreateBanner(tagIDs, f, c, a)
  PROVE  StoreInv'
<1> DEFINE id == nextId
           new == NewMappings(id, tagIDs, f, a)
<1>1. id \in Ids /\ nextId' = id + 1
  BY DEF CreateBanner
<1>8. id \notin rows
  BY <1>1 DEF StoreInv, FreshIds, TypeOK, Ids
<1>2. MappingsOf(id) = {}
  BY <1>8 DEF StoreInv, NoOrphanMappings, MappingsOf
<1>3. /\ \A m \in new : m.banner = id /\ m.feature = f /\ m.active = a
                       /\ m.tag \in tagIDs
      /\ new # {}
  <2>1. tagIDs # {}
    OBVIOUS
  <2>2. QED
    BY <2>1, NewMappingsFacts DEF new
<1>4. new \subseteq Mapping
  BY <1>1, <1>3 DEF NewMappings, Mapping
<1>5. CASE Clash(new, mappings)
  <2>1. /\ UNCHANGED <<rows, content, mappings, history>>
        /\ req' = [op |-> "create", id |-> id, outcome |-> "conflict"]
    BY <1>5 DEF CreateBanner, Done, storeVars
  <2>2. UNCHANGED <<nextRow, clock>>
    BY DEF CreateBanner
  <2>3. req' \in Request
    BY <1>1, <2>1 DEF Request, Outcome
  <2>4. nextId' \in 1..(MaxBannerId + 1)
    BY <1>1 DEF Ids
  <2>5. TypeOK'
    BY <2>1, <2>2, <2>3, <2>4 DEF StoreInv, TypeOK
  <2>6. (MappingsConsistent /\ NoOrphanMappings)'
    BY <2>1 DEF StoreInv, MappingsConsistent, NoOrphanMappings, MappingsOf
  <2>7. FreshIds'
    BY <1>1, <2>1 DEF StoreInv, TypeOK, FreshIds, Ids
  <2>8. QED
    BY <2>5, <2>6, <2>7 DEF StoreInv
<1>6. CASE ~Clash(new, mappings)
  <2>1. /\ rows' = rows \cup {id}
        /\ content' = [content EXCEPT ![id] = c]
        /\ mappings' = mappings \cup new
        /\ req' = [op |-> "create", id |-> id, outcome |-> "ok"]
        /\ UNCHANGED <<history, nextRow, clock>>
    BY <1>6 DEF CreateBanner, Done
  <2>2. TypeOK'
    <3>1. req' \in Request
      BY <1>1, <2>1 DEF Request, Outcome
    <3>2. nextId' \in 1..(MaxBannerId + 1)
      BY <1>1 DEF Ids
    <3>3. content' \in [Ids -> Contents \cup {NoContent}]
      BY <1>1, <2>1 DEF StoreInv, TypeOK
    <3>4. rows' \subseteq Ids /\ mappings' \subseteq Mapping
      BY <1>1, <1>4, <2>1 DEF StoreInv, TypeOK
    <3>5. QED
      BY <2>1, <3>1, <3>2, <3>3, <3>4 DEF StoreInv, TypeOK
  <2>3. \A j \in rows' : MappingsOf(j)' = IF j = id THEN new ELSE MappingsOf(j)
    BY <1>2, <1>3, <2>1 DEF MappingsOf
  <2>4. MappingsConsistent'
    BY <1>3, <2>1, <2>3 DEF StoreInv, MappingsConsistent
  <2>5. NoOrphanMappings'
    BY <1>3, <2>1 DEF StoreInv, NoOrphanMappings
  <2>6. FreshIds'
    BY <1>1, <2>1 DEF StoreInv, TypeOK, FreshIds, Ids
  <2>7. QED
    BY <2>2, <2>4, <2>5, <2>6 DEF StoreInv
<1>7. QED
  BY <1>5, <1>6

(* UpdateBanner: on "ok" the content, a history row and the banner's       *)
(* mappings change together; any early return rolls all of it back.  The  *)
(* mappings stay consistent because an existing banner has rows to        *)
(* resolve a real feature from, and a missing one has none to touch.       *)
LEMMA UpdateBannerInv ==
  ASSUME StoreInv,
         NEW id \in Ids, NEW tagIDs \in SUBSET Tags,
         NEW featureID \in OptFeature, NEW c \in OptContent,
         NEW isActive \in OptBool,
         UpdateBanner(id, tagIDs, featureID, c, isActive)
  PROVE  StoreInv'
<1> DEFINE sc == c # Null
           sm == tagIDs # {} \/ featureID # Null \/ isActive # Null
           new(r) == MappingsAfter(id, tagIDs, r)
           out(r, t) == UpdateOutcome(id, tagIDs, sc, sm, new(r), t)
<1>1. /\ sc => nextRow \in 1..MaxHistory
      /\ nextRow' = IF sc THEN nextRow + 1 ELSE nextRow
      /\ nextId' = nextId
      /\ clock' = clock
  BY DEF UpdateBanner
<1>2. PICK r \in Resolutions(id, featureID, isActive),
           t \in FirstTags(tagIDs) :
        /\ req' = [op |-> "update", id |-> id, outcome |-> out(r, t)]
        /\ IF out(r, t) # "ok" THEN UNCHANGED storeVars
           ELSE /\ content' = IF sc THEN [content EXCEPT ![id] = c]
                                    ELSE content
                /\ history' = IF sc THEN history \cup
                                       {[banner |-> id, content |-> c,
                                         at |-> clock, row |-> nextRow]}
                                    ELSE history
                /\ mappings' = IF sm THEN (mappings \ MappingsOf(id)) \cup new(r)
                                     ELSE mappings
                /\ UNCHANGED rows
  BY DEF UpdateBanner, Done
<1>3. /\ nextRow' \in 1..(MaxHistory + 1)
      /\ req' \in Request
  <2>1. out(r, t) \in Outcome
    BY UpdateOutcomeType
  <2>2. QED
    BY <1>1, <1>2, <2>1 DEF StoreInv, TypeOK, Request, Ids
<1>4. CASE out(r, t) # "ok"
  <2>1. /\ rows' = rows /\ content' = content
        /\ mappings' = mappings /\ history' = history
    BY <1>2, <1>4 DEF storeVars
  <2>2. TypeOK'
    BY <1>1, <1>3, <2>1 DEF StoreInv, TypeOK
  <2>3. QED
    BY <1>1, <2>1, <2>2 DEF StoreInv, MappingsConsistent, NoOrphanMappings,
                            FreshIds, MappingsOf
<1>5. CASE out(r, t) = "ok"
  <2>1. /\ ~(sc /\ id \notin rows)
        /\ ~(sm /\ tagIDs # {} /\ id \notin rows)
    BY <1>5, UpdateOutcomeOk
  <2>2. /\ rows' = rows
        /\ content' = IF sc THEN [content EXCEPT ![id] = c] ELSE content
        /\ history' = IF sc THEN history \cup
                               {[banner |-> id, content |-> c,
                                 at |-> clock, row |-> nextRow]}
                            ELSE history
        /\ mappings' = IF sm THEN (mappings \ MappingsOf(id)) \cup new(r)
                             ELSE mappings
    BY <1>2, <1>5
  <2>3. content' \in [Ids -> Contents \cup {NoContent}]
    <3>1. CASE sc
      BY <2>2, <3>1 DEF StoreInv, TypeOK, OptContent
    <3>2. CASE ~sc
      BY <2>2, <3>2 DEF StoreInv, TypeOK
    <3>3. QED
      BY <3>1, <3>2
  <2>4. history' \subseteq HistoryRow
    <3>1. CASE sc
      <4>1. [banner |-> id, content |-> c, at |-> clock, row |-> nextRow]
              \in HistoryRow
        BY <1>1, <3>1 DEF StoreInv, TypeOK, OptContent, HistoryRow
      <4>2. QED
        BY <2>2, <3>1, <4>1 DEF StoreInv, TypeOK
    <3>2. CASE ~sc
      BY <2>2, <3>2 DEF StoreInv, TypeOK
    <3>3. QED
      BY <3>1, <3>2
  <2>5. ASSUME ~sm
        PROVE  /\ mappings' \subseteq Mapping
               /\ MappingsConsistent'
               /\ NoOrphanMappings'
    <3>1. mappings' = mappings
      BY <2>2, <2>5
    <3>2. QED
      BY <2>2, <3>1 DEF StoreInv, TypeOK, MappingsConsistent,
                        NoOrphanMappings, MappingsOf
  <2>6. ASSUME sm /\ id \notin rows
        PROVE  /\ mappings' \subseteq Mapping
               /\ MappingsConsistent'
               /\ NoOrphanMappings'
    <3>1. tagIDs = {}
      BY <2>1, <2>6
    <3>2. MappingsOf(id) = {}
      BY <2>6 DEF StoreInv, NoOrphanMappings, MappingsOf
    <3>3. new(r) = {}
      BY <3>1, <3>2 DEF new, MappingsAfter
    <3>4. mappings' = mappings
      BY <2>2, <2>6, <3>2, <3>3
    <3>5. QED
      BY <2>2, <3>4 DEF StoreInv, TypeOK, MappingsConsistent,
                        NoOrphanMappings, MappingsOf
  <2>7. ASSUME sm /\ id \in rows
        PROVE  /\ mappings' \subseteq Mapping
               /\ MappingsConsistent'
               /\ NoOrphanMappings'
    <3>1. MappingsOf(id) # {}
      BY <2>7 DEF StoreInv, MappingsConsistent
    <3>2. r.feature \in Features /\ r.active \in BOOLEAN
      BY <3>1, ResolutionsType DEF StoreInv, OptFeature, OptBool
    <3>3. new(r) \subseteq Mapping
      BY <3>2, MappingsAfterType DEF StoreInv
    <3>4. /\ \A m \in new(r) : m.banner = id /\ m.feature = r.feature
                               /\ m.active = r.active
          /\ new(r) # {}
      BY <3>1, MappingsAfterFacts
    <3>5. mappings' = (mappings \ MappingsOf(id)) \cup new(r)
      BY <2>2, <2>7
    <3>6. \A j \in rows : MappingsOf(j)' = IF j = id THEN new(r)
                                                     ELSE MappingsOf(j)
      BY <3>4, <3>5 DEF MappingsOf
    <3>7. mappings' \subseteq Mapping
      BY <3>3, <3>5 DEF StoreInv, TypeOK
    <3>8. MappingsConsistent'
      BY <2>2, <3>4, <3>6 DEF StoreInv, MappingsConsistent
    <3>9. NoOrphanMappings'
      BY <2>2, <2>7, <3>4, <3>5 DEF StoreInv, NoOrphanMappings
    <3>10. QED
      BY <3>7, <3>8, <3>9
  <2>8. /\ mappings' \subseteq Mapping
        /\ MappingsConsistent'
        /\ NoOrphanMappings'
    BY <2>5, <2>6, <2>7
  <2>9. TypeOK'
    BY <1>1, <1>3, <2>2, <2>3, <2>4, <2>8 DEF StoreInv, TypeOK
  <2>10. FreshIds'
    BY <1>1, <2>2 DEF StoreInv, FreshIds
  <2>11. QED
    BY <2>8, <2>9, <2>10 DEF StoreInv
<1>6. QED
  BY <1>4, <1>5
(* DeleteBanner: the banner's mappings go with its row, so every other     *)
(* banner keeps its rows and no mapping is left without a banner.          *)
LEMMA DeleteBannerInv ==
  ASSUME StoreInv, NEW id \in Ids, DeleteBanner(id)
  PROVE  StoreInv'
<1>1. /\ history' = history /\ nextId' = nextId
      /\ nextRow' = nextRow /\ clock' = clock
  BY DEF DeleteBanner
<1>2. CASE id \in rows
  <2>1. /\ rows' = rows \ {id}
        /\ content' = [content EXCEPT ![id] = NoContent]
        /\ mappings' = mappings \ MappingsOf(id)
        /\ req' = [op |-> "delete", id |-> id, outcome |-> "ok"]
    BY <1>2 DEF DeleteBanner, Done
  <2>2. TypeOK'
    BY <1>1, <2>1 DEF StoreInv, TypeOK, Request, Outcome, Ids
  <2>3. \A j \in rows' : MappingsOf(j)' = MappingsOf(j)
    BY <2>1 DEF MappingsOf
  <2>4. MappingsConsistent'
    BY <2>1, <2>3 DEF StoreInv, MappingsConsistent
  <2>5. NoOrphanMappings'
    BY <2>1 DEF StoreInv, NoOrphanMappings, MappingsOf
  <2>6. FreshIds'
    BY <1>1, <2>1 DEF StoreInv, FreshIds
  <2>7. QED
    BY <2>2, <2>4, <2>5, <2>6 DEF StoreInv
<1>3. CASE id \notin rows
  <2>1. /\ rows' = rows /\ content' = content /\ mappings' = mappings
        /\ req' = [op |-> "delete", id |-> id, outcome |-> "notfound"]
    BY <1>3 DEF DeleteBanner, Done
  <2>2. TypeOK'
    BY <1>1, <2>1 DEF StoreInv, TypeOK, Request, Outcome, Ids
  <2>3. QED
    BY <1>1, <2>1, <2>2 DEF StoreInv, MappingsConsistent, NoOrphanMappings,
                            FreshIds, MappingsOf
<1>4. QED
  BY <1>2, <1>3

(* RestoreVersion touches only history and content: it removes history     *)
(* rows and writes back the content one of them recorded.                  *)
LEMMA RestoreVersionInv ==
  ASSUME StoreInv, NEW id \in Ids, NEW key \in Keys, RestoreVersion(id, key)
  PROVE  StoreInv'
<1> DEFINE matched == {h \in history : MatchesKey(h, id, key)}
<1>1. /\ rows' = rows /\ mappings' = mappings /\ nextId' = nextId
      /\ nextRow' = nextRow /\ clock' = clock
  BY DEF RestoreVersion
<1>2. /\ history' \subseteq history
      /\ content' \in [Ids -> Contents \cup {NoContent}]
      /\ req' \in Request
  <2>1. CASE matched = {}
    <3>1. /\ history' = history /\ content' = content
          /\ req' = [op |-> "restore", id |-> id, outcome |-> "notfound"]
      BY <2>1 DEF RestoreVersion, Done, matched
    <3>2. QED
      BY <3>1 DEF StoreInv, TypeOK, Request, Outcome, Ids
  <2>2. CASE matched # {}
    <3>1. PICK h \in matched :
            /\ history' = history \ matched
            /\ content' = IF id \in rows THEN [content EXCEPT ![id] = h.content]
                                         ELSE content
            /\ req' = [op |-> "restore", id |-> id, outcome |-> "ok"]
      BY <2>2 DEF RestoreVersion, Done, matched
    <3>2. h.content \in Contents
      BY DEF StoreInv, TypeOK, HistoryRow, matched
    <3>3. QED
      BY <3>1, <3>2 DEF StoreInv, TypeOK, Request, Outcome, Ids
  <2>3. QED
    BY <2>1, <2>2
<1>3. TypeOK'
  BY <1>1, <1>2 DEF StoreInv, TypeOK
<1>4. QED
  BY <1>1, <1>3 DEF StoreInv, MappingsConsistent, NoOrphanMappings,
                    FreshIds, MappingsOf

LEMMA TickInv ==
  ASSUME StoreInv, Tick
  PROVE  StoreInv'
  BY DEF Tick, StoreInv, TypeOK, MappingsConsistent, NoOrphanMappings,
         FreshIds, MappingsOf

LEMMA StutterStoreInv ==
  ASSUME StoreInv, UNCHANGED vars
  PROVE  StoreInv'
  BY DEF vars, StoreInv, TypeOK, MappingsConsistent, NoOrphanMappings,
         FreshIds, MappingsOf

LEMMA NextStoreInv == StoreInv /\ [Next]_vars => StoreInv'
<1> SUFFICES ASSUME StoreInv, [Next]_vars PROVE StoreInv'
  OBVIOUS
<1>1. CASE \E tagIDs \in (SUBSET Tags) \ {{}}, f \in Features, c \in Contents,
             a \in BOOLEAN : CreateBanner(tagIDs, f, c, a)
  BY <1>1, CreateBannerInv
<1>2. CASE \E id \in Ids, tagIDs \in SUBSET Tags, f \in OptFeature,
             c \in OptContent, a \in OptBool : UpdateBanner(id, tagIDs, f, c, a)
  BY <1>2, UpdateBannerInv
<1>3. CASE \E id \in Ids : DeleteBanner(id)
  BY <1>3, DeleteBannerInv
<1>4. CASE \E id \in Ids, key \in Keys : RestoreVersion(id, key)
  BY <1>4, RestoreVersionInv
<1>5. CASE Tick
  BY <1>5, TickInv
<1>6. CASE UNCHANGED vars
  BY <1>6, StutterStoreInv
<1>7. QED
  BY <1>1, <1>2, <1>3, <1>4, <1>5, <1>6 DEF Next

-----------------------------------------------------------------------------
(* Theorems.                                                               *)

(* Every reachable state of the repository satisfies StoreInv: typed       *)
(* tables, consistent mappings for every banner, no orphan mapping rows,   *)
(* and banner ids below the sequence.                                      *)
THEOREM StoreInvInvariant == Spec => []StoreInv
  BY InitStoreInv, NextStoreInv, PTL DEF Spec

(* The repository's tables, sequence, history counter and clock keep      *)
(* their types under every sequence of transactions.                       *)
THEOREM StoreTypeCorrect == Spec => []TypeOK
  BY StoreInvInvariant, PTL DEF StoreInv

(* Every banner has a mapping row and all its rows agree on feature_id and *)
(* is_active, after any sequence of CreateBanner, UpdateBanner,            *)
(* DeleteBanner and RestoreVersion transactions.                           *)
THEOREM MappingsConsistentSafe == Spec => []MappingsConsistent
  BY StoreInvInvariant, PTL DEF StoreInv

=============================================================================
