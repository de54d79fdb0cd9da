------------------------ MODULE BannerStoreRefinement ------------------------
(***************************************************************************)
(* Proof that the repository implements the catalogue of BannerCatalog     *)
(* under the mapping Catalog, for every value of the constants.  The step  *)
(* argument needs RefInv: StoreInv, the unique index across banners and a  *)
(* content for every live banner.                                          *)
(***************************************************************************)
EXTENDS BannerStoreProofs

USE StoreAssumption

-----------------------------------------------------------------------------
(* Lemmas about the mapping.                                               *)

(* A banner read from the rows of one id: a live banner whose rows agree  *)
(* on feature and activity is a catalogue banner, and its keys are the    *)
(* (tag, feature) pairs of its rows.                                       *)
LEMMA BannerOfLive ==
  ASSUME NEW c \in Contents, NEW own \in SUBSET Mapping, own # {},
         \A m1, m2 \in own : m1.feature = m2.feature /\ m1.active = m2.active
  PROVE  /\ BannerOf(TRUE, c, own) \in Cat!Banner
         /\ BannerOf(TRUE, c, own) # Null
         /\ Cat!Keys(BannerOf(TRUE, c, own)) = {<<m.tag, m.feature>> : m \in own}
<1> DEFINE one == CHOOSE m \in own : TRUE
           b == [tags |-> {m.tag : m \in own}, feature |-> one.feature,
                 active |-> one.active, content |-> c]
<1>1. BannerOf(TRUE, c, own) = b
  BY DEF BannerOf
<1>2. one \in own
  OBVIOUS
<1>3. b \in Cat!Banner
  BY <1>2 DEF Mapping, Cat!Banner
<1>4. b # Null
  BY <1>2 DEF Mapping
<1>5. Cat!Keys(b) = {<<m.tag, m.feature>> : m \in own}
  BY <1>2 DEF Cat!Keys
<1>6. QED
  BY <1>1, <1>3, <1>4, <1>5

(* The entry of the mapping for one id, before and after a step.           *)
LEMMA CatalogEntry ==
  ASSUME NEW id \in Ids
  PROVE  /\ Catalog[id] = BannerOf(id \in rows, content[id], MappingsOf(id))
         /\ Catalog'[id] = BannerOf(id \in rows', content'[id], MappingsOf(id)')
  BY DEF Catalog

(* Under RefInv a live id maps to a catalogue banner whose keys are the    *)
(* keys of its mapping rows; a dead one maps to Null.                      *)
LEMMA CatalogLive ==
  ASSUME RefInv, NEW id \in Ids
  PROVE  /\ id \in rows =>
              /\ Catalog[id] \in Cat!Banner /\ Catalog[id] # Null
              /\ Cat!Keys(Catalog[id]) =
                   {<<m.tag, m.feature>> : m \in MappingsOf(id)}
         /\ id \notin rows => Catalog[id] = Null
<1>1. ASSUME id \in rows
      PROVE  /\ Catalog[id] \in Cat!Banner /\ Catalog[id] # Null
             /\ Cat!Keys(Catalog[id]) =
                  {<<m.tag, m.feature>> : m \in MappingsOf(id)}
  <2>1. /\ content[id] \in Contents
        /\ MappingsOf(id) \in SUBSET Mapping
        /\ MappingsOf(id) # {}
        /\ \A m1, m2 \in MappingsOf(id) :
              m1.feature = m2.feature /\ m1.active = m2.active
    BY <1>1 DEF RefInv, LiveContent, StoreInv, TypeOK, MappingsConsistent,
                MappingsOf
  <2>2. Catalog[id] = BannerOf(TRUE, content[id], MappingsOf(id))
    BY <1>1, CatalogEntry
  <2>3. QED
    BY <2>1, <2>2, BannerOfLive
<1>2. id \notin rows => Catalog[id] = Null
  BY CatalogEntry DEF BannerOf
<1>3. QED
  BY <1>1, <1>2

(* An id whose row, content and mapping rows a step leaves alone keeps its *)
(* entry in the mapping.                                                   *)
LEMMA CatalogFrame ==
  ASSUME NEW j \in Ids, (j \in rows') = (j \in rows),
         content'[j] = content[j], MappingsOf(j)' = MappingsOf(j)
  PROVE  Catalog'[j] = Catalog[j]
  BY CatalogEntry

(* The heart of the refinement: a step between two RefInv states that     *)
(* leaves every id but one alone is a Create, an Update or a Delete of     *)
(* that id, or no change of the catalogue.  The new banner's keys are      *)
(* free because the unique index keeps them from every other banner's.     *)
LEMMA ChangeOne ==
  ASSUME RefInv, RefInv', NEW id \in Ids,
         \A j \in Ids \ {id} : /\ (j \in rows') = (j \in rows)
                               /\ content'[j] = content[j]
                               /\ MappingsOf(j)' = MappingsOf(j)
  PROVE  [Cat!Next]_Catalog
<1>1. Cat!OnlyChanges(id)
  BY CatalogFrame DEF Cat!OnlyChanges
<1>2. ASSUME id \in rows'
      PROVE  Catalog'[id] \in Cat!Banner /\ Cat!Free(id, Catalog'[id])
  <2>1. /\ content'[id] \in Contents
        /\ MappingsOf(id)' \in SUBSET Mapping
        /\ MappingsOf(id)' # {}
        /\ \A m1, m2 \in MappingsOf(id)' :
              m1.feature = m2.feature /\ m1.active = m2.active
    BY <1>2 DEF RefInv, LiveContent, StoreInv, TypeOK, MappingsConsistent,
                MappingsOf
  <2>2. Catalog'[id] = BannerOf(TRUE, content'[id], MappingsOf(id)')
    BY <1>2, CatalogEntry
  <2>3. /\ Catalog'[id] \in Cat!Banner
        /\ Cat!Keys(Catalog'[id]) =
             {<<m.tag, m.feature>> : m \in MappingsOf(id)'}
    BY <2>1, <2>2, BannerOfLive
  <2>4. ASSUME NEW j \in Ids \ {id}, Catalog[j] # Null
        PROVE  Cat!Keys(Catalog[j]) \cap Cat!Keys(Catalog'[id]) = {}
    <3>1. j \in rows /\ j \in rows'
      BY <2>4, CatalogLive
    <3>2. Cat!Keys(Catalog[j]) = {<<m.tag, m.feature>> : m \in MappingsOf(j)'}
      BY <3>1, CatalogLive
    <3>3. \A m1 \in MappingsOf(j)', m2 \in MappingsOf(id)' :
             ~(m1.tag = m2.tag /\ m1.feature = m2.feature)
      BY <2>4 DEF RefInv, KeysUnique, MappingsOf
    <3>4. QED
      BY <2>3, <3>2, <3>3
  <2>5. QED
    BY <2>3, <2>4 DEF Cat!Free
<1>3. CASE id \notin rows /\ id \in rows'
  <2>1. Catalog[id] = Null
    BY <1>3, CatalogLive
  <2>2. Cat!Create(id)
    BY <1>1, <1>2, <1>3, <2>1 DEF Cat!Create
  <2>3. QED
    BY <2>2 DEF Cat!Next
<1>4. CASE id \in rows /\ id \in rows'
  <2>1. Catalog[id] # Null
    BY <1>4, CatalogLive
  <2>2. Cat!Update(id)
    BY <1>1, <1>2, <1>4, <2>1 DEF Cat!Update
  <2>3. QED
    BY <2>2 DEF Cat!Next
<1>5. CASE id \in rows /\ id \notin rows'
  <2>1. Catalog[id] # Null
    BY <1>5, CatalogLive
  <2>2. Catalog'[id] = Null
    BY <1>5, CatalogEntry DEF BannerOf
  <2>3. Cat!Delete(id)
    BY <1>1, <2>1, <2>2 DEF Cat!Delete
  <2>4. QED
    BY <2>3 DEF Cat!Next
<1>6. CASE id \notin rows /\ id \notin rows'
  <2>1. Catalog'[id] = Catalog[id]
    BY <1>6, CatalogEntry DEF BannerOf
  <2>2. Catalog' = Catalog
    BY <1>1, <2>1 DEF Cat!OnlyChanges, Catalog
  <2>3. QED
    BY <2>2
<1>7. QED
  BY <1>3, <1>4, <1>5, <1>6


-----------------------------------------------------------------------------
(* RefInv is inductive: each transaction keeps the unique index and the    *)
(* content of every live banner.                                           *)

LEMMA InitRefInv == Init => RefInv
  BY InitStoreInv DEF Init, RefInv, KeysUnique, LiveContent

(* CreateBanner commits only when no new row clashes with an old one; the  *)
(* new rows all belong to the new banner.                                  *)
LEMMA CreateBannerRefInv ==
  ASSUME RefInv,
         NEW tagIDs \in (SUBSET Tags) \ {{}}, NEW f \in Features,
         NEW c \in Contents, NEW a \in BOOLEAN,
         CreateBanner(tagIDs, f, c, a)
  PROVE  (KeysUnique /\ LiveContent)'
<1> DEFINE id == nextId
           new == NewMappings(id, tagIDs, f, a)
<1>1. CASE Clash(new, mappings)
  BY <1>1 DEF CreateBanner, storeVars, RefInv, KeysUnique, LiveContent
<1>2. CASE ~Clash(new, mappings)
  <2>1. /\ rows' = rows \cup {id}
        /\ content' = [content EXCEPT ![id] = c]
        /\ mappings' = mappings \cup new
    BY <1>2 DEF CreateBanner
  <2>2. \A m \in new : m.banner = id
    BY NewMappingsFacts
  <2>3. KeysUnique'
    BY <1>2, <2>1, <2>2 DEF RefInv, KeysUnique, Clash
  <2>4. id \in Ids
    BY DEF CreateBanner
  <2>5. LiveContent'
    BY <2>1, <2>4 DEF RefInv, LiveContent, StoreInv, TypeOK
  <2>6. QED
    BY <2>3, <2>5
<1>3. QED
  BY <1>1, <1>2

(* UpdateBanner commits only without a unique violation against the other *)
(* banners' rows, and writes a present content.                            *)
LEMMA UpdateBannerRefInv ==
  ASSUME RefInv,
         NEW id \in Ids, NEW tagIDs \in SUBSET Tags,
         NEW featureID \in OptFeature, NEW c \in OptContent,
         NEW isActive \in OptBool,
         UpdateBanner(id, tagIDs, featureID, c, isActive)
  PROVE  (KeysUnique /\ LiveContent)'
<1> DEFINE sc == c # Null
           sm == tagIDs # {} \/ featureID # Null \/ isActive # Null
           new(r) == MappingsAfter(id, tagIDs, r)
           out(r, t) == UpdateOutcome(id, tagIDs, sc, sm, new(r), t)
<1>1. PICK r \in Resolutions(id, featureID, isActive),
           t \in FirstTags(tagIDs) :
        IF out(r, t) # "ok" THEN UNCHANGED storeVars
        ELSE /\ content' = IF sc THEN [content EXCEPT ![id] = c] ELSE content
             /\ mappings' = IF sm THEN (mappings \ MappingsOf(id)) \cup new(r)
                                  ELSE mappings
             /\ UNCHANGED rows
  BY DEF UpdateBanner
<1>2. CASE out(r, t) # "ok"
  BY <1>1, <1>2 DEF storeVars, RefInv, KeysUnique, LiveContent
<1>3. CASE out(r, t) = "ok"
  <2>1. ~(sm /\ Clash(new(r), mappings \ MappingsOf(id)))
    BY <1>3, UpdateOutcomeOk
  <2>2. \A m \in new(r) : m.banner = id
    BY MappingsAfterFacts
  <2>3. KeysUnique'
    <3>1. CASE sm
      BY <1>1, <1>3, <2>1, <2>2, <3>1 DEF RefInv, KeysUnique, Clash, MappingsOf
    <3>2. CASE ~sm
      BY <1>1, <1>3, <3>2 DEF RefInv, KeysUnique
    <3>3. QED
      BY <3>1, <3>2
  <2>4. LiveContent'
    BY <1>1, <1>3 DEF RefInv, LiveContent, StoreInv, TypeOK, OptContent
  <2>5. QED
    BY <2>3, <2>4
<1>4. QED
  BY <1>2, <1>3

(* DeleteBanner only removes rows.                                         *)
LEMMA DeleteBannerRefInv ==
  ASSUME RefInv, NEW id \in Ids, DeleteBanner(id)
  PROVE  (KeysUnique /\ LiveContent)'
<1>1. CASE id \in rows
  <2>1. /\ rows' = rows \ {id}
        /\ content' = [content EXCEPT ![id] = NoContent]
        /\ mappings' = mappings \ MappingsOf(id)
    BY <1>1 DEF DeleteBanner
  <2>2. QED
    BY <2>1 DEF RefInv, KeysUnique, LiveContent, StoreInv, TypeOK
<1>2. CASE id \notin rows
  BY <1>2 DEF DeleteBanner, RefInv, KeysUnique, LiveContent
<1>3. QED
  BY <1>1, <1>2

(* RestoreVersion writes back a content a history row recorded.           *)
LEMMA RestoreVersionRefInv ==
  ASSUME RefInv, NEW id \in Ids, NEW key \in Keys, RestoreVersion(id, key)
  PROVE  (KeysUnique /\ LiveContent)'
<1> DEFINE matched == {h \in history : MatchesKey(h, id, key)}
<1>1. rows' = rows /\ mappings' = mappings
  BY DEF RestoreVersion
<1>2. CASE matched = {}
  BY <1>1, <1>2 DEF RestoreVersion, RefInv, KeysUnique, LiveContent
<1>3. CASE matched # {}
  <2>1. PICK h \in matched :
          content' = IF id \in rows THEN [content EXCEPT ![id] = h.content]
                                    ELSE content
    BY <1>3 DEF RestoreVersion
  <2>2. h.content \in Contents
    BY DEF RefInv, StoreInv, TypeOK, HistoryRow
  <2>3. QED
    BY <1>1, <2>1, <2>2 DEF RefInv, KeysUnique, LiveContent, StoreInv, TypeOK
<1>4. QED
  BY <1>2, <1>3

LEMMA NextRefInv == RefInv /\ [Next]_vars => RefInv'
<1> SUFFICES ASSUME RefInv, [Next]_vars PROVE RefInv'
  OBVIOUS
<1>1. StoreInv'
  BY NextStoreInv DEF RefInv
<1>2. (KeysUnique /\ LiveContent)'
  <2>1. CASE \E tagIDs \in (SUBSET Tags) \ {{}}, f \in Features,
               c \in Contents, a \in BOOLEAN : CreateBanner(tagIDs, f, c, a)
    BY <2>1, CreateBannerRefInv
  <2>2. CASE \E id \in Ids, tagIDs \in SUBSET Tags, f \in OptFeature,
               c \in OptContent, a \in OptBool :
               UpdateBanner(id, tagIDs, f, c, a)
    BY <2>2, UpdateBannerRefInv
  <2>3. CASE \E id \in Ids : DeleteBanner(id)
    BY <2>3, DeleteBannerRefInv
  <2>4. CASE \E id \in Ids, key \in Keys : RestoreVersion(id, key)
    BY <2>4, RestoreVersionRefInv
  <2>5. CASE Tick \/ UNCHANGED vars
    BY <2>5 DEF Tick, vars, RefInv, KeysUnique, LiveContent
  <2>6. QED
    BY <2>1, <2>2, <2>3, <2>4, <2>5 DEF Next
<1>3. QED
  BY <1>1, <1>2 DEF RefInv


-----------------------------------------------------------------------------
(* Each transaction is a catalogue step: it touches the rows of one id at *)
(* most, and ChangeOne does the rest.                                      *)

(* A step that writes none of the three tables the mapping reads.          *)
LEMMA TablesUnchanged ==
  ASSUME UNCHANGED <<rows, content, mappings>>
  PROVE  UNCHANGED Catalog
  BY DEF Catalog, MappingsOf

LEMMA CreateBannerRefines ==
  ASSUME RefInv, RefInv',
         NEW tagIDs \in (SUBSET Tags) \ {{}}, NEW f \in Features,
         NEW c \in Contents, NEW a \in BOOLEAN,
         CreateBanner(tagIDs, f, c, a)
  PROVE  [Cat!Next]_Catalog
<1> DEFINE id == nextId
           new == NewMappings(id, tagIDs, f, a)
<1>1. CASE Clash(new, mappings)
  BY <1>1, TablesUnchanged DEF CreateBanner, storeVars
<1>2. CASE ~Clash(new, mappings)
  <2>1. /\ id \in Ids
        /\ rows' = rows \cup {id}
        /\ content' = [content EXCEPT ![id] = c]
        /\ mappings' = mappings \cup new
    BY <1>2 DEF CreateBanner
  <2>2. \A m \in new : m.banner = id
    BY NewMappingsFacts
  <2>3. \A j \in Ids \ {id} : /\ (j \in rows') = (j \in rows)
                              /\ content'[j] = content[j]
                              /\ MappingsOf(j)' = MappingsOf(j)
    BY <2>1, <2>2 DEF MappingsOf
  <2>4. QED
    BY <2>1, <2>3, ChangeOne
<1>3. QED
  BY <1>1, <1>2

LEMMA UpdateBannerRefines ==
  ASSUME RefInv, RefInv',
         NEW id \in Ids, NEW tagIDs \in SUBSET Tags,
         NEW featureID \in OptFeature, NEW c \in OptContent,
         NEW isActive \in OptBool,
         UpdateBanner(id, tagIDs, featureID, c, isActive)
  PROVE  [Cat!Next]_Catalog
<1> DEFINE sc == c # Null
           sm == tagIDs # {} \/ featureID # Null \/ isActive # Null
           new(r) == MappingsAfter(id, tagIDs, r)
           out(r, t) == UpdateOutcome(id, tagIDs, sc, sm, new(r), t)
<1>1. PICK r \in Resolutions(id, featureID, isActive),
           t \in FirstTags(tagIDs) :
        IF out(r, t) # "ok" THEN UNCHANGED storeVars
        ELSE /\ content' = IF sc THEN [content EXCEPT ![id] = c] ELSE content
             /\ mappings' = IF sm THEN (mappings \ MappingsOf(id)) \cup new(r)
                                  ELSE mappings
             /\ UNCHANGED rows
  BY DEF UpdateBanner
<1>2. CASE out(r, t) # "ok"
  BY <1>1, <1>2, TablesUnchanged DEF storeVars
<1>3. CASE out(r, t) = "ok"
  <2>1. \A m \in new(r) : m.banner = id
    BY MappingsAfterFacts
  <2>2. rows' = rows
    BY <1>1, <1>3
  <2>3. \A j \in Ids \ {id} : content'[j] = content[j]
    BY <1>1, <1>3 DEF RefInv, StoreInv, TypeOK
  <2>4. \A j \in Ids \ {id} : MappingsOf(j)' = MappingsOf(j)
    <3>1. CASE sm
      BY <1>1, <1>3, <2>1, <3>1 DEF MappingsOf
    <3>2. CASE ~sm
      BY <1>1, <1>3, <3>2 DEF MappingsOf
    <3>3. QED
      BY <3>1, <3>2
  <2>5. QED
    BY <2>2, <2>3, <2>4, ChangeOne
<1>4. QED
  BY <1>2, <1>3

LEMMA DeleteBannerRefines ==
  ASSUME RefInv, RefInv', NEW id \in Ids, DeleteBanner(id)
  PROVE  [Cat!Next]_Catalog
<1>1. CASE id \in rows
  <2>1. /\ rows' = rows \ {id}
        /\ content' = [content EXCEPT ![id] = NoContent]
        /\ mappings' = mappings \ MappingsOf(id)
    BY <1>1 DEF DeleteBanner
  <2>2. \A j \in Ids \ {id} : /\ (j \in rows') = (j \in rows)
                              /\ content'[j] = content[j]
                              /\ MappingsOf(j)' = MappingsOf(j)
    BY <2>1 DEF RefInv, StoreInv, TypeOK, MappingsOf
  <2>3. QED
    BY <2>2, ChangeOne
<1>2. CASE id \notin rows
  BY <1>2, TablesUnchanged DEF DeleteBanner
<1>3. QED
  BY <1>1, <1>2

LEMMA RestoreVersionRefines ==
  ASSUME RefInv, RefInv', NEW id \in Ids, NEW key \in Keys,
         RestoreVersion(id, key)
  PROVE  [Cat!Next]_Catalog
<1> DEFINE matched == {h \in history : MatchesKey(h, id, key)}
<1>1. rows' = rows /\ mappings' = mappings
  BY DEF RestoreVersion
<1>2. CASE matched = {}
  BY <1>1, <1>2, TablesUnchanged DEF RestoreVersion
<1>3. CASE matched # {}
  <2>1. PICK h \in matched :
          content' = IF id \in rows THEN [content EXCEPT ![id] = h.content]
                                    ELSE content
    BY <1>3 DEF RestoreVersion
  <2>2. \A j \in Ids \ {id} : /\ (j \in rows') = (j \in rows)
                              /\ content'[j] = content[j]
                              /\ MappingsOf(j)' = MappingsOf(j)
    BY <1>1, <2>1 DEF RefInv, StoreInv, TypeOK, MappingsOf
  <2>3. QED
    BY <2>2, ChangeOne
<1>4. QED
  BY <1>2, <1>3

LEMMA NextRefines ==
  ASSUME RefInv, RefInv', [Next]_vars
  PROVE  [Cat!Next]_Catalog
<1>1. CASE \E tagIDs \in (SUBSET Tags) \ {{}}, f \in Features,
             c \in Contents, a \in BOOLEAN : CreateBanner(tagIDs, f, c, a)
  BY <1>1, CreateBannerRefines
<1>2. CASE \E id \in Ids, tagIDs \in SUBSET Tags, f \in OptFeature,
             c \in OptContent, a \in OptBool : UpdateBanner(id, tagIDs, f, c, a)
  BY <1>2, UpdateBannerRefines
<1>3. CASE \E id \in Ids : DeleteBanner(id)
  BY <1>3, DeleteBannerRefines
<1>4. CASE \E id \in Ids, key \in Keys : RestoreVersion(id, key)
  BY <1>4, RestoreVersionRefines
<1>5. CASE Tick \/ UNCHANGED vars
  BY <1>5, TablesUnchanged DEF Tick, vars
<1>6. QED
  BY <1>1, <1>2, <1>3, <1>4, <1>5 DEF Next

-----------------------------------------------------------------------------
(* Theorems.                                                               *)

(* Every reachable state keeps the unique index across banners and a      *)
(* content for every live banner, besides StoreInv.                        *)
THEOREM RefInvInvariant == Spec => []RefInv
  BY InitRefInv, NextRefInv, PTL DEF Spec

(* The repository implements the catalogue: from the empty tables, every  *)
(* CreateBanner, UpdateBanner, DeleteBanner and RestoreVersion            *)
(* transaction, committed or rolled back, is one atomic catalogue         *)
(* operation on one id or no change, and the unique index keeps each      *)
(* (tag, feature) pair to one banner.                                      *)
THEOREM StoreRefinesCatalog == Spec => CatalogRefined
<1>1. Init => Cat!Init
  BY DEF Init, Cat!Init, Catalog, BannerOf
<1>2. RefInv /\ RefInv' /\ [Next]_vars => [Cat!Next]_Catalog
  BY NextRefines
<1>3. QED
  BY <1>1, <1>2, RefInvInvariant, PTL DEF Spec, CatalogRefined, Cat!Spec


(* Under RefInv no two live banners of the catalogue share a key: two     *)
(* mapping rows of different banners never carry the same pair.           *)
LEMMA RefInvUniqueKeys == RefInv => Cat!UniqueKeys
<1> SUFFICES ASSUME RefInv, NEW i \in Ids, NEW j \in Ids, i # j,
                    Catalog[i] # Null, Catalog[j] # Null
             PROVE  Cat!Keys(Catalog[i]) \cap Cat!Keys(Catalog[j]) = {}
  BY DEF Cat!UniqueKeys
<1>1. i \in rows /\ j \in rows
  BY CatalogLive
<1>2. /\ Cat!Keys(Catalog[i]) = {<<m.tag, m.feature>> : m \in MappingsOf(i)}
      /\ Cat!Keys(Catalog[j]) = {<<m.tag, m.feature>> : m \in MappingsOf(j)}
  BY <1>1, CatalogLive
<1>3. ASSUME NEW m1 \in MappingsOf(i), NEW m2 \in MappingsOf(j)
      PROVE  <<m1.tag, m1.feature>> # <<m2.tag, m2.feature>>
  <2>1. m1 \in mappings /\ m2 \in mappings /\ m1.banner # m2.banner
    BY DEF MappingsOf
  <2>2. ~(m1.tag = m2.tag /\ m1.feature = m2.feature)
    BY <2>1 DEF RefInv, KeysUnique
  <2>3. QED
    BY <2>2
<1>4. QED
  BY <1>2, <1>3

(* GetBanner's query under a (tag_id, feature_id) pair names at most one  *)
(* banner after any sequence of creates, updates, deletes and restores,   *)
(* for every value of the constants: the catalogue the tables represent   *)
(* keeps its keys unique.                                                  *)
THEOREM CatalogKeysUnique == Spec => []Cat!UniqueKeys
  BY RefInvInvariant, RefInvUniqueKeys, PTL

=============================================================================
