--------------------------- MODULE BannerCatalog ---------------------------
(***************************************************************************)
(* What the banner repository promises its callers (spec 3 and 4.1),       *)
(* without tables: a catalogue of banners by id.  Each banner has a        *)
(* non-empty set of tags, one feature, an activity flag and a content, and *)
(* no (tag, feature) pair belongs to two banners.  Every operation is one  *)
(* atomic change of the catalogue, or none at all.                         *)
(*                                                                         *)
(* BannerStore implements this specification under the refinement mapping *)
(* BannerStore!Catalog; version history is below this level of detail.     *)
(***************************************************************************)
CONSTANTS
    Ids,        \* banner ids
    Tags,       \* tag ids
    Features,   \* feature ids
    Contents,   \* banner contents
    Null        \* no banner under an id; an absent optional field

VARIABLE banners

Banner == [tags : (SUBSET Tags) \ {{}}, feature : Features,
           active : BOOLEAN, content : Contents]

(* The (tag, feature) keys under which a banner is found.                  *)
Keys(b) == {<<t, b.feature>> : t \in b.tags}

(* Banner b may stand under id: no other banner holds one of its keys.     *)
Free(id, b) ==
    \A j \in Ids \ {id} :
        banners[j] # Null => Keys(banners[j]) \cap Keys(b) = {}

TypeOK == banners \in [Ids -> Banner \cup {Null}]

Init == banners = [id \in Ids |-> Null]

(* Only banner id changes, into banners'[id].                             *)
OnlyChanges(id) == \A j \in Ids \ {id} : banners'[j] = banners[j]

(* A new banner under an unused id, its keys free.                         *)
Create(id) ==
    /\ banners[id] = Null
    /\ banners'[id] \in Banner
    /\ Free(id, banners'[id])
    /\ OnlyChanges(id)

(* A PATCH or a restore of a live banner.  A PATCH may replace any field   *)
(* (the ones it omits keep their value), so the new banner is any banner   *)
(* whose keys are free; it stays a banner: non-empty tags, one feature.    *)
Update(id) ==
    /\ banners[id] # Null
    /\ banners'[id] \in Banner
    /\ Free(id, banners'[id])
    /\ OnlyChanges(id)

Delete(id) ==
    /\ banners[id] # Null
    /\ banners'[id] = Null
    /\ OnlyChanges(id)

Next == \E id \in Ids : Create(id) \/ Update(id) \/ Delete(id)

Spec == Init /\ [][Next]_banners

-----------------------------------------------------------------------------
(* No (tag, feature) pair resolves to two banners (spec 3: the pair is     *)
(* unique across all mappings), so GetBanner's LIMIT 1 picks the one      *)
(* banner a key names.                                                     *)
UniqueKeys ==
    \A i, j \in Ids :
        i # j /\ banners[i] # Null /\ banners[j] # Null
            => Keys(banners[i]) \cap Keys(banners[j]) = {}

=============================================================================
