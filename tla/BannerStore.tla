---------------------------- MODULE BannerStore ----------------------------
(***************************************************************************)
(* BannerRepository (repo/banner.go): the three tables banners,            *)
(* banner_mappings and banners_history, and the transactions that change   *)
(* them.  Each repository method runs in one transaction with a deferred   *)
(* Rollback, so each is one atomic step: it commits all of its statements  *)
(* or none.  The schema is not in the repository; the model assumes the    *)
(* one the code and its tests rely on: a unique index on                   *)
(* banner_mappings(tag_id, feature_id), banner_mappings.banner_id          *)
(* referencing banners(id), and no constraint on banners_history.          *)
(***************************************************************************)
EXTENDS Naturals, FiniteSets

CONSTANTS
    Tags,           \* tag ids a request may name
    Features,       \* feature ids a request may name (positive int64s)
    Contents,       \* banner contents (opaque JSON documents)
    Null,           \* an absent optional field of a PATCH request; no banner
    MaxBannerId,    \* the banner ids the id sequence hands out
    MaxTime,        \* bound: the clock, in ticks
    TicksPerSecond, \* resolution of banners_history.updated_at
    MaxHistory      \* bound: history rows written in a run

ASSUME StoreAssumption ==
    /\ 0 \notin Features
    /\ Null \notin Features /\ Null \notin Contents /\ Null \notin BOOLEAN
    /\ Null \notin [tags : SUBSET Tags, feature : Features, active : BOOLEAN,
                    content : Contents]
    /\ MaxBannerId \in Nat
    /\ MaxTime \in Nat
    /\ TicksPerSecond \in Nat \ {0}
    /\ MaxHistory \in Nat

VARIABLES
    rows,       \* ids of the rows of `banners'
    content,    \* banners.content
    mappings,   \* the rows of banner_mappings
    history,    \* the rows of banners_history
    nextId,     \* next value of the banners id sequence
    nextRow,    \* physical identity of the next history row
    clock,      \* time.Now(), in ticks
    req         \* auxiliary: the last request and its outcome

storeVars == <<rows, content, mappings, history>>
vars == <<rows, content, mappings, history, nextId, nextRow, clock, req>>

Ids == 1..MaxBannerId
NoContent == Null
Mapping == [banner : Ids, tag : Tags, feature : Features, active : BOOLEAN]
HistoryRow == [banner : Ids, content : Contents, at : 0..MaxTime,
               row : 1..MaxHistory]
Outcome == {"ok", "notfound", "conflict", "internal"}
Request == [op : {"none", "create", "update", "delete", "restore"},
            id : Ids \cup {0}, outcome : Outcome]

TypeOK ==
    /\ rows \subseteq Ids
    /\ content \in [Ids -> Contents \cup {NoContent}]
    /\ mappings \subseteq Mapping
    /\ history \subseteq HistoryRow
    /\ nextId \in 1..(MaxBannerId + 1)
    /\ nextRow \in 1..(MaxHistory + 1)
    /\ clock \in 0..MaxTime
    /\ req \in Request

Init ==
    /\ rows = {}
    /\ content = [id \in Ids |-> NoContent]
    /\ mappings = {}
    /\ history = {}
    /\ nextId = 1
    /\ nextRow = 1
    /\ clock = 0
    /\ req = [op |-> "none", id |-> 0, outcome |-> "ok"]

-----------------------------------------------------------------------------
(* Helpers over the tables.                                                *)

MappingsOf(id) == {m \in mappings : m.banner = id}

(* Mutant of Clash: banner_mappings without the unique index on            *)
(* (tag_id, feature_id).                                                   *)
ClashNone(new, others) == FALSE

(* Some row of `others' already holds a (tag_id, feature_id) of `new':     *)
(* the unique index rejects the statement.                                 *)
Clash(new, others) ==
    \E m \in new, o \in others : m.tag = o.tag /\ m.feature = o.feature

NewMappings(id, tagIDs, featureID, isActive) ==
    {[banner |-> id, tag |-> t, feature |-> featureID, active |-> isActive] :
        t \in tagIDs}

(* ListBannerVersions scans updated_at into UnixTime with Unix(): whole    *)
(* seconds.  RestoreVersion matches updated_at = time.Unix(key, 0), so     *)
(* only a row stamped on a whole second (a tick divisible by              *)
(* TicksPerSecond) matches its key.                                        *)
VersionKey(h) == h.at \div TicksPerSecond
MatchesKey(h, id, key) == h.banner = id /\ h.at = key * TicksPerSecond
Keys == 0..(MaxTime \div TicksPerSecond)

Done(op, id, outcome) == req' = [op |-> op, id |-> id, outcome |-> outcome]

-----------------------------------------------------------------------------
(* Mutant of CreateBanner: the inserts not in one transaction, so the      *)
(* banner row survives a unique violation on its mappings.                 *)
CreateBannerNoRollback(tagIDs, featureID, c, isActive) ==
    LET id  == nextId
        new == NewMappings(id, tagIDs, featureID, isActive)
    IN
    /\ nextId \in Ids
    /\ nextId' = nextId + 1
    /\ rows' = rows \cup {id}
    /\ content' = [content EXCEPT ![id] = c]
    /\ IF Clash(new, mappings)
          THEN Done("create", id, "conflict") /\ UNCHANGED mappings
          ELSE Done("create", id, "ok") /\ mappings' = mappings \cup new
    /\ UNCHANGED <<history, nextRow, clock>>

(* CreateBanner: insertBanner takes the next id of the sequence (nextval   *)
(* is not rolled back), then one insertBannerMappings per tag; a unique    *)
(* violation returns ErrUniqueViolation and the transaction rolls back.    *)
CreateBanner(tagIDs, featureID, c, isActive) ==
    LET id  == nextId
        new == NewMappings(id, tagIDs, featureID, isActive)
    IN
    /\ nextId \in Ids
    /\ nextId' = nextId + 1
    /\ IF Clash(new, mappings)
          THEN /\ Done("create", id, "conflict")
               /\ UNCHANGED storeVars
          ELSE /\ rows' = rows \cup {id}
               /\ content' = [content EXCEPT ![id] = c]
               /\ mappings' = mappings \cup new
               /\ Done("create", id, "ok")
               /\ UNCHANGED history
    /\ UNCHANGED <<nextRow, clock>>

(* updateBannerMappings, the resolution: an unsupplied featureID or       *)
(* isActive is read from one mapping row of the banner (LIMIT 1); with no  *)
(* row, Scan leaves the zero values 0 and false.                           *)
Resolutions(id, featureID, isActive) ==
    LET read == IF MappingsOf(id) = {}
                   THEN {[feature |-> 0, active |-> FALSE]}
                   ELSE {[feature |-> m.feature, active |-> m.active] :
                            m \in MappingsOf(id)}
    IN  {[feature |-> IF featureID # Null THEN featureID ELSE r.feature,
          active  |-> IF isActive # Null THEN isActive ELSE r.active] :
            r \in read}

(* Mutant of MappingsAfter: new tags inserted without first deleting the   *)
(* banner's old rows.                                                      *)
MappingsAfterNoDelete(id, tagIDs, r) ==
    IF tagIDs # {}
       THEN MappingsOf(id) \cup NewMappings(id, tagIDs, r.feature, r.active)
       ELSE {[m EXCEPT !.feature = r.feature, !.active = r.active] :
               m \in MappingsOf(id)}

(* updateBannerMappings, the writes: non-empty tagIDs delete all rows of   *)
(* the banner and insert one per tag; otherwise its rows are UPDATEd in    *)
(* place.  The banner's rows after the statements.                         *)
MappingsAfter(id, tagIDs, r) ==
    IF tagIDs # {} THEN NewMappings(id, tagIDs, r.feature, r.active)
    ELSE {[m EXCEPT !.feature = r.feature, !.active = r.active] :
            m \in MappingsOf(id)}

(* Mutant of UpdateOutcome: banner_mappings.banner_id without the foreign  *)
(* key, so inserting mappings for a missing banner succeeds.               *)
UpdateOutcomeNoFK(id, tagIDs, setsContent, setsMappings, new, first) ==
    CASE setsContent /\ id \notin rows -> "notfound"
      [] setsMappings /\ Clash(new, mappings \ MappingsOf(id)) ->
            IF tagIDs # {} THEN "conflict" ELSE "internal"
      [] OTHER -> "ok"

(* The tag whose INSERT runs first: tagIDs keep the request's order, so   *)
(* any of them.                                                            *)
FirstTags(tagIDs) == IF tagIDs = {} THEN {Null} ELSE tagIDs

(* How UpdateBanner ends.  updateBanner affecting zero rows is             *)
(* ErrNotFound.  For a missing banner the first INSERT of a mapping fails: *)
(* the unique index is checked as the row is inserted, the foreign key by  *)
(* a trigger at the end of the statement, so a clash of that first tag is  *)
(* ErrUniqueViolation and otherwise the foreign key is a plain SQL         *)
(* failure.  A unique violation is ErrUniqueViolation on the insert path,  *)
(* but the in-place UPDATE wraps every error, a unique violation included, *)
(* as a plain SQL failure.                                                 *)
UpdateOutcome(id, tagIDs, setsContent, setsMappings, new, first) ==
    CASE setsContent /\ id \notin rows -> "notfound"
      [] setsMappings /\ tagIDs # {} /\ id \notin rows ->
            IF Clash({m \in new : m.tag = first}, mappings)
               THEN "conflict" ELSE "internal"
      [] setsMappings /\ Clash(new, mappings \ MappingsOf(id)) ->
            IF tagIDs # {} THEN "conflict" ELSE "internal"
      [] OTHER -> "ok"

(* UpdateBanner(id, tagIDs, featureID, content, isActive): content present *)
(* runs updateBanner and createBannerHistory, which records the NEW        *)
(* content at time.Now(); any mapping field present runs                   *)
(* updateBannerMappings; then Commit.  Any error rolls everything back.    *)
UpdateBanner(id, tagIDs, featureID, c, isActive) ==
    LET setsContent  == c # Null
        setsMappings == tagIDs # {} \/ featureID # Null \/ isActive # Null
    IN
    /\ setsContent => nextRow \in 1..MaxHistory
    /\ \E r \in Resolutions(id, featureID, isActive), first \in FirstTags(tagIDs) :
        LET new     == MappingsAfter(id, tagIDs, r)
            outcome == UpdateOutcome(id, tagIDs, setsContent, setsMappings,
                                     new, first)
        IN
        /\ Done("update", id, outcome)
        /\ IF outcome # "ok" THEN UNCHANGED storeVars
           ELSE /\ content' = IF setsContent
                                 THEN [content EXCEPT ![id] = c] ELSE content
                /\ history' = IF setsContent
                                 THEN history \cup
                                      {[banner |-> id, content |-> c,
                                        at |-> clock, row |-> nextRow]}
                                 ELSE history
                /\ mappings' = IF setsMappings
                                  THEN (mappings \ MappingsOf(id)) \cup new
                                  ELSE mappings
                /\ UNCHANGED rows
    /\ nextRow' = IF setsContent THEN nextRow + 1 ELSE nextRow
    /\ UNCHANGED <<nextId, clock>>

(* Mutant of DeleteBanner: the banner row deleted without first deleting  *)
(* its banner_mappings rows.                                               *)
DeleteBannerKeepMappings(id) ==
    /\ IF id \in rows
          THEN /\ rows' = rows \ {id}
               /\ content' = [content EXCEPT ![id] = NoContent]
               /\ Done("delete", id, "ok")
               /\ UNCHANGED mappings
          ELSE Done("delete", id, "notfound") /\ UNCHANGED <<rows, content, mappings>>
    /\ UNCHANGED <<history, nextId, nextRow, clock>>

(* DeleteBanner: delete the mappings, then the banner row; zero rows       *)
(* deleted is ErrNotFound and rolls back.  History rows are left alone.    *)
DeleteBanner(id) ==
    /\ IF id \in rows
          THEN /\ rows' = rows \ {id}
               /\ content' = [content EXCEPT ![id] = NoContent]
               /\ mappings' = mappings \ MappingsOf(id)
               /\ Done("delete", id, "ok")
          ELSE Done("delete", id, "notfound") /\ UNCHANGED <<rows, content, mappings>>
    /\ UNCHANGED <<history, nextId, nextRow, clock>>

(* RestoreVersion: DELETE FROM banners_history WHERE banner_id AND         *)
(* updated_at = time.Unix(key, 0) RETURNING content deletes every matching *)
(* row and scans the first; no row is ErrNotFound.  restoreBannerVersion   *)
(* then UPDATEs the banner's content without checking the rows affected.   *)
RestoreVersion(id, key) ==
    LET matched == {h \in history : MatchesKey(h, id, key)}
    IN
    /\ IF matched = {}
          THEN Done("restore", id, "notfound") /\ UNCHANGED <<history, content>>
          ELSE \E h \in matched :
                 /\ history' = history \ matched
                 /\ content' = IF id \in rows
                                  THEN [content EXCEPT ![id] = h.content]
                                  ELSE content
                 /\ Done("restore", id, "ok")
    /\ UNCHANGED <<rows, mappings, nextId, nextRow, clock>>

(* Time passes between requests.                                          *)
Tick ==
    /\ clock < MaxTime
    /\ clock' = clock + 1
    /\ UNCHANGED <<rows, content, mappings, history, nextId, nextRow, req>>

OptFeature == Features \cup {Null}
OptContent == Contents \cup {Null}
OptBool == BOOLEAN \cup {Null}

Next ==
    \/ \E tagIDs \in (SUBSET Tags) \ {{}}, f \in Features, c \in Contents,
          a \in BOOLEAN : CreateBanner(tagIDs, f, c, a)
    \/ \E id \in Ids, tagIDs \in SUBSET Tags, f \in OptFeature,
          c \in OptContent, a \in OptBool : UpdateBanner(id, tagIDs, f, c, a)
    \/ \E id \in Ids : DeleteBanner(id)
    \/ \E id \in Ids, key \in Keys : RestoreVersion(id, key)
    \/ Tick

Spec == Init /\ [][Next]_vars

-----------------------------------------------------------------------------
(* Every banner has at least one mapping row, and all its rows carry the   *)
(* same feature_id and is_active (spec 3): the tags fan out, the feature   *)
(* and the activity do not.  UpdateBanner keeps this only because it       *)
(* replaces all rows or updates all rows with one resolved pair.           *)
MappingsConsistent ==
    \A id \in rows :
        /\ MappingsOf(id) # {}
        /\ \A m1, m2 \in MappingsOf(id) :
              m1.feature = m2.feature /\ m1.active = m2.active

(* The inductive strengthening of MappingsConsistent: no mapping row       *)
(* outlives its banner, and every banner id comes from the sequence, so    *)
(* a new banner starts with no rows.  The first holds because DeleteBanner *)
(* removes a banner's mappings with it and the foreign key rejects         *)
(* mappings for a missing banner; without it, UpdateBanner could resolve   *)
(* the zero feature 0 for a banner with no mappings and write it.          *)
NoOrphanMappings == \A m \in mappings : m.banner \in rows
FreshIds == \A id \in rows : id < nextId
StoreInv == TypeOK /\ MappingsConsistent /\ NoOrphanMappings /\ FreshIds

-----------------------------------------------------------------------------
(* The refinement mapping to BannerCatalog: a banner is its row, the tags  *)
(* of its mapping rows, the feature and activity they share, and its       *)
(* content.  Which row the feature is read from does not matter while      *)
(* MappingsConsistent holds.  BannerOf takes what it reads of the tables   *)
(* as parameters, so one lemma about it speaks of both sides of a step.    *)
BannerOf(live, c, own) ==
    LET one == CHOOSE m \in own : TRUE
    IN  IF live THEN [tags |-> {m.tag : m \in own}, feature |-> one.feature,
                      active |-> one.active, content |-> c]
                ELSE Null

Catalog == [id \in Ids |-> BannerOf(id \in rows, content[id], MappingsOf(id))]

Cat == INSTANCE BannerCatalog WITH banners <- Catalog

(* The repository implements the catalogue: every transaction, committed   *)
(* or rolled back, is one whole catalogue operation or no change (spec     *)
(* 4.1: all-or-nothing, no partial write observable), and the unique      *)
(* index keeps every (tag, feature) pair to one banner.                    *)
CatalogRefined == Cat!Spec

(* What the refinement needs beyond StoreInv: the unique index holds       *)
(* across banners, and a live banner has a content (insertBanner writes    *)
(* it, DeleteBanner removes the row with it).                              *)
KeysUnique ==
    \A m1, m2 \in mappings :
        m1.banner # m2.banner => ~(m1.tag = m2.tag /\ m1.feature = m2.feature)
LiveContent == \A id \in rows : content[id] \in Contents
RefInv == StoreInv /\ KeysUnique /\ LiveContent

(* Every version ListBannerVersions lists can be restored by the key it   *)
(* reports (spec 3: "updatedAt is the identifying key for a version under  *)
(* a given bannerID").  The key is the stamp cut to whole seconds by       *)
(* UnixTime.Scan, while RestoreVersion asks for updated_at equal to        *)
(* time.Unix(key, 0): a version written at a sub-second time.Now() is      *)
(* listed and never found.                                                 *)
VersionRestorable ==
    \A h \in history :
        \E g \in history : MatchesKey(g, h.banner, VersionKey(h))

(* An UpdateBanner or a RestoreVersion of a banner that does not exist    *)
(* reports ErrNotFound (spec 4.1: "zero-row-affected on an update that     *)
(* targets a specific id is classified as NotFound").  The in-place UPDATE *)
(* of banner_mappings affects zero rows without error, and                *)
(* restoreBannerVersion ignores the rows its UPDATE affected while         *)
(* DeleteBanner leaves the banner's history behind.                        *)
MissingNotFound ==
    [][req'.op \in {"update", "restore"} /\ req'.id \notin rows
         => req'.outcome = "notfound"]_vars

(* With a healthy database, an UpdateBanner of an existing banner fails    *)
(* only with a classified error: a duplicate (tag_id, feature_id) is a     *)
(* Conflict (spec 4.1 failure semantics: "uniqueness constraint            *)
(* violations are classified as Conflict"; 6: NotFound and Conflict must   *)
(* be distinguishable).                                                    *)
UpdateFailuresClassified ==
    [][req'.op = "update" /\ req'.id \in rows => req'.outcome # "internal"]_vars

=============================================================================
