---------------------------- MODULE VersionCache ----------------------------
(***************************************************************************)
(* Calculations that load a version through the cache of the process       *)
(* (RuleEngineService._resolve_target_version and _load_version_data) while *)
(* the handlers of VersionLifecycle change and publish versions.           *)
(*                                                                         *)
(* A calculation resolves its version in one query, asks the cache, loads  *)
(* what is missing in several queries, and keeps what it loaded if the     *)
(* version was PUBLISHED when it was resolved.  The queries of a load are  *)
(* two here: what a load returns is a pair of reads of the same content.   *)
(***************************************************************************)
EXTENDS VersionLifecycle, TTLCache

CONSTANT Readers    \* calculations that can run at the same time

VARIABLES
    cache,          \* _cache._store
    reader          \* what each calculation is doing, and what it has read

Loads == Contents \X Contents

cacheVars == <<vars, cache, reader>>

Reader == [at : {"idle", "get", "fields", "rest", "put", "answer"},
           version : 0..MaxVersions, status : Statuses, data : Loads]

AtRest == [at |-> "idle", version |-> 0, status |-> "DRAFT",
           data |-> <<Blank, Blank>>]

CacheInit ==
    /\ Init
    /\ cache = <<>>
    /\ reader = [c \in Readers |-> AtRest]

Proceed(c, to) == reader' = [reader EXCEPT ![c] = to]

(* Any version by its id (preview, and the version of a configuration), or *)
(* the PUBLISHED one: the status is the one found here.                    *)
Resolve(c, v) ==
    /\ reader[c] = AtRest
    /\ Proceed(c, [AtRest EXCEPT !.at = "get", !.version = v.id,
                                 !.status = v.status])
    /\ UNCHANGED <<vars, cache>>

(* Mutant: the cache is asked for the entity, not for the version.         *)
GetAny(c) ==
    /\ reader[c].at = "get"
    /\ IF cache # <<>>
       THEN Proceed(c, [reader[c] EXCEPT !.at = "answer",
                                         !.data = cache[1].value])
       ELSE Proceed(c, [reader[c] EXCEPT !.at = "fields"])
    /\ UNCHANGED <<vars, cache>>

Get(c) ==
    LET key == reader[c].version
    IN  /\ reader[c].at = "get"
        /\ IF Hit(cache, key)
           THEN Proceed(c, [reader[c] EXCEPT !.at = "answer",
                                             !.data = HitValue(cache, key)])
           ELSE Proceed(c, [reader[c] EXCEPT !.at = "fields"])
        /\ cache' = Got(cache, key)
        /\ UNCHANGED vars

(* A version that is gone has no rows left to load.                        *)
ContentOf(id) ==
    IF id \in Ids THEN (CHOOSE v \in versions : v.id = id).content ELSE Blank

ReadFields(c) ==
    /\ reader[c].at = "fields"
    /\ Proceed(c, [reader[c] EXCEPT !.at = "rest",
                       !.data = <<ContentOf(reader[c].version), Blank>>])
    /\ UNCHANGED <<vars, cache>>

ReadRest(c) ==
    /\ reader[c].at = "rest"
    /\ Proceed(c, [reader[c] EXCEPT !.at = "put",
                       !.data = <<@[1], ContentOf(reader[c].version)>>])
    /\ UNCHANGED <<vars, cache>>

(* Mutant: whatever was loaded is kept.                                    *)
KeepAny(c) ==
    /\ reader[c].at = "put"
    /\ cache' = Put(cache, reader[c].version, reader[c].data)
    /\ Proceed(c, [reader[c] EXCEPT !.at = "answer"])
    /\ UNCHANGED vars

Keep(c) ==
    /\ reader[c].at = "put"
    /\ cache' = IF reader[c].status = "PUBLISHED"
                THEN Put(cache, reader[c].version, reader[c].data)
                ELSE cache
    /\ Proceed(c, [reader[c] EXCEPT !.at = "answer"])
    /\ UNCHANGED vars

Answer(c) ==
    /\ reader[c].at = "answer"
    /\ Proceed(c, AtRest)
    /\ UNCHANGED <<vars, cache>>

Read(c) ==
    Get(c) \/ ReadFields(c) \/ ReadRest(c) \/ Keep(c) \/ Answer(c)

(* publish_version drops the entry of the version it is about to archive,  *)
(* before its transaction commits.  What calculations do between its query *)
(* and the call they could do before the query: publications are queued,   *)
(* and nothing else changes which version is PUBLISHED.                    *)
ArchiveCurrent(r) ==
    /\ ReadCurrent(r)
    /\ cache' = Invalidate(cache, req'[r].current)
    /\ UNCHANGED reader

(* Every other step of the handlers leaves the cache alone.                *)
Handle ==
    /\ Next
    /\ \A r \in Requests : req[r].at # "current" \/ req'[r] = req[r]
    /\ UNCHANGED <<cache, reader>>

Tick ==
    /\ \E i \in DOMAIN cache : ~Expired(cache[i])
    /\ cache' = Aged(cache)
    /\ UNCHANGED <<vars, reader>>

CacheNext ==
    \/ \E c \in Readers :
          \/ \E v \in versions : Resolve(c, v)
          \/ Read(c)
    \/ \E r \in Requests : ArchiveCurrent(r)
    \/ Handle
    \/ Tick

CacheSpec == CacheInit /\ [][CacheNext]_cacheVars

-----------------------------------------------------------------------------
(* Properties                                                              *)

(* All that the version was published with, and nothing that it does not   *)
(* hold: exact but for fields moved in since its publication.              *)
ReadOf(content, v) ==
    /\ v.content \ v.arrived \subseteq content
    /\ content \subseteq v.content

(* An entry is of its version as it was published, read before or after    *)
(* any publication, by a load that no writer of the DRAFT cut in two; it   *)
(* may outlive the publication of its version's successor, and may miss    *)
(* what was moved into the version, and that only.                         *)
CacheIsExact ==
    \A i \in DOMAIN cache :
        \E v \in versions : /\ v.id = cache[i].key
                            /\ \A k \in 1..2 : ReadOf(cache[i].value[k], v)

(* A calculation on a version that it found PUBLISHED or ARCHIVED answers  *)
(* from the content that version was published with, from the cache or     *)
(* not: no edit, deletion, publication or eviction in between shows.       *)
AnswersAreExact ==
    \A c \in Readers :
        reader[c].at = "answer" /\ reader[c].status # "DRAFT" =>
            \E v \in versions : /\ v.id = reader[c].version
                                /\ \A k \in 1..2 : ReadOf(reader[c].data[k], v)

(* README, "Safe by design": what is cached is immutable, so an entry is   *)
(* what a load would return now.  It is not, once a field was moved into   *)
(* the version (MCCachedBeforeMove.cfg).                                   *)
CacheIsCurrent ==
    \A i \in DOMAIN cache :
        \E v \in versions : /\ v.id = cache[i].key
                            /\ cache[i].value = <<v.content, v.content>>

(* The cache never holds more than CACHE_MAX_SIZE versions, whichever loads *)
(* end at the same time, nor two entries for one of them.                  *)
CacheIsBounded == StoreIsBounded(cache)
=============================================================================
