---------------------------- MODULE RankingCache ----------------------------
(***************************************************************************)
(* SnapshotRankingCache, the Redis cache in front of the ranking pages.    *)
(* Whoever changes the snapshots commits first and then moves the market's *)
(* revision on; a request reads revision and body at once, builds what is  *)
(* missing in several selects and saves it only under the revision it      *)
(* read.  The table page has an entry of its own, made from the body of    *)
(* the ranking page, which may itself come from the cache.                 *)
(***************************************************************************)
EXTENDS Integers, FiniteSets

CONSTANTS
    SnapshotWriters, \* processes that replace or invalidate snapshots
    PageRequests,    \* requests for a page of one date
    CacheTtl,        \* TTL_SECONDS, in ticks longer than a request takes
    LastHour,        \* bound of the clock
    MaxWrites,       \* bound: commits
    MaxOutages       \* bound: Redis calls that fail

ASSUME CacheAssumption ==
    /\ CacheTtl \in Nat \ {0} /\ {LastHour, MaxWrites, MaxOutages} \subseteq Nat

Pages == {"ranking", "table"}

VARIABLES
    hour,
    version,  \* commits so far: what the database says now
    revision, \* ranking_revision of the market
    cached,   \* entries of the date: page, revision, versions its body was built from, expiry
    writer,   \* per writer: "idle", or what of a write it has left
    request,  \* per request: where it is, the revisions it read, the body so far
    outages,
    lostAt    \* ghost: hour of the last invalidation that never reached Redis

cacheVars == <<hour, version, revision, cached, writer, request, outages, lostAt>>

NoRequest == [at |-> "idle", page |-> "ranking", ranking |-> {}, table |-> {}, body |-> {}]
Revisions == 0..MaxWrites

CacheTypeOK ==
    /\ hour \in 0..LastHour /\ {version, revision} \subseteq 0..MaxWrites
    /\ cached \subseteq [page : Pages, revision : Revisions, body : SUBSET (0..MaxWrites),
                         until : 0..(LastHour + CacheTtl)]
    /\ \A e, f \in cached : e.page = f.page => e = f
    /\ writer \in [SnapshotWriters -> {"idle", "committed", "deleting"}]
    /\ request \in [PageRequests -> [at : {"idle", "loadTable", "load", "rows", "rest", "save", "saveTable"},
                                 page : Pages,
                                 ranking : SUBSET Revisions, table : SUBSET Revisions,
                                 body : SUBSET (0..MaxWrites)]]
    /\ outages \in 0..MaxOutages /\ lostAt \subseteq 0..LastHour /\ Cardinality(lostAt) <= 1

CacheInit ==
    /\ hour = 0 /\ version = 0 /\ revision = 0 /\ cached = {}
    /\ writer = [w \in SnapshotWriters |-> "idle"] /\ request = [q \in PageRequests |-> NoRequest]
    /\ outages = 0 /\ lostAt = {}

(* A request takes less than a tick; an entry that expires is gone.        *)
HourPasses ==
    /\ hour < LastHour /\ \A q \in PageRequests : request[q].at = "idle"
    /\ hour' = hour + 1 /\ cached' = {e \in cached : e.until > hour'}
    /\ UNCHANGED <<version, revision, writer, request, outages, lostAt>>

Outage == outages < MaxOutages /\ outages' = outages + 1

-----------------------------------------------------------------------------
(* replace_day, upsert_snapshots, upsert_summary or invalidate_from.       *)
CommitWrite(w) ==
    /\ writer[w] = "idle" /\ version < MaxWrites
    /\ version' = version + 1 /\ writer' = [writer EXCEPT ![w] = "committed"]
    /\ UNCHANGED <<hour, revision, cached, request, outages, lostAt>>

(* invalidate_namespace: INCR first, which nothing outlives ...            *)
MoveRevision(w) ==
    /\ writer[w] = "committed"
    /\ revision' = revision + 1 /\ writer' = [writer EXCEPT ![w] = "deleting"]
    /\ UNCHANGED <<hour, version, cached, request, outages, lostAt>>

(* ... then the scan that deletes the date keys.                           *)
DeleteEntries(w) ==
    /\ writer[w] = "deleting"
    /\ cached' = {} /\ writer' = [writer EXCEPT ![w] = "idle"]
    /\ UNCHANGED <<hour, version, revision, request, outages, lostAt>>

(* Redis fails or the worker dies: before the INCR the write stays unheard *)
(* of, after it only the deletion is missing.                              *)
LoseInvalidation(w) ==
    /\ writer[w] # "idle" /\ Outage
    /\ lostAt' = IF writer[w] = "committed" THEN {hour} ELSE lostAt
    /\ writer' = [writer EXCEPT ![w] = "idle"]
    /\ UNCHANGED <<hour, version, revision, cached, request>>

-----------------------------------------------------------------------------
(* load: an entry counts only under the revision read together with it.    *)
Hits(page) == {e \in cached : e.page = page /\ e.revision = revision}

(* A bug: the entry is set under whatever revision holds by now.           *)
SavedAnyway(page, read, body) ==
    IF read # {}
    THEN {e \in cached : e.page # page}
         \cup {[page |-> page, revision |-> revision, body |-> body, until |-> hour + CacheTtl]}
    ELSE cached

(* save: compares the revision and sets the entry in one script.           *)
Saved(page, read, body) ==
    IF revision \in read
    THEN {e \in cached : e.page # page}
         \cup {[page |-> page, revision |-> revision, body |-> body, until |-> hour + CacheTtl]}
    ELSE cached

RequestGoes(q, fields) == request' = [request EXCEPT ![q] = fields]

Ask(q, page) ==
    /\ request[q].at = "idle"
    /\ RequestGoes(q, [NoRequest EXCEPT !.at = IF page = "table" THEN "loadTable" ELSE "load", !.page = page])
    /\ UNCHANGED <<hour, version, revision, cached, writer, outages, lostAt>>

(* ranking_table's own load: a hit answers, a miss asks ranking.           *)
LoadTable(q) ==
    /\ request[q].at = "loadTable"
    /\ RequestGoes(q, IF Hits("table") # {} THEN NoRequest
               ELSE [request[q] EXCEPT !.at = "load", !.table = {revision}])
    /\ UNCHANGED <<hour, version, revision, cached, writer, outages, lostAt>>

(* After ranking's body: the request for the ranking is over, the table's  *)
(* goes on with it.                                                        *)
WithBody(q, body) ==
    IF request[q].page = "table" THEN [request[q] EXCEPT !.at = "saveTable", !.ranking = {}, !.body = body]
                                 ELSE NoRequest

LoadRanking(q) ==
    /\ request[q].at = "load"
    /\ \/ \E e \in Hits("ranking") : RequestGoes(q, WithBody(q, e.body))
       \/ /\ Hits("ranking") = {}
          /\ RequestGoes(q, [request[q] EXCEPT !.at = "rows", !.ranking = {revision}])
    /\ UNCHANGED <<hour, version, revision, cached, writer, outages, lostAt>>

(* A load that fails leaves no revision, and nothing is saved under it.    *)
LoadUnavailable(q) ==
    /\ Outage
    /\ \/ request[q].at = "loadTable" /\ RequestGoes(q, [request[q] EXCEPT !.at = "load"])
       \/ request[q].at = "load" /\ RequestGoes(q, [request[q] EXCEPT !.at = "rows"])
    /\ UNCHANGED <<hour, version, revision, cached, writer, lostAt>>

(* dashboard_rows, in a transaction of its own; summary, changes and       *)
(* historical ranks follow in others.                                      *)
ReadDashboard(q) ==
    /\ request[q].at = "rows"
    /\ RequestGoes(q, [request[q] EXCEPT !.at = "rest", !.body = {version}])
    /\ UNCHANGED <<hour, version, revision, cached, writer, outages, lostAt>>

ReadRest(q) ==
    /\ request[q].at = "rest"
    /\ RequestGoes(q, [request[q] EXCEPT !.at = "save", !.body = @ \cup {version}])
    /\ UNCHANGED <<hour, version, revision, cached, writer, outages, lostAt>>

(* No rows or no summary of the date: 404.                                 *)
NotFound(q) ==
    /\ request[q].at = "rest" /\ RequestGoes(q, NoRequest)
    /\ UNCHANGED <<hour, version, revision, cached, writer, outages, lostAt>>

(* save, unless the date's coverage is too low or Redis does not answer.   *)
SaveRanking(q) ==
    /\ request[q].at = "save"
    /\ cached' \in {cached, Saved("ranking", request[q].ranking, request[q].body)}
    /\ RequestGoes(q, WithBody(q, request[q].body))
    /\ UNCHANGED <<hour, version, revision, writer, outages, lostAt>>

SaveTable(q) ==
    /\ request[q].at = "saveTable"
    /\ cached' \in {cached, Saved("table", request[q].table, request[q].body)}
    /\ RequestGoes(q, NoRequest)
    /\ UNCHANGED <<hour, version, revision, writer, outages, lostAt>>

CacheNext ==
    \/ HourPasses
    \/ \E w \in SnapshotWriters : CommitWrite(w) \/ MoveRevision(w) \/ DeleteEntries(w) \/ LoseInvalidation(w)
    \/ \E q \in PageRequests :
         \/ \E page \in Pages : Ask(q, page)
         \/ LoadTable(q) \/ LoadRanking(q) \/ LoadUnavailable(q) \/ ReadDashboard(q) \/ ReadRest(q) \/ NotFound(q)
         \/ SaveRanking(q) \/ SaveTable(q)

CacheSpec == CacheInit /\ [][CacheNext]_cacheVars

(***************************************************************************)
(* Properties                                                              *)
(***************************************************************************)
(* docs/research-read-performance.md: no request that began before a write *)
(* puts its old body back after the invalidation, and no body torn by a    *)
(* write is kept.  A hit is what the database says, unless its writer is   *)
(* still between commit and INCR or the invalidation never reached Redis;  *)
(* then it is stale for two lifetimes at most, not one: the table's entry  *)
(* may be made of the ranking's stale one just before that expires.        *)
HitsAreFresh ==
    \A page \in Pages : \A e \in Hits(page) :
        \/ e.body = {version}
        \/ \E w \in SnapshotWriters : writer[w] = "committed"
        \/ \E t \in lostAt : hour < t + 2 * CacheTtl
=============================================================================
