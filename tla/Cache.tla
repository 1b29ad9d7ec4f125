------------------------------- MODULE Cache --------------------------------
(***************************************************************************)
(* The cache builtins of builtin/cache.go on one cache name.  A store has  *)
(* a table of entries and a map of values; the entries are guarded by one  *)
(* process-wide lock and the values by another, so every operation on both *)
(* is several critical sections, and a put or a get works on the map that  *)
(* was the store's when it looked.  Store s and map m are the s-th and     *)
(* m-th ever made.  cacheCopy is a deep copy and is left out: a stored     *)
(* value is never shared.  cache_keys and cache_stats change the state     *)
(* only by dropping expired entries.                                       *)
(***************************************************************************)
EXTENDS Integers, FiniteSets

CONSTANTS
  Threads,   (* the goroutines that call the builtins                      *)
  Keys,
  Vals,      (* what a program puts; never the null that a delete stores   *)
  MaxOps     (* calls made in all                                          *)

Ids   == 0..MaxOps   (* 0 stands for no store and for a nil map            *)
Null  == "null"
None  == "none"
Empty == [k \in Keys |-> None]

ASSUME CacheAssumption == MaxOps \in Nat /\ None \notin Vals

VARIABLES
  current,    (* the store registered under the name, or 0                  *)
  stores,     (* how many stores were made                                  *)
  entries,    (* per store and key: None, "kept", "ttl" or "expired"        *)
  vmap,       (* store.values of each store                                 *)
  maps,       (* the maps, as objects of their own                          *)
  mapCount,
  hits, misses,
  call,       (* what each thread is doing                                  *)
  ops,
  last,       (* history: what a map with atomic operations would hold      *)
  answer,     (* history: the last answer of cache_get                      *)
  counted,    (* history: answers of cache_get per store: found, not found  *)
  putInto,    (* history: stores some put looked up                         *)
  overlapped  (* history: a call was made while another was under way       *)

store == <<current, stores, entries, vmap, maps, mapCount, hits, misses>>
vars == <<store, call, ops, last, answer, counted, putInto, overlapped>>

Idle     == [op |-> "idle", s |-> 0, m |-> 0, k |-> None, v |-> None, want |-> None]
NoAnswer == [found |-> FALSE, v |-> None, want |-> None]

Init ==
  /\ current = 0 /\ stores = 0 /\ mapCount = 0
  /\ entries = [s \in Ids |-> Empty] /\ vmap = [s \in Ids |-> 0] /\ maps = [m \in Ids |-> Empty]
  /\ hits = [s \in Ids |-> 0] /\ misses = [s \in Ids |-> 0]
  /\ call = [t \in Threads |-> Idle] /\ ops = 0
  /\ last = Empty /\ answer = NoAnswer
  /\ counted = [s \in Ids |-> [found |-> 0, not |-> 0]]
  /\ putInto = {} /\ overlapped = FALSE

In(t, op) == call[t].op = op

Begin(t) ==
  /\ In(t, "idle") /\ ops < MaxOps /\ ops' = ops + 1
  /\ overlapped' = (overlapped \/ \E u \in Threads : ~In(u, "idle"))

Return(t) == call' = [call EXCEPT ![t] = Idle]

(* An operation begins by looking the store up by name.                     *)
cacheStoreByName(t, op, k, v) ==
  /\ Begin(t) /\ current # 0
  /\ call' = [call EXCEPT ![t] = [Idle EXCEPT !.op = op, !.s = current, !.k = k, !.v = v]]

CacheOpen(t) ==
  /\ Begin(t) /\ current = 0
  /\ stores' = stores + 1 /\ mapCount' = mapCount + 1
  /\ current' = stores + 1
  /\ vmap' = [vmap EXCEPT ![stores + 1] = mapCount + 1]
  /\ last' = Empty
  /\ UNCHANGED <<entries, maps, hits, misses, call, answer, counted, putInto>>

-----------------------------------------------------------------------------
(* cache_put: the value first, in the map seen now, then the entry *)

CachePut(t, k, v) ==
  /\ cacheStoreByName(t, "put", k, v)
  /\ putInto' = putInto \cup {current}
  /\ UNCHANGED <<store, last, answer, counted>>

(* cacheStoreValuesSnapshot; a closed store refuses.                        *)
PutSnapshot(t) ==
  /\ In(t, "put")
  /\ LET c == call[t] IN
     IF vmap[c.s] = 0 THEN Return(t)
     ELSE call' = [call EXCEPT ![t] = [c EXCEPT !.op = "putValue", !.m = vmap[c.s]]]
  /\ UNCHANGED <<store, ops, overlapped, last, answer, counted, putInto>>

PutValue(t) ==
  /\ In(t, "putValue")
  /\ maps' = [maps EXCEPT ![call[t].m][call[t].k] = call[t].v]
  /\ call' = [call EXCEPT ![t].op = "putEntry"]
  /\ UNCHANGED <<current, stores, entries, vmap, mapCount, hits, misses, ops, overlapped, last, answer, counted, putInto>>

(* Faulty variants of an operation carry its name and a suffix.  No         *)
(* specification uses them: they show that the properties can fail.         *)

(* The entry goes to whatever store the name stands for now.                *)
PutEntry_ByName(t) ==
  /\ In(t, "putEntry")
  /\ entries' = [entries EXCEPT ![current][call[t].k] = "kept"]
  /\ last' = [last EXCEPT ![call[t].k] = call[t].v]
  /\ Return(t)
  /\ UNCHANGED <<current, stores, vmap, maps, mapCount, hits, misses, ops, overlapped, answer, counted, putInto>>

(* A put over an entry keeps the deadline the entry had.                    *)
PutEntry_OldDeadline(t) ==
  /\ In(t, "putEntry")
  /\ LET c == call[t] IN
     /\ \E e \in {"kept", "ttl"} :
          entries' = [entries EXCEPT ![c.s][c.k] = IF @ = None THEN e ELSE @]
     /\ last' = [last EXCEPT ![c.k] = c.v]
  /\ Return(t)
  /\ UNCHANGED <<current, stores, vmap, maps, mapCount, hits, misses, ops, overlapped, answer, counted, putInto>>

PutEntry(t) ==
  /\ In(t, "putEntry")
  /\ LET c == call[t] IN
     /\ \E e \in {"kept", "ttl"} : entries' = [entries EXCEPT ![c.s][c.k] = e]
     /\ last' = [last EXCEPT ![c.k] = c.v]
  /\ Return(t)
  /\ UNCHANGED <<current, stores, vmap, maps, mapCount, hits, misses, ops, overlapped, answer, counted, putInto>>

-----------------------------------------------------------------------------
(* cache_get: the entry and the counters, then the value *)

Answer(t, f, v) ==
  /\ answer' = [found |-> f, v |-> v, want |-> call[t].want]
  /\ counted' = IF f THEN [counted EXCEPT ![call[t].s].found = @ + 1]
                ELSE [counted EXCEPT ![call[t].s].not = @ + 1]
  /\ Return(t)

CacheGet(t, k) == cacheStoreByName(t, "get", k, None) /\ UNCHANGED <<store, last, answer, counted, putInto>>

(* Found in the table or not; an expired entry is dropped.  The hit is      *)
(* counted before the value has been read.                                  *)
GetEntry(t) ==
  /\ In(t, "get")
  /\ LET c == call[t]
         e == entries[c.s][c.k]
     IN  IF e \in {"kept", "ttl"}
         THEN /\ hits' = [hits EXCEPT ![c.s] = @ + 1]
              /\ call' = [call EXCEPT ![t] = [c EXCEPT !.op = "getValue", !.want = last[c.k]]]
              /\ UNCHANGED <<entries, misses, answer, counted>>
         ELSE /\ misses' = [misses EXCEPT ![c.s] = @ + 1]
              /\ entries' = [entries EXCEPT ![c.s][c.k] = None]
              /\ answer' = [found |-> FALSE, v |-> None, want |-> last[c.k]]
              /\ counted' = [counted EXCEPT ![c.s].not = @ + 1]
              /\ Return(t)
              /\ UNCHANGED hits
  /\ UNCHANGED <<current, stores, vmap, maps, mapCount, ops, overlapped, last, putInto>>

(* The snapshot of the map; a store closed meanwhile is an error, which     *)
(* leaves the hit counted in a store nobody can reach any more.             *)
GetSnapshot(t) ==
  /\ In(t, "getValue")
  /\ LET c == call[t] IN
     IF vmap[c.s] = 0 THEN Return(t)
     ELSE call' = [call EXCEPT ![t] = [c EXCEPT !.op = "getRead", !.m = vmap[c.s]]]
  /\ UNCHANGED <<store, ops, overlapped, last, answer, counted, putInto>>

GetRead(t) ==
  /\ In(t, "getRead")
  /\ LET v == maps[call[t].m][call[t].k] IN
     IF v = None
     THEN call' = [call EXCEPT ![t].op = "getGone"] /\ UNCHANGED <<answer, counted>>
     ELSE Answer(t, TRUE, v)
  /\ UNCHANGED <<store, ops, overlapped, last, putInto>>

(* The miss is counted and the hit is left standing.                        *)
GetGone_KeepsHit(t) ==
  /\ In(t, "getGone")
  /\ entries' = [entries EXCEPT ![call[t].s][call[t].k] = None]
  /\ misses' = [misses EXCEPT ![call[t].s] = @ + 1]
  /\ Answer(t, FALSE, None)
  /\ UNCHANGED <<current, stores, vmap, maps, mapCount, hits, ops, overlapped, last, putInto>>

(* "not found": the entry is dropped and the optimistic hit becomes a miss. *)
GetGone(t) ==
  /\ In(t, "getGone")
  /\ entries' = [entries EXCEPT ![call[t].s][call[t].k] = None]
  /\ hits' = [hits EXCEPT ![call[t].s] = @ - 1]
  /\ misses' = [misses EXCEPT ![call[t].s] = @ + 1]
  /\ Answer(t, FALSE, None)
  /\ UNCHANGED <<current, stores, vmap, maps, mapCount, ops, overlapped, last, putInto>>

-----------------------------------------------------------------------------
(* cache_delete: the entry, then a null over the value *)

CacheDelete(t, k) == cacheStoreByName(t, "delete", k, None) /\ UNCHANGED <<store, last, answer, counted, putInto>>

DeleteEntry(t) ==
  /\ In(t, "delete")
  /\ LET c == call[t] IN
     IF entries[c.s][c.k] = None
     THEN Return(t) /\ UNCHANGED <<entries, last>>
     ELSE /\ entries' = [entries EXCEPT ![c.s][c.k] = None]
          /\ last' = [last EXCEPT ![c.k] = None]
          /\ call' = [call EXCEPT ![t].op = "deleteValue"]
  /\ UNCHANGED <<current, stores, vmap, maps, mapCount, hits, misses, ops, overlapped, answer, counted, putInto>>

DeleteSnapshot(t) ==
  /\ In(t, "deleteValue")
  /\ LET c == call[t] IN
     IF vmap[c.s] = 0 THEN Return(t)
     ELSE call' = [call EXCEPT ![t] = [c EXCEPT !.op = "deleteWrite", !.m = vmap[c.s]]]
  /\ UNCHANGED <<store, ops, overlapped, last, answer, counted, putInto>>

DeleteValue(t) ==
  /\ In(t, "deleteWrite")
  /\ maps' = [maps EXCEPT ![call[t].m][call[t].k] = Null]
  /\ Return(t)
  /\ UNCHANGED <<current, stores, entries, vmap, mapCount, hits, misses, ops, overlapped, last, answer, counted, putInto>>

-----------------------------------------------------------------------------
(* cache_clear, cache_close, cache_keys and cache_stats, and time *)

CacheClear(t) == cacheStoreByName(t, "clear", None, None) /\ UNCHANGED <<store, last, answer, counted, putInto>>

ClearStore(t) ==
  /\ In(t, "clear")
  /\ entries' = [entries EXCEPT ![call[t].s] = Empty]
  /\ mapCount' = mapCount + 1
  /\ vmap' = [vmap EXCEPT ![call[t].s] = mapCount + 1]
  /\ last' = IF call[t].s = current THEN Empty ELSE last
  /\ Return(t)
  /\ UNCHANGED <<current, stores, maps, hits, misses, ops, overlapped, answer, counted, putInto>>

(* The name is forgotten first, the store emptied in a second section.      *)
CacheClose(t) ==
  /\ cacheStoreByName(t, "close", None, None)
  /\ current' = 0 /\ last' = Empty
  /\ UNCHANGED <<stores, entries, vmap, maps, mapCount, hits, misses, answer, counted, putInto>>

CloseStore(t) ==
  /\ In(t, "close")
  /\ entries' = [entries EXCEPT ![call[t].s] = Empty]
  /\ vmap' = [vmap EXCEPT ![call[t].s] = 0]
  /\ Return(t)
  /\ UNCHANGED <<current, stores, maps, mapCount, hits, misses, ops, overlapped, last, answer, counted, putInto>>

CacheKeys(t) ==
  /\ cacheStoreByName(t, "keys", None, None)
  /\ UNCHANGED <<store, last, answer, counted, putInto>>

cacheCleanupExpiredLocked(t) ==
  /\ In(t, "keys")
  /\ entries' = [entries EXCEPT ![call[t].s] =
                   [k \in Keys |-> IF @[k] = "expired" THEN None ELSE @[k]]]
  /\ Return(t)
  /\ UNCHANGED <<current, stores, vmap, maps, mapCount, hits, misses, ops, overlapped, last, answer, counted, putInto>>

(* A deadline passes.                                                       *)
Expire ==
  \E s \in Ids, k \in Keys :
    /\ entries[s][k] = "ttl"
    /\ entries' = [entries EXCEPT ![s][k] = "expired"]
    /\ last' = IF s = current THEN [last EXCEPT ![k] = None] ELSE last
    /\ UNCHANGED <<current, stores, vmap, maps, mapCount, hits, misses, call, ops, overlapped, answer, counted, putInto>>

-----------------------------------------------------------------------------
Steps(t) ==
  \/ PutSnapshot(t) \/ PutValue(t) \/ PutEntry(t)
  \/ GetEntry(t) \/ GetSnapshot(t) \/ GetRead(t) \/ GetGone(t)
  \/ DeleteEntry(t) \/ DeleteSnapshot(t) \/ DeleteValue(t)
  \/ ClearStore(t) \/ CloseStore(t) \/ cacheCleanupExpiredLocked(t)

Calls(t) ==
  \/ CacheOpen(t) \/ CacheClear(t) \/ CacheClose(t) \/ CacheKeys(t)
  \/ \E k \in Keys : \/ CacheGet(t, k) \/ CacheDelete(t, k)
                     \/ \E v \in Vals : CachePut(t, k, v)

Next == Expire \/ \E t \in Threads : Calls(t) \/ Steps(t)

Spec == Init /\ [][Next]_vars

-----------------------------------------------------------------------------
(* Properties *)

(* Hits and misses of an open cache add up to the answers given: every get  *)
(* counts once, as what it answered, however it raced a put, a clear or a   *)
(* delete, apart from gets that counted their hit and are still reading.    *)
StatsExact ==
  current # 0 =>
    LET under == {t \in Threads : call[t].s = current /\ call[t].op \in {"getValue", "getRead", "getGone"}}
    IN  /\ hits[current] = counted[current].found + Cardinality(under)
        /\ misses[current] = counted[current].not

(* A put that was under way when the cache was closed leaves nothing in the *)
(* cache opened afterwards under the same name.                             *)
OldPutsStayOut ==
  \A s \in 1..stores, k \in Keys : entries[s][k] # None => s \in putInto

(* As long as no two calls have overlapped the builtins are a map,          *)
(* whichever goroutines call them: cache_get finds what was last put unless *)
(* it was deleted, cleared, closed away or has expired.                     *)
ReadsLastPut ==
  ~overlapped => answer.found = (answer.want # None) /\ (answer.found => answer.v = answer.want)

(* "A value comes back as it went in": what cache_get finds was put.        *)
FoundWasPut == answer.found => answer.v \in Vals
=============================================================================
