---------------------------- MODULE CacheProofs -----------------------------
(***************************************************************************)
(* Proofs about the cache builtins (module Cache) for any threads, keys,   *)
(* values and number of calls: the counters are those of the answers, a    *)
(* put of a closed cache never reaches the next one, and calls that do not *)
(* overlap see a map.                                                      *)
(***************************************************************************)
EXTENDS Cache, FiniteSetTheorems, TLAPS

GetOps  == {"getValue", "getRead", "getGone"}
PutOps  == {"put", "putValue", "putEntry"}
KeyOps  == GetOps \cup PutOps \cup {"get", "delete", "deleteValue", "deleteWrite"}
CallSet == [op : KeyOps \cup {"idle", "clear", "close", "keys"}, s : Ids, m : Nat,
            k : Keys \cup {None}, v : Vals \cup {None}, want : Vals \cup {None}]

(* A call works on a store that was made, and on a key if it is about one.  *)
CallInv ==
  /\ call \in [Threads -> CallSet]
  /\ \A t \in Threads : call[t].op # "idle" => call[t].s \in 1..stores
  /\ \A t \in Threads : call[t].op \in KeyOps => call[t].k \in Keys

TableSet == [Keys -> {None, "kept", "ttl", "expired"}]

CacheType ==
  /\ current \in 0..stores /\ stores \in 0..ops /\ ops \in 0..MaxOps /\ mapCount \in Nat
  /\ entries \in [Ids -> TableSet] /\ vmap \in [Ids -> Nat]
  /\ last \in [Keys -> Vals \cup {None}]
  /\ CallInv

(* Thread t goes on with r.                                                 *)
GoesOn(t, r) ==
  /\ r \in CallSet /\ call'[t] = r
  /\ \A u \in Threads \ {t} : call'[u] = call[u]

(* One thread goes on, the others stay.                                     *)
LEMMA OneCall ==
  ASSUME CallInv, NEW t \in Threads, NEW r \in CallSet, call' = [call EXCEPT ![t] = r],
         stores \in Nat, stores' \in Nat, stores <= stores',
         r.op # "idle" => r.s \in 1..stores', r.op \in KeyOps => r.k \in Keys
  PROVE  GoesOn(t, r) /\ CallInv'
<1>1. call' \in [Threads -> CallSet] /\ call'[t] = r /\ \A u \in Threads \ {t} : call'[u] = call[u]
  BY DEF CallInv
<1>2. ASSUME NEW u \in Threads
      PROVE  /\ call'[u].op # "idle" => call'[u].s \in 1..stores'
             /\ call'[u].op \in KeyOps => call'[u].k \in Keys
  <2>1. CASE u = t
    BY <1>1, <2>1
  <2>2. CASE u # t
    <3>1. call'[u] = call[u]
      BY <1>1, <2>2
    <3>2. /\ call[u].op # "idle" => call[u].s \in 1..stores
          /\ call[u].op \in KeyOps => call[u].k \in Keys
      BY DEF CallInv
    <3> QED BY <3>1, <3>2
  <2> QED BY <2>1, <2>2
<1> QED BY <1>1, <1>2 DEF CallInv, GoesOn

(* Idle is a call.                                                          *)
LEMMA IdleCall ==
  Idle \in CallSet /\ Idle.op = "idle"
BY CacheAssumption DEF Idle, Ids, CallSet

(* A builtin returns.                                                       *)
LEMMA ReturnCall ==
  ASSUME CallInv, NEW t \in Threads, Return(t), stores \in Nat, stores' = stores
  PROVE  GoesOn(t, Idle) /\ CallInv'
<1>1. Idle \in CallSet /\ Idle.op = "idle"
  BY IdleCall
<1>2. call' = [call EXCEPT ![t] = Idle] /\ stores <= stores'
  BY DEF Return
<1>3. Idle.op \notin KeyOps
  BY <1>1 DEF KeyOps, GetOps, PutOps
<1> HIDE DEF Idle
<1> QED BY <1>1, <1>2, <1>3, OneCall, Zenon

(* A builtin goes on to its next critical section.                          *)
LEMMA MoveCall ==
  ASSUME CacheType, NEW t \in Threads, call[t].op \in KeyOps, NEW op \in KeyOps,
         \/ call' = [call EXCEPT ![t].op = op]
         \/ call' = [call EXCEPT ![t] = [call[t] EXCEPT !.op = op, !.m = vmap[call[t].s]]]
         \/ call' = [call EXCEPT ![t] = [call[t] EXCEPT !.op = op, !.want = last[call[t].k]]],
         stores' = stores
  PROVE  /\ CallInv'
         /\ \E r \in CallSet : /\ GoesOn(t, r) /\ r.op = op /\ r.s = call[t].s
                               /\ r.k = call[t].k /\ r.v = call[t].v
<1> DEFINE c == call[t]
<1>1. c \in CallSet /\ stores \in Nat
  BY DEF CacheType, CallInv
<1>2. c.s \in 1..stores /\ c.k \in Keys /\ c.s \in Ids
  <2>1. c.op # "idle"
    BY DEF KeyOps, GetOps, PutOps
  <2>2. c.s \in 1..stores /\ c.k \in Keys
    BY <2>1 DEF CacheType, CallInv
  <2> QED BY <1>1, <2>2 DEF CallSet
<1>3. vmap[c.s] \in Nat /\ last[c.k] \in Vals \cup {None}
  BY <1>2 DEF CacheType
<1>4. PICK r \in CallSet : call' = [call EXCEPT ![t] = r] /\ r.op = op /\ r.s = c.s /\ r.k = c.k /\ r.v = c.v
  <2> HIDE DEF c
  <2> DEFINE r1 == [c EXCEPT !.op = op]
             r2 == [c EXCEPT !.op = op, !.m = vmap[c.s]]
             r3 == [c EXCEPT !.op = op, !.want = last[c.k]]
  <2>1. r1 \in CallSet /\ r1.op = op /\ r1.s = c.s /\ r1.k = c.k /\ r1.v = c.v
    BY <1>1 DEF CallSet
  <2>2. r2 \in CallSet /\ r2.op = op /\ r2.s = c.s /\ r2.k = c.k /\ r2.v = c.v
    BY <1>1, <1>3, Zenon DEF CallSet
  <2>3. r3 \in CallSet /\ r3.op = op /\ r3.s = c.s /\ r3.k = c.k /\ r3.v = c.v
    BY <1>1, <1>3, Zenon DEF CallSet
  <2>4. \E r \in {r1, r2, r3} : call' = [call EXCEPT ![t] = r]
    BY DEF c
  <2> HIDE DEF r1, r2, r3
  <2> QED BY <2>1, <2>2, <2>3, <2>4, Zenon
<1>5. CallInv /\ stores <= stores' /\ r.s \in 1..stores' /\ r.k \in Keys
  BY <1>1, <1>2, <1>4 DEF CacheType
<1>6. GoesOn(t, r) /\ CallInv'
  BY <1>1, <1>4, <1>5, OneCall, Zenon
<1> QED BY <1>4, <1>6

(* One entry of one table changes.                                          *)
LEMMA EntrySet ==
  ASSUME NEW s \in Ids, NEW k \in Keys, NEW e \in {None, "kept", "ttl", "expired"},
         entries \in [Ids -> TableSet], entries' = [entries EXCEPT ![s][k] = e]
  PROVE  /\ entries' \in [Ids -> TableSet] /\ entries'[s][k] = e
         /\ \A r \in Ids, j \in Keys : r # s \/ j # k => entries'[r][j] = entries[r][j]
         /\ \A r \in Ids : r # s => entries'[r] = entries[r]
<1>1. entries[s] \in TableSet
  OBVIOUS
<1> DEFINE T == [entries[s] EXCEPT ![k] = e]
<1>2. T \in TableSet /\ T[k] = e /\ \A j \in Keys : j # k => T[j] = entries[s][j]
  BY <1>1 DEF TableSet
<1>3. entries' = [entries EXCEPT ![s] = T]
  OBVIOUS
<1> HIDE DEF T
<1>4. entries' \in [Ids -> TableSet] /\ entries'[s] = T /\ \A r \in Ids : r # s => entries'[r] = entries[r]
  BY <1>2, <1>3, Zenon
<1> QED BY <1>2, <1>4, Zenon

(* What a step of the type's own is made of.                                *)
LEMMA CallStore ==
  ASSUME CacheType, NEW t \in Threads, call[t].op # "idle"
  PROVE  /\ call[t].s \in 1..stores /\ call[t].s \in Ids /\ call[t] \in CallSet
         /\ call[t].op \in KeyOps => call[t].k \in Keys
         /\ call[t].v \in Vals \cup {None}
<1>1. call[t].s \in 1..stores /\ call[t] \in CallSet /\ (call[t].op \in KeyOps => call[t].k \in Keys)
  BY DEF CacheType, CallInv
<1>2. call[t].s \in Ids /\ call[t].v \in Vals \cup {None}
  BY <1>1 DEF CallSet
<1> QED BY <1>1, <1>2

(* An empty table.                                                          *)
LEMMA EmptyTable ==
  /\ Empty \in TableSet /\ Empty \in [Keys -> Vals \cup {None}]
  /\ \A k \in Keys : Empty[k] = None
BY DEF Empty, TableSet

(* Every call but cache_open looks the store up; cache_close also forgets   *)
(* the name, and cache_put is remembered.                                   *)
Looks(t, op, l, w) ==
  /\ cacheStoreByName(t, op, l, w)
  /\ op \in {"put", "get", "delete"} => l \in Keys
  /\ IF op = "put" THEN w \in Vals /\ putInto' = putInto \cup {current} ELSE putInto' = putInto
  /\ IF op = "close" THEN current' = 0 /\ last' = Empty ELSE UNCHANGED <<current, last>>
  /\ UNCHANGED <<stores, entries, vmap, maps, mapCount, hits, misses, answer, counted>>

LookOps == {"put", "get", "delete", "clear", "close", "keys"}

(* That is what Calls says.                                                 *)
LEMMA CallsLook ==
  ASSUME NEW t \in Threads, Calls(t)
  PROVE  \/ CacheOpen(t)
         \/ \E op \in LookOps, l \in Keys \cup {None}, w \in Vals \cup {None} : Looks(t, op, l, w)
<1>1. CASE CacheClear(t)
  <2>1. Looks(t, "clear", None, None)
    BY <1>1 DEF CacheClear, store, Looks
  <2> QED BY <2>1 DEF LookOps
<1>2. CASE CacheClose(t)
  <2>1. Looks(t, "close", None, None)
    BY <1>2 DEF CacheClose, store, Looks
  <2> QED BY <2>1 DEF LookOps
<1>3. CASE CacheKeys(t)
  <2>1. Looks(t, "keys", None, None)
    BY <1>3 DEF CacheKeys, store, Looks
  <2> QED BY <2>1 DEF LookOps
<1>4. ASSUME NEW k \in Keys, CacheGet(t, k)
      PROVE  \E op \in LookOps, l \in Keys \cup {None}, w \in Vals \cup {None} : Looks(t, op, l, w)
  <2>1. Looks(t, "get", k, None)
    BY <1>4 DEF CacheGet, store, Looks
  <2> QED BY <2>1 DEF LookOps
<1>5. ASSUME NEW k \in Keys, CacheDelete(t, k)
      PROVE  \E op \in LookOps, l \in Keys \cup {None}, w \in Vals \cup {None} : Looks(t, op, l, w)
  <2>1. Looks(t, "delete", k, None)
    BY <1>5 DEF CacheDelete, store, Looks
  <2> QED BY <2>1 DEF LookOps
<1>6. ASSUME NEW k \in Keys, NEW v \in Vals, CachePut(t, k, v)
      PROVE  \E op \in LookOps, l \in Keys \cup {None}, w \in Vals \cup {None} : Looks(t, op, l, w)
  <2>1. Looks(t, "put", k, v)
    BY <1>6 DEF CachePut, store, Looks
  <2> QED BY <2>1 DEF LookOps
<1> QED BY <1>1, <1>2, <1>3, <1>4, <1>5, <1>6 DEF Calls

(* Such a call begins, and the types hold.                                  *)
LEMMA LookupType ==
  ASSUME CacheType, NEW t \in Threads, NEW op \in LookOps,
         NEW l \in Keys \cup {None}, NEW w \in Vals \cup {None}, Looks(t, op, l, w)
  PROVE  /\ CacheType' /\ ops' = ops + 1
         /\ call[t].op = "idle" /\ current \in 1..stores
         /\ overlapped' = (overlapped \/ \E u \in Threads : ~In(u, "idle"))
         /\ \E r \in CallSet : GoesOn(t, r) /\ r.op = op /\ r.s = current /\ r.k = l /\ r.v = w
<1>1. /\ UNCHANGED <<stores, entries, vmap, maps, mapCount, hits, misses, answer, counted>>
      /\ (UNCHANGED <<current, last>>) \/ (current' = 0 /\ last' = Empty)
  BY DEF Looks
<1>2. /\ op \in KeyOps \cup {"clear", "close", "keys"} /\ (op \in KeyOps => l \in Keys)
      /\ cacheStoreByName(t, op, l, w)
  BY DEF Looks, LookOps, KeyOps, GetOps, PutOps
<1>3. /\ CallInv' /\ ops' \in 0..MaxOps /\ ops' = ops + 1
      /\ call[t].op = "idle" /\ current \in 1..stores
      /\ overlapped' = (overlapped \/ \E u \in Threads : ~In(u, "idle"))
      /\ \E r \in CallSet : GoesOn(t, r) /\ r.op = op /\ r.s = current /\ r.k = l /\ r.v = w
  <2> DEFINE r == [Idle EXCEPT !.op = op, !.s = current, !.k = l, !.v = w]
  <2>1. /\ call' = [call EXCEPT ![t] = r] /\ ops' = ops + 1 /\ ops < MaxOps
        /\ call[t].op = "idle" /\ current # 0
        /\ overlapped' = (overlapped \/ \E u \in Threads : ~In(u, "idle"))
    BY <1>2 DEF cacheStoreByName, Begin, In
  <2>2. /\ stores \in Nat /\ current \in 1..stores /\ ops' \in 0..MaxOps /\ current \in Ids
    BY <2>1, CacheAssumption DEF CacheType, Ids
  <2>3. r \in CallSet /\ r.op = op /\ r.s = current /\ r.k = l /\ r.v = w
    BY <1>2, <2>2, CacheAssumption, Zenon DEF CallSet, Idle, Ids
  <2> HIDE DEF r
  <2>4. GoesOn(t, r) /\ CallInv'
    <3>1. CallInv /\ stores <= stores' /\ stores' \in Nat
      BY <1>1, <2>2 DEF CacheType
    <3>2. (r.op # "idle" => r.s \in 1..stores') /\ (r.op \in KeyOps => r.k \in Keys)
      BY <1>1, <1>2, <2>2, <2>3
    <3> QED BY <2>1, <2>2, <2>3, <3>1, <3>2, OneCall, Zenon
  <2> QED BY <2>1, <2>2, <2>3, <2>4
<1>4. stores' \in 0..ops' /\ current' \in 0..stores'
  BY <1>1, <1>3 DEF CacheType
<1>5. last' \in [Keys -> Vals \cup {None}]
  BY <1>1, EmptyTable DEF CacheType
<1>6. CacheType'
  BY <1>1, <1>3, <1>4, <1>5 DEF CacheType
<1> QED BY <1>3, <1>6

(* cache_open.                                                              *)
LEMMA OpenType ==
  ASSUME CacheType, NEW t \in Threads, CacheOpen(t)
  PROVE  /\ CacheType' /\ stores' = stores + 1 /\ current' = stores + 1 /\ current = 0
         /\ mapCount' = mapCount + 1 /\ ops' = ops + 1 /\ stores + 1 \in Ids
         /\ vmap'[stores + 1] = mapCount + 1
         /\ \A s \in Ids : s # stores + 1 => vmap'[s] = vmap[s]
         /\ last' = Empty
         /\ UNCHANGED <<entries, maps, hits, misses, call, answer, counted, putInto>>
<1>1. /\ stores' = stores + 1 /\ current' = stores + 1 /\ current = 0 /\ mapCount' = mapCount + 1
      /\ ops' = ops + 1 /\ ops < MaxOps /\ last' = Empty
      /\ vmap' = [vmap EXCEPT ![stores + 1] = mapCount + 1]
      /\ UNCHANGED <<entries, maps, hits, misses, call, answer, counted, putInto>>
  BY DEF CacheOpen, Begin
<1>2. /\ stores \in Nat /\ stores + 1 \in Ids /\ mapCount + 1 \in Nat
      /\ current' \in 0..stores' /\ stores' \in 0..ops' /\ ops' \in 0..MaxOps
  BY <1>1, CacheAssumption DEF CacheType, Ids
<1>3. /\ vmap' \in [Ids -> Nat] /\ vmap'[stores + 1] = mapCount + 1
      /\ \A s \in Ids : s # stores + 1 => vmap'[s] = vmap[s]
  BY <1>1, <1>2 DEF CacheType
<1>4. CallInv'
  <2>1. \A s \in 1..stores : s \in 1..stores'
    BY <1>1, <1>2
  <2> QED BY <1>1, <2>1 DEF CacheType, CallInv
<1>5. last' \in [Keys -> Vals \cup {None}]
  BY <1>1, EmptyTable
<1>6. CacheType'
  BY <1>1, <1>2, <1>3, <1>4, <1>5 DEF CacheType
<1> QED BY <1>1, <1>2, <1>3, <1>6

(* The steps inside a builtin keep the types, whatever they leave alone.    *)
LEMMA StepType ==
  ASSUME CacheType, UNCHANGED <<current, stores, ops>>, CallInv', mapCount' \in Nat,
         entries' \in [Ids -> TableSet], vmap' \in [Ids -> Nat],
         last' \in [Keys -> Vals \cup {None}]
  PROVE  CacheType'
BY DEF CacheType

(* Where a thread inside a builtin can go, what it may touch there, and     *)
(* that the types are kept.                                                 *)
LEMMA StepsType ==
  ASSUME CacheType, NEW t \in Threads, Steps(t)
  PROVE  CacheType'
<1> USE DEF store
<1> DEFINE c == call[t]
<1>0. /\ stores \in Nat /\ entries \in [Ids -> TableSet] /\ vmap \in [Ids -> Nat]
      /\ last \in [Keys -> Vals \cup {None}] /\ mapCount \in Nat /\ CallInv
  BY DEF CacheType
<1>1. {"put", "putValue", "putEntry", "get", "getValue", "getRead", "getGone",
       "delete", "deleteValue", "deleteWrite"} = KeyOps /\ "idle" \notin KeyOps
  BY DEF KeyOps, GetOps, PutOps
<1>2. CASE PutSnapshot(t) \/ GetSnapshot(t) \/ DeleteSnapshot(t)
  <2>1. PICK from \in KeyOps, to \in KeyOps :
          /\ c.op = from /\ UNCHANGED <<current, stores, entries, vmap, maps, mapCount, ops, last>>
          /\ \/ Return(t)
             \/ call' = [call EXCEPT ![t] = [c EXCEPT !.op = to, !.m = vmap[c.s]]]
    BY <1>1, <1>2, ZenonT(40) DEF PutSnapshot, GetSnapshot, DeleteSnapshot, In
  <2>2. CallInv'
    BY <1>0, <2>1, ReturnCall, MoveCall, Zenon
  <2> QED BY <1>0, <2>1, <2>2, StepType, SMTT(30)
<1>3. CASE PutValue(t)
  <2>1. /\ c.op = "putValue" /\ call' = [call EXCEPT ![t].op = "putEntry"]
        /\ UNCHANGED <<current, stores, entries, vmap, mapCount, ops, last>>
    BY <1>3, SMTT(30) DEF PutValue, In
  <2>2. CallInv'
    BY <1>1, <2>1, MoveCall, Zenon
  <2> QED BY <1>0, <2>1, <2>2, StepType
<1>4. CASE PutEntry(t)
  <2>1. PICK e \in {"kept", "ttl"} :
          /\ c.op = "putEntry" /\ entries' = [entries EXCEPT ![c.s][c.k] = e] /\ Return(t)
          /\ last' = [last EXCEPT ![c.k] = c.v]
          /\ UNCHANGED <<current, stores, vmap, mapCount, ops>>
    BY <1>4, Zenon DEF PutEntry, In
  <2>2. CallInv' /\ c.s \in Ids /\ c.k \in Keys /\ c.v \in Vals \cup {None}
    BY <1>0, <1>1, <2>1, ReturnCall, CallStore, SMTT(30)
  <2>3. entries' \in [Ids -> TableSet]
    BY <1>0, <2>1, <2>2, EntrySet, Zenon
  <2>4. last' \in [Keys -> Vals \cup {None}]
    BY <1>0, <2>1, <2>2
  <2> QED BY <1>0, <2>1, <2>2, <2>3, <2>4, StepType
<1>5. CASE GetEntry(t)
  <2>1. /\ c.op = "get" /\ UNCHANGED <<current, stores, vmap, mapCount, ops, last>>
        /\ \/ /\ call' = [call EXCEPT ![t] = [c EXCEPT !.op = "getValue", !.want = last[c.k]]]
              /\ entries' = entries
           \/ Return(t) /\ entries' = [entries EXCEPT ![c.s][c.k] = None]
    BY <1>5, SMTT(30) DEF GetEntry, In
  <2>2. c.s \in Ids /\ c.k \in Keys
    BY <1>1, <2>1, CallStore, SMTT(30)
  <2>3. CallInv'
    BY <1>0, <1>1, <2>1, ReturnCall, MoveCall, Zenon
  <2>4. entries' \in [Ids -> TableSet]
    BY <1>0, <2>1, <2>2, EntrySet, Zenon
  <2> QED BY <1>0, <2>1, <2>3, <2>4, StepType
<1>6. CASE GetRead(t)
  <2>1. /\ c.op = "getRead" /\ UNCHANGED <<current, stores, entries, vmap, mapCount, ops, last>>
        /\ Return(t) \/ call' = [call EXCEPT ![t].op = "getGone"]
    BY <1>6, SMTT(30) DEF GetRead, In, Answer
  <2>2. CallInv'
    BY <1>0, <1>1, <2>1, ReturnCall, MoveCall, Zenon
  <2> QED BY <1>0, <2>1, <2>2, StepType
<1>7. CASE GetGone(t)
  <2>1. /\ c.op = "getGone" /\ UNCHANGED <<current, stores, vmap, mapCount, ops, last>>
        /\ Return(t) /\ entries' = [entries EXCEPT ![c.s][c.k] = None]
    BY <1>7, SMTT(30) DEF GetGone, In, Answer
  <2>2. CallInv' /\ c.s \in Ids /\ c.k \in Keys
    BY <1>0, <1>1, <2>1, ReturnCall, CallStore, SMTT(30)
  <2>3. entries' \in [Ids -> TableSet]
    BY <1>0, <2>1, <2>2, EntrySet, Zenon
  <2> QED BY <1>0, <2>1, <2>2, <2>3, StepType
<1>8. CASE DeleteEntry(t)
  <2>1. /\ c.op = "delete" /\ UNCHANGED <<current, stores, vmap, mapCount, ops>>
        /\ \/ Return(t) /\ UNCHANGED <<entries, last>>
           \/ /\ entries' = [entries EXCEPT ![c.s][c.k] = None] /\ last' = [last EXCEPT ![c.k] = None]
              /\ call' = [call EXCEPT ![t].op = "deleteValue"]
    BY <1>8, SMTT(30) DEF DeleteEntry, In
  <2>2. c.s \in Ids /\ c.k \in Keys
    BY <1>1, <2>1, CallStore, SMTT(30)
  <2>3. CallInv'
    BY <1>0, <1>1, <2>1, ReturnCall, MoveCall, Zenon
  <2>4. entries' \in [Ids -> TableSet] /\ last' \in [Keys -> Vals \cup {None}]
    BY <1>0, <2>1, <2>2, EntrySet, Zenon
  <2> QED BY <1>0, <2>1, <2>3, <2>4, StepType
<1>9. CASE DeleteValue(t)
  <2>1. Return(t) /\ UNCHANGED <<current, stores, entries, vmap, mapCount, ops, last>>
    BY <1>9 DEF DeleteValue
  <2> QED BY <1>0, <2>1, ReturnCall, StepType
<1>10. CASE ClearStore(t) \/ CloseStore(t)
  <2>1. /\ c.op # "idle" /\ UNCHANGED <<current, stores, ops>> /\ Return(t)
        /\ entries' = [entries EXCEPT ![c.s] = Empty]
        /\ mapCount' \in {mapCount, mapCount + 1}
        /\ vmap' = [vmap EXCEPT ![c.s] = mapCount + 1] \/ vmap' = [vmap EXCEPT ![c.s] = 0]
        /\ last' \in {last, Empty}
    BY <1>10 DEF ClearStore, CloseStore, In
  <2>2. CallInv'
    BY <1>0, <2>1, ReturnCall
  <2>3. /\ entries' \in [Ids -> TableSet] /\ vmap' \in [Ids -> Nat] /\ mapCount' \in Nat
        /\ last' \in [Keys -> Vals \cup {None}]
    <3>1. entries' \in [Ids -> TableSet] /\ last' \in [Keys -> Vals \cup {None}]
      BY <1>0, <2>1, EmptyTable, Zenon
    <3>2. vmap' \in [Ids -> Nat] /\ mapCount' \in Nat
      <4>1. mapCount + 1 \in Nat /\ 0 \in Nat
        BY <1>0
      <4> QED BY <1>0, <2>1, <4>1
    <3> QED BY <3>1, <3>2
  <2> QED BY <2>1, <2>2, <2>3, StepType
<1>11. CASE cacheCleanupExpiredLocked(t)
  <2>1. /\ c.op # "idle" /\ UNCHANGED <<current, stores, vmap, mapCount, ops, last>> /\ Return(t)
        /\ entries' = [entries EXCEPT ![c.s] =
                         [k \in Keys |-> IF entries[c.s][k] = "expired" THEN None ELSE entries[c.s][k]]]
    BY <1>11, Zenon DEF cacheCleanupExpiredLocked, In
  <2>2. CallInv' /\ c.s \in Ids
    BY <1>0, <2>1, ReturnCall, CallStore, Zenon
  <2>3. [k \in Keys |-> IF entries[c.s][k] = "expired" THEN None ELSE entries[c.s][k]] \in TableSet
    BY <1>0, <2>2 DEF TableSet
  <2>4. entries' \in [Ids -> TableSet]
    BY <1>0, <2>1, <2>2, <2>3
  <2> QED BY <1>0, <2>1, <2>2, <2>4, StepType
<1> QED BY <1>2, <1>3, <1>4, <1>5, <1>6, <1>7, <1>8, <1>9, <1>10, <1>11 DEF Steps

(* The gets of a store that have counted their hit and are still reading.   *)
Under(s) == {t \in Threads : call[t].s = s /\ call[t].op \in GetOps}
Busy     == {t \in Threads : call[t].op # "idle"}

(* The counters of an open cache are exact; a store not made yet has none;  *)
(* nobody is closing the open store, which therefore has its map.           *)
StatsInv ==
  /\ hits \in [Ids -> Int] /\ misses \in [Ids -> Int]
  /\ counted \in [Ids -> [found : Int, not : Int]]
  /\ \A s \in Ids : s > stores =>
       hits[s] = 0 /\ misses[s] = 0 /\ counted[s].found = 0 /\ counted[s].not = 0
  /\ \A t \in Threads : call[t].op = "close" => call[t].s # current
  /\ current # 0 => vmap[current] # 0
  /\ IsFiniteSet(Busy)
  /\ StatsExact

(* StatsExact in terms of Under.                                            *)
LEMMA StatsForm ==
  StatsExact <=> (current # 0 => /\ hits[current] = counted[current].found + Cardinality(Under(current))
                                   /\ misses[current] = counted[current].not)
<1>1. Under(current) = {t \in Threads : /\ call[t].s = current
                                        /\ call[t].op \in {"getValue", "getRead", "getGone"}}
  BY DEF Under, GetOps
<1> QED BY <1>1 DEF StatsExact

(* A step that counts nothing and changes no get of the open cache.         *)
LEMMA QuietStats ==
  ASSUME CacheType, StatsInv, NEW t \in Threads, NEW r, GoesOn(t, r),
         UNCHANGED <<current, stores, hits, misses, counted>>,
         current # 0 => vmap'[current] # 0,
         r.op = "close" => r.s # current,
         (r.s = current /\ r.op \in GetOps) <=> (call[t].s = current /\ call[t].op \in GetOps)
  PROVE  StatsInv'
<1>1. call'[t] = r /\ \A u \in Threads \ {t} : call'[u] = call[u]
  BY DEF GoesOn
<1>2. IsFiniteSet(Busy)
  BY DEF StatsInv
<1>3. t \in Under(current) <=> (call[t].s = current /\ call[t].op \in GetOps)
  BY DEF Under
<1>4. IsFiniteSet(Busy') /\ Under(current)' = Under(current)
  <2> DEFINE s == current
  <2>1. Under(s)' = {u \in Threads : call'[u].s = current /\ call'[u].op \in GetOps}
    BY DEF Under
  <2>2. Under(s)' = Under(s)
    <3>1. \A u \in Threads : u \in Under(s)' <=> u \in Under(s)
      BY <1>1, <2>1 DEF Under
    <3> QED BY <3>1 DEF Under
  <2>3. Busy' \subseteq Busy \cup {t}
    BY <1>1 DEF Busy
  <2>4. IsFiniteSet(Busy')
    BY <1>2, <2>3, FS_AddElement, FS_Subset, Zenon
  <2> QED BY <2>2, <2>4
<1>5. StatsExact'
  <2>1. current # 0 => /\ hits[current] = counted[current].found + Cardinality(Under(current))
                       /\ misses[current] = counted[current].not
    BY StatsForm DEF StatsInv
  <2>2. (current # 0 => /\ hits[current] = counted[current].found + Cardinality(Under(current))
                        /\ misses[current] = counted[current].not)'
    BY <1>4, <2>1
  <2>3. Under(current)' = {u \in Threads : /\ call'[u].s = current'
                                           /\ call'[u].op \in {"getValue", "getRead", "getGone"}}
    BY DEF Under, GetOps
  <2> QED BY <2>2, <2>3 DEF StatsExact
<1>6. \A u \in Threads : call'[u].op = "close" => call'[u].s # current
  BY <1>1 DEF StatsInv
<1> QED BY <1>4, <1>5, <1>6 DEF StatsInv

(* Thread t, in a get of store s, goes on with r and adds dh to the hits,   *)
(* df to the answers found, and d to the misses and the answers not found.  *)
Counts(t, r, dh, df, d) ==
  LET s == call[t].s IN
  /\ GoesOn(t, r) /\ call[t].op # "idle"
  /\ UNCHANGED <<current, stores, vmap>>
  /\ hits' \in [Ids -> Int] /\ misses' \in [Ids -> Int]
  /\ counted' \in [Ids -> [found : Int, not : Int]]
  /\ \A o \in Ids : o # s => hits'[o] = hits[o] /\ misses'[o] = misses[o] /\ counted'[o] = counted[o]
  /\ hits'[s] = hits[s] + dh /\ misses'[s] = misses[s] + d
  /\ counted'[s].found = counted[s].found + df /\ counted'[s].not = counted[s].not + d
  /\ r.op # "close" /\ (r.op \in GetOps => r.s = s)
  /\ \/ r.op \in GetOps /\ call[t].op \notin GetOps /\ dh - df = 1
     \/ r.op \notin GetOps /\ call[t].op \in GetOps /\ dh - df = -1
     \/ r.op \notin GetOps /\ call[t].op \notin GetOps /\ dh - df = 0

(* A step of a get that counts: what it adds to the hits beyond the answers *)
(* is what it adds to the gets under way.                                   *)
LEMMA CountingStats ==
  ASSUME CacheType, StatsInv,
         NEW t \in Threads, NEW r, NEW dh \in Int, NEW df \in Int, NEW d \in Int,
         Counts(t, r, dh, df, d)
  PROVE  StatsInv'
<1> DEFINE s == call[t].s
<1> USE DEF Counts
<1>1. call'[t] = r /\ \A u \in Threads \ {t} : call'[u] = call[u]
  BY Zenon DEF GoesOn
<1>2. s \in 1..stores /\ s \in Ids /\ stores \in Nat /\ current \in 0..stores
  BY CallStore DEF CacheType
<1>3. \A i \in Ids : i > stores => i # s
  <2>1. \A i \in Ids : i \in Int
    BY CacheAssumption DEF Ids
  <2> HIDE DEF s
  <2> QED BY <1>2, <2>1, SMTT(30)
<1>4. \A u \in Threads : call'[u].op = "close" => call'[u].s # current
  BY <1>1, Zenon DEF StatsInv
<1>5. IsFiniteSet(Busy')
  <2>1. Busy' \subseteq Busy \cup {t}
    BY <1>1, Zenon DEF Busy
  <2> QED BY <2>1, FS_AddElement, FS_Subset, Zenon DEF StatsInv
<1>6. current \in Ids
  BY CacheAssumption DEF Ids, CacheType
<1>7. current # 0 => /\ hits'[current] = counted'[current].found + Cardinality(Under(current)')
                     /\ misses'[current] = counted'[current].not
  <2> SUFFICES ASSUME current # 0
               PROVE  /\ hits'[current] = counted'[current].found + Cardinality(Under(current)')
                      /\ misses'[current] = counted'[current].not
    BY Zenon
  <2> DEFINE U == Under(current)
             V == {u \in Threads : call'[u].s = current /\ call'[u].op \in GetOps}
  <2>1. Under(current)' = V
    BY Zenon DEF Under
  <2>2. hits[current] = counted[current].found + Cardinality(U) /\ misses[current] = counted[current].not
    BY StatsForm, Zenon DEF StatsInv
  <2>3. IsFiniteSet(U) /\ Cardinality(U) \in Nat
    <3>1. U \subseteq Busy
      BY Zenon DEF Under, Busy, GetOps
    <3> QED BY <3>1, FS_Subset, FS_CardinalityType, Zenon DEF StatsInv
  <2>4. /\ hits[current] \in Int /\ counted[current].found \in Int /\ counted[current].not \in Int
        /\ misses[current] \in Int
    BY <1>6, Zenon DEF StatsInv
  <2>5. \A u \in Threads \ {t} : u \in V <=> u \in U
    BY <1>1, Zenon DEF Under
  <2>6. CASE s # current
    <3>1. V = U
      <4>1. t \notin V /\ t \notin U
        BY <1>1, <2>6, Zenon DEF Under
      <4> QED BY <2>5, <4>1, Zenon DEF Under
    <3>2. hits'[current] = hits[current] /\ misses'[current] = misses[current] /\ counted'[current] = counted[current]
      BY <1>6, <2>6, Zenon
    <3> QED BY <2>1, <2>2, <3>1, <3>2, Zenon
  <2>7. CASE s = current
    <3>1. /\ t \in V <=> r.op \in GetOps
          /\ t \in U <=> call[t].op \in GetOps
      BY <1>1, <2>7, Zenon DEF Under
    <3>2. /\ t \in V /\ t \notin U => V = U \cup {t}
          /\ t \notin V /\ t \in U => V = U \ {t}
          /\ (t \in V <=> t \in U) => V = U
      BY <2>5, Zenon DEF Under
    <3> HIDE DEF U, V
    <3>3. /\ t \in V /\ t \notin U => Cardinality(V) = Cardinality(U) + 1
          /\ t \notin V /\ t \in U => Cardinality(V) = Cardinality(U) - 1
          /\ (t \in V <=> t \in U) => Cardinality(V) = Cardinality(U)
      BY <2>3, <3>2, FS_AddElement, FS_RemoveElement, SMTT(30)
    <3>4. Cardinality(V) = Cardinality(U) + (dh - df)
      BY <2>3, <3>1, <3>3
    <3>5. /\ hits'[current] = hits[current] + dh /\ counted'[current].found = counted[current].found + df
          /\ misses'[current] = misses[current] + d /\ counted'[current].not = counted[current].not + d
      BY <2>7, Zenon
    <3> QED BY <2>1, <2>2, <2>3, <2>4, <3>4, <3>5, SMTT(30)
  <2> QED BY <2>6, <2>7, Zenon
<1>8. StatsExact'
  <2>1. Under(current)' = {u \in Threads : /\ call'[u].s = current'
                                           /\ call'[u].op \in {"getValue", "getRead", "getGone"}}
    BY Zenon DEF Under, GetOps
  <2>2. current' = current
    BY Zenon
  <2> QED BY <1>7, <2>1, <2>2, Zenon DEF StatsExact
<1> QED BY <1>2, <1>3, <1>4, <1>5, <1>8, Zenon DEF StatsInv

(* The type invariant, of which every later one makes use.                  *)
LEMMA CacheTypeStep ==
  ASSUME CacheType, [Next]_vars
  PROVE  CacheType'
<1>1. CASE Expire
  <2>1. PICK s \in Ids, k \in Keys :
          /\ entries' = [entries EXCEPT ![s][k] = "expired"]
          /\ last' = [last EXCEPT ![k] = None] \/ last' = last
          /\ UNCHANGED <<current, stores, vmap, mapCount, call, ops>>
    BY <1>1, Zenon DEF Expire
  <2>2. entries' \in [Ids -> TableSet]
    BY <2>1, EntrySet, Zenon DEF CacheType
  <2>3. last' \in [Keys -> Vals \cup {None}]
    BY <2>1 DEF CacheType
  <2>4. CallInv'
    BY <2>1 DEF CacheType, CallInv
  <2> QED BY <2>1, <2>2, <2>3, <2>4 DEF CacheType
<1>2. ASSUME NEW t \in Threads, Steps(t) PROVE CacheType'
  BY <1>2, StepsType
<1>3. ASSUME NEW t \in Threads, Calls(t) PROVE CacheType'
  BY <1>3, CallsLook, LookupType, OpenType, Zenon
<1>4. CASE UNCHANGED vars
  BY <1>4 DEF vars, store, CacheType, CallInv
<1> QED BY <1>1, <1>2, <1>3, <1>4 DEF Next

(* One more answer of one kind.                                             *)
LEMMA OneAnswer ==
  ASSUME NEW s \in Ids, counted \in [Ids -> [found : Int, not : Int]]
  PROVE  /\ counted' = [counted EXCEPT ![s].found = @ + 1] =>
              /\ counted' \in [Ids -> [found : Int, not : Int]]
              /\ \A r \in Ids : r # s => counted'[r] = counted[r]
              /\ counted'[s].found = counted[s].found + 1 /\ counted'[s].not = counted[s].not
         /\ counted' = [counted EXCEPT ![s].not = @ + 1] =>
              /\ counted' \in [Ids -> [found : Int, not : Int]]
              /\ \A r \in Ids : r # s => counted'[r] = counted[r]
              /\ counted'[s].not = counted[s].not + 1 /\ counted'[s].found = counted[s].found
<1>0. counted[s] \in [found : Int, not : Int]
  OBVIOUS
<1> DEFINE f == [counted[s] EXCEPT !.found = @ + 1]
           n == [counted[s] EXCEPT !.not = @ + 1]
<1>1. /\ f \in [found : Int, not : Int] /\ f.found = counted[s].found + 1 /\ f.not = counted[s].not
      /\ n \in [found : Int, not : Int] /\ n.not = counted[s].not + 1 /\ n.found = counted[s].found
  BY <1>0
<1>2. /\ counted' = [counted EXCEPT ![s].found = @ + 1] => counted' = [counted EXCEPT ![s] = f]
      /\ counted' = [counted EXCEPT ![s].not = @ + 1] => counted' = [counted EXCEPT ![s] = n]
  OBVIOUS
<1> HIDE DEF f, n
<1> QED BY <1>1, <1>2

(* The counters through the steps of a builtin.                             *)
LEMMA StatsSteps ==
  ASSUME CacheType, StatsInv, NEW t \in Threads, Steps(t)
  PROVE  StatsInv'
<1> USE DEF store
<1> DEFINE c == call[t]
<1>0. CallInv /\ stores \in Nat /\ vmap \in [Ids -> Nat] /\ mapCount \in Nat
  BY DEF CacheType
<1>1. {"put", "putValue", "putEntry", "get", "getValue", "getRead", "getGone",
       "delete", "deleteValue", "deleteWrite"} = KeyOps /\ "idle" \notin KeyOps
      /\ GetOps = {"getValue", "getRead", "getGone"} /\ Idle.op = "idle"
  BY IdleCall, SMTT(30) DEF KeyOps, GetOps, PutOps
<1>2. ASSUME Return(t), UNCHANGED <<current, stores, hits, misses, counted>>,
             current # 0 => vmap'[current] # 0, c.s # current \/ c.op \notin GetOps
      PROVE  StatsInv'
  BY <1>0, <1>1, <1>2, ReturnCall, QuietStats, Zenon
<1>3. ASSUME NEW op \in KeyOps, c.op \in KeyOps, op \in GetOps <=> c.op \in GetOps,
             \/ call' = [call EXCEPT ![t].op = op]
             \/ call' = [call EXCEPT ![t] = [c EXCEPT !.op = op, !.m = vmap[c.s]]],
             UNCHANGED <<current, stores, vmap, hits, misses, counted>>
      PROVE  StatsInv'
  <2>1. \E r \in CallSet : GoesOn(t, r) /\ r.op = op /\ r.s = c.s
    BY <1>3, MoveCall, ZenonT(40)
  <2>2. op # "close" /\ (current # 0 => vmap'[current] # 0)
    BY <1>1, <1>3 DEF StatsInv
  <2> QED BY <1>3, <2>1, <2>2, QuietStats, SMTT(30)
<1>4. current # 0 => vmap[current] # 0
  BY Zenon DEF StatsInv
<1>5. CASE PutSnapshot(t) \/ GetSnapshot(t) \/ DeleteSnapshot(t)
  <2>1. PICK from \in KeyOps, to \in KeyOps :
          /\ c.op = from /\ UNCHANGED <<current, stores, vmap, hits, misses, counted>>
          /\ to \in GetOps <=> from \in GetOps
          /\ \/ Return(t) /\ vmap[c.s] = 0
             \/ call' = [call EXCEPT ![t] = [c EXCEPT !.op = to, !.m = vmap[c.s]]]
    <3>1. CASE PutSnapshot(t)
      BY <1>1, <3>1, ZenonT(40) DEF PutSnapshot, In
    <3>2. CASE GetSnapshot(t)
      BY <1>1, <3>2, ZenonT(40) DEF GetSnapshot, In
    <3>3. CASE DeleteSnapshot(t)
      BY <1>1, <3>3, Zenon DEF DeleteSnapshot, In
    <3> QED BY <1>5, <3>1, <3>2, <3>3, ZenonT(40)
  <2>2. CASE Return(t) /\ vmap[c.s] = 0
    <3>1. c.s # current
      <4>1. c.s \in 1..stores
        BY <1>1, <2>1, CallStore, SMTT(30)
      <4> QED BY <1>0, <1>4, <2>2, <4>1, SMTT(30)
    <3> QED BY <1>2, <1>4, <2>1, <2>2, <3>1
  <2>3. CASE call' = [call EXCEPT ![t] = [c EXCEPT !.op = to, !.m = vmap[c.s]]]
    BY <1>3, <2>1, <2>3, ZenonT(40)
  <2> QED BY <2>1, <2>2, <2>3
<1>6. CASE PutValue(t)
  <2>1. c.op = "putValue" /\ call' = [call EXCEPT ![t].op = "putEntry"]
        /\ UNCHANGED <<current, stores, vmap, hits, misses, counted>>
    BY <1>6 DEF PutValue, In
  <2> QED BY <1>1, <1>3, <2>1, Zenon
<1>7. CASE PutEntry(t) \/ DeleteValue(t) \/ cacheCleanupExpiredLocked(t)
  <2>1. /\ c.op \in {"putEntry", "deleteWrite", "keys"} /\ Return(t)
        /\ UNCHANGED <<current, stores, vmap, hits, misses, counted>>
    BY <1>7, Zenon DEF PutEntry, DeleteValue, cacheCleanupExpiredLocked, In
  <2> QED BY <1>1, <1>2, <1>4, <2>1, SMTT(30)
<1>8. CASE DeleteEntry(t)
  <2>1. /\ c.op = "delete" /\ UNCHANGED <<current, stores, vmap, hits, misses, counted>>
        /\ Return(t) \/ call' = [call EXCEPT ![t].op = "deleteValue"]
    BY <1>8 DEF DeleteEntry, In
  <2> QED BY <1>1, <1>2, <1>3, <1>4, <2>1, Zenon
<1>9. CASE ClearStore(t)
  <2>1. /\ c.op = "clear" /\ Return(t) /\ UNCHANGED <<current, stores, hits, misses, counted>>
        /\ vmap' = [vmap EXCEPT ![c.s] = mapCount + 1]
    BY <1>9, Zenon DEF ClearStore, In
  <2>2. current # 0 => vmap'[current] # 0
    <3>1. current \in Ids /\ mapCount + 1 # 0
      BY <1>0, CacheAssumption, SMTT(30) DEF CacheType, Ids
    <3> QED BY <1>0, <1>4, <2>1, <3>1
  <2> QED BY <1>1, <1>2, <2>1, <2>2, Zenon
<1>10. CASE CloseStore(t)
  <2>1. /\ c.op = "close" /\ Return(t) /\ UNCHANGED <<current, stores, hits, misses, counted>>
        /\ vmap' = [vmap EXCEPT ![c.s] = 0]
    BY <1>10, Zenon DEF CloseStore, In
  <2>2. current # 0 => vmap'[current] # 0
    <3>1. c.s # current
      BY <2>1, Zenon DEF StatsInv
    <3>2. vmap'[current] = vmap[current]
      <4>1. current \in Ids
        BY CacheAssumption, SMTT(30) DEF CacheType, Ids
      <4> QED BY <1>0, <2>1, <3>1, <4>1
    <3> QED BY <1>4, <3>2
  <2> QED BY <1>1, <1>2, <2>1, <2>2
<1>11. CASE GetEntry(t) \/ GetRead(t) \/ GetGone(t)
  <2>0. c.op \in {"get", "getRead", "getGone"} /\ c.s \in Ids
        /\ UNCHANGED <<current, stores, vmap>>
    <3>1. c.op \in {"get", "getRead", "getGone"} /\ UNCHANGED <<current, stores, vmap>>
      BY <1>11, Zenon DEF GetEntry, GetRead, GetGone, In
    <3> QED BY <3>1, CallStore, SMTT(30)
  <2>1. /\ hits \in [Ids -> Int] /\ misses \in [Ids -> Int]
        /\ counted \in [Ids -> [found : Int, not : Int]]
    BY DEF StatsInv
  <2>2. c.op # "idle"
    BY <2>0
  <2>3. hits[c.s] \in Int /\ misses[c.s] \in Int /\ counted[c.s].found \in Int /\ counted[c.s].not \in Int
    BY <2>0, <2>1
  <2>4. /\ hits[c.s] = hits[c.s] + 0 /\ misses[c.s] = misses[c.s] + 0
        /\ counted[c.s].found = counted[c.s].found + 0 /\ counted[c.s].not = counted[c.s].not + 0
    BY <2>3
  <2>5. ASSUME GetEntry(t), entries[c.s][c.k] \in {"kept", "ttl"}
        PROVE  StatsInv'
    <3>1. /\ c.op = "get" /\ hits' = [hits EXCEPT ![c.s] = @ + 1] /\ misses' = misses /\ counted' = counted
          /\ call' = [call EXCEPT ![t] = [c EXCEPT !.op = "getValue", !.want = last[c.k]]]
      BY <2>5, SMTT(30) DEF GetEntry, In
    <3>2. PICK r \in CallSet : GoesOn(t, r) /\ r.op = "getValue" /\ r.s = c.s
      <4>1. c.op \in KeyOps /\ "getValue" \in KeyOps /\ stores' = stores
        BY <1>1, <2>0, <3>1
      <4> QED BY <3>1, <4>1, MoveCall, ZenonT(40)
    <3>3. hits' \in [Ids -> Int] /\ hits'[c.s] = hits[c.s] + 1 /\ \A s \in Ids : s # c.s => hits'[s] = hits[s]
      BY <2>0, <2>1, <3>1
    <3>4. r.op \in GetOps /\ c.op \notin GetOps /\ 1 - 0 = 1 /\ r.op # "close"
      BY <1>1, <3>1, <3>2
    <3>9. Counts(t, r, 1, 0, 0)
      BY <2>0, <2>1, <2>2, <2>4, <3>1, <3>2, <3>3, <3>4, Zenon DEF Counts
    <3> QED BY <3>9, CountingStats
  <2>6. ASSUME GetEntry(t), entries[c.s][c.k] \notin {"kept", "ttl"}
        PROVE  StatsInv'
    <3>1. /\ c.op = "get" /\ misses' = [misses EXCEPT ![c.s] = @ + 1] /\ hits' = hits
          /\ counted' = [counted EXCEPT ![c.s].not = @ + 1] /\ Return(t)
      BY <2>6, Zenon DEF GetEntry, In
    <3>2. GoesOn(t, Idle)
      BY <1>0, <2>0, <3>1, ReturnCall
    <3>3. misses' \in [Ids -> Int] /\ misses'[c.s] = misses[c.s] + 1 /\ \A s \in Ids : s # c.s => misses'[s] = misses[s]
      BY <2>0, <2>1, <3>1, SMTT(30)
    <3>4. Idle.op \notin GetOps /\ c.op \notin GetOps /\ 0 - 0 = 0 /\ Idle.op # "close"
      BY <1>1, <3>1, SMTT(30)
    <3>5. /\ counted' \in [Ids -> [found : Int, not : Int]] /\ \A s \in Ids : s # c.s => counted'[s] = counted[s]
          /\ counted'[c.s].not = counted[c.s].not + 1 /\ counted'[c.s].found = counted[c.s].found + 0
      BY <2>0, <2>1, <2>4, <3>1, OneAnswer, ZenonT(40)
    <3>9. Counts(t, Idle, 0, 0, 1)
      BY <2>0, <2>1, <2>2, <2>4, <3>1, <3>2, <3>3, <3>4, <3>5, Zenon DEF Counts
    <3> QED BY <3>9, CountingStats
  <2>7. CASE GetRead(t)
    <3>1. /\ c.op = "getRead" /\ hits' = hits /\ misses' = misses
          /\ \/ call' = [call EXCEPT ![t].op = "getGone"] /\ counted' = counted
             \/ counted' = [counted EXCEPT ![c.s].found = @ + 1] /\ Return(t)
      BY <2>7, Zenon DEF GetRead, In, Answer
    <3>2. CASE call' = [call EXCEPT ![t].op = "getGone"] /\ counted' = counted
      BY <1>1, <1>3, <2>0, <3>1, <3>2, Zenon
    <3>3. CASE counted' = [counted EXCEPT ![c.s].found = @ + 1] /\ Return(t)
      <4>2. GoesOn(t, Idle)
        BY <1>0, <2>0, <3>3, ReturnCall, SMTT(30)
      <4>3. Idle.op \notin GetOps /\ c.op \in GetOps /\ 0 - 1 = -1 /\ Idle.op # "close"
        BY <1>1, <3>1, SMTT(30)
      <4>4. /\ counted' \in [Ids -> [found : Int, not : Int]] /\ \A s \in Ids : s # c.s => counted'[s] = counted[s]
            /\ counted'[c.s].found = counted[c.s].found + 1 /\ counted'[c.s].not = counted[c.s].not + 0
        BY <2>0, <2>1, <2>4, <3>3, OneAnswer, Zenon
      <4>9. Counts(t, Idle, 0, 1, 0)
        BY <2>0, <2>1, <2>2, <2>4, <3>1, <4>2, <4>3, <4>4, Zenon DEF Counts
      <4> QED BY <4>9, CountingStats
    <3> QED BY <3>1, <3>2, <3>3
  <2>8. CASE GetGone(t)
    <3>1. /\ c.op = "getGone" /\ hits' = [hits EXCEPT ![c.s] = @ - 1] /\ misses' = [misses EXCEPT ![c.s] = @ + 1]
          /\ counted' = [counted EXCEPT ![c.s].not = @ + 1] /\ Return(t)
      BY <2>8 DEF GetGone, In, Answer
    <3>2. GoesOn(t, Idle)
      BY <1>0, <2>0, <3>1, ReturnCall, SMTT(30)
    <3>3. misses' \in [Ids -> Int] /\ misses'[c.s] = misses[c.s] + 1 /\ \A s \in Ids : s # c.s => misses'[s] = misses[s]
      BY <2>0, <2>1, <3>1
    <3>4. hits' \in [Ids -> Int] /\ hits'[c.s] = hits[c.s] + (-1) /\ \A s \in Ids : s # c.s => hits'[s] = hits[s]
      BY <2>0, <2>1, <3>1, SMTT(30)
    <3>5. Idle.op \notin GetOps /\ c.op \in GetOps /\ (-1) - 0 = -1 /\ Idle.op # "close" /\ -1 \in Int
      BY <1>1, <3>1, SMTT(30)
    <3>6. /\ counted' \in [Ids -> [found : Int, not : Int]] /\ \A s \in Ids : s # c.s => counted'[s] = counted[s]
          /\ counted'[c.s].not = counted[c.s].not + 1 /\ counted'[c.s].found = counted[c.s].found + 0
      BY <2>0, <2>1, <2>4, <3>1, OneAnswer, Zenon
    <3>9. Counts(t, Idle, -1, 0, 1)
      BY <2>0, <2>2, <3>1, <3>2, <3>3, <3>4, <3>5, <3>6, Zenon DEF Counts
    <3> QED BY <3>9, CountingStats
  <2> QED BY <1>11, <2>5, <2>6, <2>7, <2>8, Zenon
<1> QED BY <1>5, <1>6, <1>7, <1>8, <1>9, <1>10, <1>11 DEF Steps

(* The counters through every step.                                         *)
LEMMA StatsStep ==
  ASSUME CacheType, StatsInv, [Next]_vars
  PROVE  StatsInv'
<1>0. /\ current \in 0..stores /\ stores \in Nat /\ \A i \in Ids : i \in Int
  BY CacheAssumption DEF CacheType, Ids
<1>1. ASSUME UNCHANGED <<current, stores, vmap, hits, misses, counted, call>> PROVE StatsInv'
  BY <1>1, Zenon DEF StatsInv, StatsExact, Busy
<1>2. CASE Expire
  BY <1>1, <1>2 DEF Expire
<1>3. CASE UNCHANGED vars
  BY <1>1, <1>3 DEF vars, store
<1>4. ASSUME NEW t \in Threads, Steps(t) PROVE StatsInv'
  BY <1>4, StatsSteps, SMTT(30)
<1>5. ASSUME NEW t \in Threads, CacheOpen(t) PROVE StatsInv'
  <2>1. /\ stores' = stores + 1 /\ current' = stores + 1 /\ stores + 1 \in Ids
        /\ vmap'[stores + 1] = mapCount + 1 /\ mapCount \in Nat
        /\ UNCHANGED <<hits, misses, call, counted>>
    BY <1>5, OpenType, Zenon DEF CacheType
  <2>2. \A u \in Threads : call[u].op # "idle" => call[u].s # stores + 1
    BY <1>0, CallStore
  <2>3. {u \in Threads : /\ call'[u].s = current'
                         /\ call'[u].op \in {"getValue", "getRead", "getGone"}} = {}
    BY <2>1, <2>2
  <2>4. /\ hits[stores + 1] = 0 /\ misses[stores + 1] = 0
        /\ counted[stores + 1].found = 0 /\ counted[stores + 1].not = 0
    BY <1>0, <2>1 DEF StatsInv
  <2>5. StatsExact'
    <3>1. Cardinality({}) = 0
      BY FS_EmptySet
    <3>2. /\ hits'[current'] = 0 /\ misses'[current'] = 0
          /\ counted'[current'].found = 0 /\ counted'[current'].not = 0
      BY <2>1, <2>4
    <3>3. 0 = 0 + Cardinality({})
      BY <3>1
    <3> QED BY <2>3, <3>2, <3>3, Zenon DEF StatsExact
  <2>6. \A u \in Threads : call'[u].op = "close" => call'[u].s # current'
    BY <2>1, <2>2
  <2>7. \A s \in Ids : s > stores' => s > stores
    BY <1>0, <2>1
  <2>8. vmap'[current'] # 0 /\ Busy' = Busy
    BY <2>1 DEF Busy
  <2> QED BY <2>1, <2>5, <2>6, <2>7, <2>8, Zenon DEF StatsInv
<1>6. ASSUME NEW t \in Threads, NEW op \in LookOps, NEW l \in Keys \cup {None},
             NEW w \in Vals \cup {None}, Looks(t, op, l, w)
      PROVE  StatsInv'
  <2>1. PICK r \in CallSet : GoesOn(t, r) /\ r.op = op /\ r.s = current /\ r.k = l /\ r.v = w
    BY <1>6, LookupType
  <2>2. call[t].op = "idle" /\ current \in 1..stores
    BY <1>6, LookupType, Zenon
  <2>3. UNCHANGED <<stores, vmap, hits, misses, counted>> /\ (op # "close" => UNCHANGED current)
        /\ (op = "close" => current' = 0)
    BY <1>6, SMTT(30) DEF Looks
  <2>4. CASE op # "close"
    <3>1. r.op # "close" /\ r.op \notin GetOps /\ call[t].op \notin GetOps
      BY <2>1, <2>2, <2>4 DEF LookOps, GetOps
    <3> QED BY <2>1, <2>3, <2>4, <3>1, QuietStats, Zenon DEF StatsInv
  <2>5. CASE op = "close"
    <3>1. call'[t] = r /\ \A u \in Threads \ {t} : call'[u] = call[u]
      BY <2>1 DEF GoesOn
    <3>2. \A u \in Threads : call'[u].op = "close" => call'[u].s # current'
      <4>1. \A u \in Threads \ {t} : call[u].op = "close" => call[u].s # 0
        BY <1>0, CallStore
      <4>2. r.s # 0
        BY <2>1, <2>2
      <4> QED BY <2>3, <2>5, <3>1, <4>1, <4>2, Zenon
    <3>3. IsFiniteSet(Busy')
      <4>1. Busy' \subseteq Busy \cup {t}
        BY <3>1 DEF Busy
      <4> QED BY <4>1, FS_AddElement, FS_Subset, Zenon DEF StatsInv
    <3>4. StatsExact'
      BY <2>3, <2>5 DEF StatsExact
    <3> QED BY <2>3, <2>5, <3>2, <3>3, <3>4, Zenon DEF StatsInv
  <2> QED BY <2>4, <2>5
<1> QED BY <1>2, <1>3, <1>4, <1>5, <1>6, CallsLook DEF Next

(* At the beginning.                                                        *)
LEMMA CacheStarts ==
  ASSUME Init
  PROVE  CacheType /\ StatsInv
<1>1. Idle \in CallSet /\ Idle.op = "idle"
  BY IdleCall
<1>2. call = [t \in Threads |-> Idle]
  BY DEF Init
<1>3. \A t \in Threads : call[t].op = "idle" /\ call[t] \in CallSet
  BY <1>1, <1>2
<1>4. CallInv
  <2>1. \A t \in Threads : call[t].op \notin KeyOps
    BY <1>3 DEF KeyOps, GetOps, PutOps
  <2> HIDE DEF Idle
  <2> QED BY <1>1, <1>2, <1>3, <2>1 DEF CallInv
<1>5. 0 \in 0..MaxOps
  BY CacheAssumption
<1>6. CacheType
  <2>1. current = 0 /\ stores = 0 /\ mapCount = 0 /\ ops = 0
    BY DEF Init
  <2>2. entries \in [Ids -> TableSet] /\ vmap \in [Ids -> Nat] /\ last \in [Keys -> Vals \cup {None}]
    BY EmptyTable, SMTT(30) DEF Init
  <2> QED BY <1>4, <1>5, <2>1, <2>2 DEF CacheType
<1>7. StatsInv
  <2>1. current = 0 /\ hits = [s \in Ids |-> 0] /\ misses = [s \in Ids |-> 0]
        /\ counted = [s \in Ids |-> [found |-> 0, not |-> 0]]
    BY DEF Init
  <2>2. Busy = {}
    BY <1>3 DEF Busy
  <2>3. IsFiniteSet(Busy)
    BY <2>2, FS_EmptySet
  <2>4. \A s \in Ids : /\ hits[s] = 0 /\ misses[s] = 0
                         /\ counted[s].found = 0 /\ counted[s].not = 0
    BY <2>1
  <2>5. /\ hits \in [Ids -> Int] /\ misses \in [Ids -> Int]
        /\ counted \in [Ids -> [found : Int, not : Int]]
    BY <2>1
  <2>6. \A t \in Threads : call[t].op # "close"
    BY <1>3
  <2> QED BY <2>1, <2>3, <2>4, <2>5, <2>6, Zenon DEF StatsInv, StatsExact
<1> QED BY <1>6, <1>7

(* Only stores that some put looked up hold an entry, and those were made.  *)
HeldInv ==
  /\ putInto \subseteq 1..stores
  /\ \A s \in Ids, k \in Keys : entries[s][k] # None => s \in putInto
  /\ \A t \in Threads : call[t].op \in PutOps => call[t].s \in putInto

(* The stores of a thread's own steps.                                      *)
LEMMA HeldGoesOn ==
  ASSUME HeldInv, NEW t \in Threads, NEW r, GoesOn(t, r), UNCHANGED <<stores, putInto>>,
         r.op \in PutOps => r.s \in putInto,
         \A s \in Ids, k \in Keys : entries'[s][k] # None => entries[s][k] # None \/ s \in putInto
  PROVE  HeldInv'
<1>1. call'[t] = r /\ \A u \in Threads \ {t} : call'[u] = call[u]
  BY Zenon DEF GoesOn
<1>2. \A u \in Threads : call'[u].op \in PutOps => call'[u].s \in putInto
  BY <1>1, Zenon DEF HeldInv
<1> QED BY <1>2, Zenon DEF HeldInv

(* The entries through the steps of a builtin.                              *)
LEMMA HeldSteps ==
  ASSUME CacheType, HeldInv, NEW t \in Threads, Steps(t)
  PROVE  HeldInv'
<1> USE DEF store
<1> DEFINE c == call[t]
<1>0. /\ CallInv /\ stores \in Nat /\ entries \in [Ids -> TableSet]
  BY DEF CacheType
<1>1. {"put", "putValue", "putEntry", "get", "getValue", "getRead", "getGone",
       "delete", "deleteValue", "deleteWrite"} = KeyOps /\ "idle" \notin KeyOps
      /\ PutOps = {"put", "putValue", "putEntry"} /\ Idle.op = "idle"
  BY IdleCall DEF KeyOps, GetOps, PutOps
<1>2. c.op \in PutOps => c.s \in putInto
  BY SMTT(30) DEF HeldInv
<1>3. ASSUME Return(t), UNCHANGED <<stores, putInto>>,
             \A s \in Ids, k \in Keys : entries'[s][k] # None => entries[s][k] # None \/ s \in putInto
      PROVE  HeldInv'
  BY <1>0, <1>1, <1>3, ReturnCall, HeldGoesOn, Zenon
<1>4. ASSUME NEW op \in KeyOps, c.op \in KeyOps, op \in PutOps => c.op \in PutOps,
             \/ call' = [call EXCEPT ![t].op = op]
             \/ call' = [call EXCEPT ![t] = [c EXCEPT !.op = op, !.m = vmap[c.s]]]
             \/ call' = [call EXCEPT ![t] = [c EXCEPT !.op = op, !.want = last[c.k]]],
             UNCHANGED <<stores, putInto>>,
             \A s \in Ids, k \in Keys : entries'[s][k] # None => entries[s][k] # None \/ s \in putInto
      PROVE  HeldInv'
  <2>1. \E r \in CallSet : GoesOn(t, r) /\ r.op = op /\ r.s = c.s
    BY <1>4, MoveCall, ZenonT(40)
  <2> QED BY <1>2, <1>4, <2>1, HeldGoesOn, SMTT(30)
<1>5. ASSUME c.op \in KeyOps, NEW e \in {None, "kept", "ttl"}, e = None \/ c.op \in PutOps,
             entries' = [entries EXCEPT ![c.s][c.k] = e]
      PROVE  \A s \in Ids, k \in Keys : entries'[s][k] # None => entries[s][k] # None \/ s \in putInto
  <2>1. c.s \in Ids /\ c.k \in Keys /\ e \in {None, "kept", "ttl", "expired"}
    BY <1>1, <1>5, CallStore, Zenon
  <2>2. entries'[c.s][c.k] = e /\ \A s \in Ids, k \in Keys : s # c.s \/ k # c.k => entries'[s][k] = entries[s][k]
    <3>1. entries' = [entries EXCEPT ![c.s][c.k] = e] /\ entries \in [Ids -> TableSet]
      BY <1>0, <1>5
    <3> HIDE DEF c
    <3>2. PICK s0 \in Ids, k0 \in Keys : s0 = c.s /\ k0 = c.k
      BY <2>1
    <3>3. entries' = [entries EXCEPT ![s0][k0] = e]
      BY <3>1, <3>2
    <3>6. e \in {None, "kept", "ttl", "expired"} /\ entries \in [Ids -> TableSet]
      BY <2>1, <3>1
    <3>4. entries'[s0][k0] = e
      BY <3>3, <3>6, EntrySet, ZenonT(40)
    <3>5. \A s \in Ids, k \in Keys : s # s0 \/ k # k0 => entries'[s][k] = entries[s][k]
      BY <3>3, <3>6, EntrySet
    <3> QED BY <3>2, <3>4, <3>5
  <2> QED BY <1>2, <1>5, <2>2, Zenon
<1>6. CASE PutSnapshot(t) \/ GetSnapshot(t) \/ DeleteSnapshot(t)
  <2>1. PICK from \in KeyOps, to \in KeyOps :
          /\ c.op = from /\ UNCHANGED <<stores, entries, putInto>>
          /\ to \in PutOps => from \in PutOps
          /\ \/ Return(t)
             \/ call' = [call EXCEPT ![t] = [c EXCEPT !.op = to, !.m = vmap[c.s]]]
    <3>1. CASE PutSnapshot(t)
      BY <1>1, <3>1, ZenonT(40) DEF PutSnapshot, In
    <3>2. CASE GetSnapshot(t)
      BY <1>1, <3>2, ZenonT(40) DEF GetSnapshot, In
    <3>3. CASE DeleteSnapshot(t)
      BY <1>1, <3>3, ZenonT(40) DEF DeleteSnapshot, In
    <3> QED BY <1>6, <3>1, <3>2, <3>3, ZenonT(40)
  <2> QED BY <1>3, <1>4, <2>1, ZenonT(40)
<1>7. CASE PutValue(t)
  <2>1. c.op = "putValue" /\ call' = [call EXCEPT ![t].op = "putEntry"] /\ UNCHANGED <<stores, entries, putInto>>
    BY <1>7, SMTT(30) DEF PutValue, In
  <2> QED BY <1>1, <1>4, <2>1, ZenonT(40)
<1>8. CASE PutEntry(t)
  <2>1. PICK e \in {"kept", "ttl"} :
          /\ c.op = "putEntry" /\ entries' = [entries EXCEPT ![c.s][c.k] = e] /\ Return(t)
          /\ UNCHANGED <<stores, putInto>>
    BY <1>8, Zenon DEF PutEntry, In
  <2> QED BY <1>1, <1>3, <1>5, <2>1, Zenon
<1>9. CASE GetEntry(t)
  <2>1. /\ c.op = "get" /\ UNCHANGED <<stores, putInto>>
        /\ \/ /\ call' = [call EXCEPT ![t] = [c EXCEPT !.op = "getValue", !.want = last[c.k]]]
              /\ entries' = entries
           \/ Return(t) /\ entries' = [entries EXCEPT ![c.s][c.k] = None]
    BY <1>9, Zenon DEF GetEntry, In
  <2>2. "get" \in KeyOps /\ "getValue" \in KeyOps /\ "getValue" \notin PutOps
    BY <1>1, SMTT(30)
  <2>3. CASE /\ call' = [call EXCEPT ![t] = [c EXCEPT !.op = "getValue", !.want = last[c.k]]]
             /\ entries' = entries
    BY <1>4, <2>1, <2>2, <2>3, Zenon
  <2>4. CASE Return(t) /\ entries' = [entries EXCEPT ![c.s][c.k] = None]
    BY <1>3, <1>5, <2>1, <2>2, <2>4, Zenon
  <2> QED BY <2>1, <2>3, <2>4
<1>10. CASE GetRead(t)
  <2>1. /\ c.op = "getRead" /\ UNCHANGED <<stores, entries, putInto>>
        /\ Return(t) \/ call' = [call EXCEPT ![t].op = "getGone"]
    BY <1>10, SMTT(30) DEF GetRead, In, Answer
  <2> QED BY <1>1, <1>3, <1>4, <2>1, ZenonT(40)
<1>11. CASE GetGone(t)
  <2>1. /\ c.op = "getGone" /\ UNCHANGED <<stores, putInto>>
        /\ Return(t) /\ entries' = [entries EXCEPT ![c.s][c.k] = None]
    BY <1>11 DEF GetGone, In, Answer
  <2> QED BY <1>1, <1>3, <1>5, <2>1, Zenon
<1>12. CASE DeleteEntry(t)
  <2>1. /\ c.op = "delete" /\ UNCHANGED <<stores, putInto>>
        /\ \/ Return(t) /\ UNCHANGED entries
           \/ /\ entries' = [entries EXCEPT ![c.s][c.k] = None]
              /\ call' = [call EXCEPT ![t].op = "deleteValue"]
    BY <1>12 DEF DeleteEntry, In
  <2>2. CASE Return(t) /\ UNCHANGED entries
    BY <1>3, <2>1, <2>2, SMTT(30)
  <2>3. CASE /\ entries' = [entries EXCEPT ![c.s][c.k] = None]
             /\ call' = [call EXCEPT ![t].op = "deleteValue"]
    <3>1. \A s \in Ids, k \in Keys : entries'[s][k] # None => entries[s][k] # None \/ s \in putInto
      BY <1>1, <1>5, <2>1, <2>3, Zenon
    <3> QED BY <1>1, <1>4, <2>1, <2>3, <3>1, Zenon
  <2> QED BY <2>1, <2>2, <2>3
<1>13. CASE DeleteValue(t)
  <2>1. Return(t) /\ UNCHANGED <<stores, entries, putInto>>
    BY <1>13, SMTT(30) DEF DeleteValue
  <2> QED BY <1>3, <2>1
<1>14. CASE ClearStore(t) \/ CloseStore(t)
  <2>1. /\ c.op # "idle" /\ UNCHANGED <<stores, putInto>> /\ Return(t)
        /\ entries' = [entries EXCEPT ![c.s] = Empty]
    BY <1>14, Zenon DEF ClearStore, CloseStore, In
  <2>2. \A s \in Ids, k \in Keys : entries'[s][k] # None => entries[s][k] # None
    BY <1>0, <2>1, EmptyTable, CallStore, Zenon
  <2> QED BY <1>3, <2>1, <2>2, Zenon
<1>15. CASE cacheCleanupExpiredLocked(t)
  <2>1. /\ c.op # "idle" /\ UNCHANGED <<stores, putInto>> /\ Return(t)
        /\ entries' = [entries EXCEPT ![c.s] =
                         [k \in Keys |-> IF entries[c.s][k] = "expired" THEN None ELSE entries[c.s][k]]]
    BY <1>15, Zenon DEF cacheCleanupExpiredLocked, In
  <2>2. \A s \in Ids, k \in Keys : entries'[s][k] # None => entries[s][k] # None
    BY <1>0, <2>1, CallStore, Zenon
  <2> QED BY <1>3, <2>1, <2>2, Zenon
<1> QED BY <1>6, <1>7, <1>8, <1>9, <1>10, <1>11, <1>12, <1>13, <1>14, <1>15 DEF Steps

(* The entries through every step.                                          *)
LEMMA HeldStep ==
  ASSUME CacheType, HeldInv, [Next]_vars
  PROVE  HeldInv'
<1>1. CASE Expire
  <2>1. PICK s \in Ids, k \in Keys :
          /\ entries[s][k] = "ttl" /\ entries' = [entries EXCEPT ![s][k] = "expired"]
          /\ UNCHANGED <<stores, call, putInto>>
    BY <1>1, Zenon DEF Expire
  <2>2. /\ entries'[s][k] = "expired"
        /\ \A r \in Ids, j \in Keys : r # s \/ j # k => entries'[r][j] = entries[r][j]
    BY <2>1, EntrySet, Zenon DEF CacheType
  <2>3. s \in putInto
    BY <2>1 DEF HeldInv, None
  <2>4. \A r \in Ids, j \in Keys : entries'[r][j] # None => r \in putInto
    BY <2>2, <2>3 DEF HeldInv
  <2> QED BY <2>1, <2>4 DEF HeldInv
<1>2. CASE UNCHANGED vars
  BY <1>2, Zenon DEF vars, store, HeldInv
<1>3. ASSUME NEW t \in Threads, CacheOpen(t) PROVE HeldInv'
  <2>1. stores' = stores + 1 /\ UNCHANGED <<entries, call, putInto>> /\ stores \in Nat
    BY <1>3, OpenType DEF CacheType
  <2>2. 1..stores \subseteq 1..stores'
    BY <2>1, SMTT(30)
  <2> QED BY <2>1, <2>2 DEF HeldInv
<1>4. ASSUME NEW t \in Threads, NEW op \in LookOps, NEW l \in Keys \cup {None},
             NEW w \in Vals \cup {None}, Looks(t, op, l, w)
      PROVE  HeldInv'
  <2>1. PICK r \in CallSet : GoesOn(t, r) /\ r.op = op /\ r.s = current
    BY <1>4, LookupType
  <2>2. current \in 1..stores
    BY <1>4, LookupType, Zenon
  <2>3. /\ UNCHANGED <<stores, entries>> /\ (op \in PutOps => putInto' = putInto \cup {current})
        /\ putInto' = putInto \/ putInto' = putInto \cup {current}
    BY <1>4, SMTT(30) DEF Looks, LookOps, PutOps
  <2>4. call'[t] = r /\ \A u \in Threads \ {t} : call'[u] = call[u]
    BY <2>1 DEF GoesOn
  <2>5. \A u \in Threads : call'[u].op \in PutOps => call'[u].s \in putInto'
    BY <2>1, <2>3, <2>4, Zenon DEF HeldInv
  <2> QED BY <2>2, <2>3, <2>5, Zenon DEF HeldInv
<1> QED BY <1>1, <1>2, <1>3, <1>4, HeldSteps, CallsLook, SMTT(30) DEF Next

(* What holds as long as no two calls have overlapped.  A map that is in    *)
(* use is one of those made.                                                *)
MapsOK ==
  /\ maps \in [Ids -> [Keys -> Vals \cup {None, Null}]]
  /\ mapCount <= ops /\ \A s \in Ids : vmap[s] <= mapCount

(* The call under way, c, works on the open store and its map, and has      *)
(* there what its earlier sections read or wrote.                           *)
CallOK(c) ==
  /\ c.op \notin {"idle", "close"} => c.s = current
  /\ c.op = "clear" => mapCount < ops
  /\ c.op \in {"putValue", "putEntry", "getRead", "deleteWrite"} => c.m = vmap[current]
  /\ c.op \in PutOps => c.v \in Vals
  /\ c.op \in {"getValue", "getRead"} => c.want \in Vals /\ maps[vmap[current]][c.k] = c.want
  /\ c.op # "getGone"
  /\ c.op = "putEntry" => maps[vmap[current]][c.k] = c.v
  /\ c.op \in {"deleteValue", "deleteWrite"} => entries[current][c.k] = None

(* A live entry has the value last put, unless c is about to replace it.    *)
KeyOK(c, k) ==
  IF entries[current][k] \in {"kept", "ttl"}
  THEN last[k] \in Vals /\ (maps[vmap[current]][k] = last[k] \/ (c.op = "putEntry" /\ c.k = k))
  ELSE last[k] = None

TableOK(c) == current # 0 => \A k \in Keys : KeyOK(c, k)

OnlyCall(c) ==
  \/ c.op = "idle" /\ \A t \in Threads : call[t].op = "idle"
  \/ \E t \in Threads : /\ call[t] = c /\ c.op # "idle"
                        /\ \A u \in Threads \ {t} : call[u].op = "idle"

AloneInv == MapsOK /\ ReadsLastPut /\ \E c \in CallSet : OnlyCall(c) /\ CallOK(c) /\ TableOK(c)
SeqInv   == ~overlapped => AloneInv

(* The thread that takes a step is the one whose call is under way.         *)
LEMMA TheOnlyCall ==
  ASSUME AloneInv, NEW t \in Threads, call[t].op # "idle"
  PROVE  /\ CallOK(call[t]) /\ TableOK(call[t])
         /\ \A u \in Threads \ {t} : call[u].op = "idle"
<1>1. PICK c \in CallSet : OnlyCall(c) /\ CallOK(c) /\ TableOK(c)
  BY SMTT(30) DEF AloneInv
<1>2. c = call[t] /\ \A u \in Threads \ {t} : call[u].op = "idle"
  BY <1>1 DEF OnlyCall
<1> QED BY <1>1, <1>2

(* When it goes on its new call is the only one.                            *)
LEMMA StaysAlone ==
  ASSUME NEW t \in Threads, NEW r, GoesOn(t, r), \A u \in Threads \ {t} : call[u].op = "idle",
         MapsOK', ReadsLastPut', CallOK(r)', TableOK(r)'
  PROVE  AloneInv'
<1>1. /\ r \in CallSet /\ call'[t] = r
      /\ \A u \in Threads \ {t} : call'[u].op = "idle"
  BY Zenon DEF GoesOn
<1>2. OnlyCall(r)'
  <2>1. CASE r.op = "idle"
    <3>1. \A u \in Threads : call'[u].op = "idle"
      BY <1>1, <2>1, Zenon
    <3> QED BY <2>1, <3>1, Zenon DEF OnlyCall
  <2>2. CASE r.op # "idle"
    BY <1>1, <2>2, Zenon DEF OnlyCall
  <2> QED BY <2>1, <2>2, Zenon
<1> QED BY <1>1, <1>2, Zenon DEF AloneInv

(* What the fields are that a section leaves for the next one.              *)
LEMMA MoveFields ==
  ASSUME CacheType, NEW t \in Threads, NEW op
  PROVE  /\ call' = [call EXCEPT ![t].op = op] =>
              call'[t].m = call[t].m /\ call'[t].want = call[t].want
         /\ call' = [call EXCEPT ![t] = [call[t] EXCEPT !.op = op, !.m = vmap[call[t].s]]] =>
              call'[t].m = vmap[call[t].s] /\ call'[t].want = call[t].want
         /\ call' = [call EXCEPT ![t] = [call[t] EXCEPT !.op = op, !.want = last[call[t].k]]] =>
              call'[t].want = last[call[t].k]
<1> DEFINE c == call[t]
           r1 == [c EXCEPT !.op = op]
           r2 == [c EXCEPT !.op = op, !.m = vmap[c.s]]
           r3 == [c EXCEPT !.op = op, !.want = last[c.k]]
<1>1. c \in CallSet /\ call \in [Threads -> CallSet]
  BY DEF CacheType, CallInv
<1>2. /\ call' = [call EXCEPT ![t].op = op] => call'[t] = r1
      /\ call' = [call EXCEPT ![t] = [call[t] EXCEPT !.op = op, !.m = vmap[call[t].s]]] => call'[t] = r2
      /\ call' = [call EXCEPT ![t] = [call[t] EXCEPT !.op = op, !.want = last[call[t].k]]] => call'[t] = r3
  BY <1>1
<1> HIDE DEF c
<1>3. r1.m = c.m /\ r1.want = c.want /\ r2.m = vmap[c.s] /\ r2.want = c.want /\ r3.want = last[c.k]
  BY <1>1 DEF CallSet
<1> HIDE DEF r1, r2, r3
<1> QED BY <1>2, <1>3 DEF c

(* No call is about a section of Idle.                                      *)
LEMMA IdleOK == CallOK(Idle)'
BY IdleCall, SMTT(30) DEF CallOK, PutOps

(* The sections of the builtins that are about one key.                     *)
LEMMA OpNames ==
  {"put", "putValue", "putEntry", "get", "getValue", "getRead", "getGone",
   "delete", "deleteValue", "deleteWrite"} = KeyOps /\ "idle" \notin KeyOps
  /\ PutOps = {"put", "putValue", "putEntry"} /\ Idle.op = "idle"
BY IdleCall DEF KeyOps, GetOps, PutOps

(* What is known of the only call under way and of the store it is about.   *)
LEMMA AloneFacts ==
  ASSUME CacheType, AloneInv, NEW t \in Threads, call[t].op # "idle"
  PROVE  /\ CallInv /\ stores \in Nat /\ entries \in [Ids -> TableSet] /\ vmap \in [Ids -> Nat]
         /\ mapCount \in Nat /\ ops \in Nat /\ ops <= MaxOps /\ current \in Ids
         /\ last \in [Keys -> Vals \cup {None}]
         /\ CallOK(call[t]) /\ TableOK(call[t]) /\ \A u \in Threads \ {t} : call[u].op = "idle"
         /\ MapsOK /\ ReadsLastPut
         /\ call[t].s \in 1..stores /\ call[t].s \in Ids /\ (call[t].op \in KeyOps => call[t].k \in Keys)
         /\ (call[t].op # "close" => call[t].s = current /\ current # 0)
<1> DEFINE c == call[t]
<1>0. /\ CallInv /\ stores \in Nat /\ entries \in [Ids -> TableSet] /\ vmap \in [Ids -> Nat]
      /\ mapCount \in Nat /\ ops \in Nat /\ ops <= MaxOps /\ current \in Ids
      /\ last \in [Keys -> Vals \cup {None}]
  BY CacheAssumption DEF CacheType, Ids
<1>3. CallOK(c) /\ TableOK(c) /\ \A u \in Threads \ {t} : call[u].op = "idle"
  BY TheOnlyCall
<1>4. MapsOK /\ ReadsLastPut
  BY DEF AloneInv
<1>5. c.s \in 1..stores /\ c.s \in Ids /\ (c.op \in KeyOps => c.k \in Keys)
  BY CallStore, Zenon
<1>6. c.op # "close" => c.s = current /\ current # 0
  BY <1>0, <1>3, <1>5 DEF CallOK
<1> QED BY <1>0, <1>3, <1>4, <1>5, <1>6, Zenon

(* A builtin returns.                                                       *)
LEMMA AloneReturns ==
  ASSUME CacheType, AloneInv, NEW t \in Threads, call[t].op # "idle", Return(t),
         stores' = stores, MapsOK', ReadsLastPut', TableOK(Idle)'
  PROVE  AloneInv'
<1> DEFINE c == call[t]
<1>0. /\ CallInv /\ stores \in Nat /\ entries \in [Ids -> TableSet] /\ vmap \in [Ids -> Nat]
      /\ mapCount \in Nat /\ ops \in Nat /\ ops <= MaxOps /\ current \in Ids
      /\ last \in [Keys -> Vals \cup {None}]
  BY AloneFacts, Zenon
<1>3. CallOK(c) /\ TableOK(c) /\ \A u \in Threads \ {t} : call[u].op = "idle"
  BY AloneFacts, Zenon
<1> QED BY <1>0, <1>3, ReturnCall, StaysAlone, IdleOK, Zenon

(* Nothing but the call changes.                                            *)
LEMMA AloneQuiet ==
  ASSUME CacheType, AloneInv, NEW t \in Threads, call[t].op # "idle",
         UNCHANGED <<current, stores, entries, vmap, maps, mapCount, ops, last, overlapped, answer>>
  PROVE  MapsOK' /\ ReadsLastPut' /\ (call[t].op # "putEntry" => \A r : TableOK(r)')
<1> DEFINE c == call[t]
<1>3. CallOK(c) /\ TableOK(c) /\ \A u \in Threads \ {t} : call[u].op = "idle"
  BY AloneFacts, Zenon
<1>4. MapsOK /\ ReadsLastPut
  BY AloneFacts, Zenon
<1> QED
  <2>1. MapsOK' /\ ReadsLastPut'
    BY <1>4, Zenon DEF MapsOK, ReadsLastPut
  <2>2. ASSUME c.op # "putEntry", NEW r PROVE TableOK(r)'
    <3>1. TableOK(c)
      BY <1>3, Zenon
    <3> QED BY <2>2, <3>1, Zenon DEF TableOK, KeyOK
  <2> QED BY <2>1, <2>2, Zenon

(* A value is written into the map of the open store.                       *)
LEMMA MapWrite ==
  ASSUME CacheType, AloneInv, NEW t \in Threads, call[t].op # "idle",
         NEW x \in Vals \cup {None, Null}, call[t].op \in {"putValue", "deleteWrite"},
         maps' = [maps EXCEPT ![call[t].m][call[t].k] = x]
  PROVE  /\ maps' \in [Ids -> [Keys -> Vals \cup {None, Null}]]
         /\ maps'[vmap[current]][call[t].k] = x
         /\ \A k \in Keys : k # call[t].k => maps'[vmap[current]][k] = maps[vmap[current]][k]
<1> DEFINE c == call[t]
<1>0. /\ CallInv /\ stores \in Nat /\ entries \in [Ids -> TableSet] /\ vmap \in [Ids -> Nat]
      /\ mapCount \in Nat /\ ops \in Nat /\ ops <= MaxOps /\ current \in Ids
      /\ last \in [Keys -> Vals \cup {None}]
  BY AloneFacts, Zenon
<1>1. {"put", "putValue", "putEntry", "get", "getValue", "getRead", "getGone",
       "delete", "deleteValue", "deleteWrite"} = KeyOps /\ "idle" \notin KeyOps
      /\ PutOps = {"put", "putValue", "putEntry"} /\ Idle.op = "idle"
  BY OpNames
<1>3. CallOK(c) /\ TableOK(c) /\ \A u \in Threads \ {t} : call[u].op = "idle"
  BY AloneFacts, Zenon
<1>4. MapsOK /\ ReadsLastPut
  BY AloneFacts
<1>5. c.s \in 1..stores /\ c.s \in Ids /\ (c.op \in KeyOps => c.k \in Keys)
  BY AloneFacts, Zenon
<1> QED
  <2>1. c.m = vmap[current] /\ c.k \in Keys /\ maps \in [Ids -> [Keys -> Vals \cup {None, Null}]]
    BY <1>1, <1>3, <1>4, <1>5, Zenon DEF CallOK, MapsOK
  <2>2. c.m \in Ids
    <3>1. mapCount <= ops /\ vmap[current] <= mapCount /\ vmap[current] \in Nat
      BY <1>0, <1>4, Zenon DEF MapsOK
    <3>2. MaxOps \in Nat /\ mapCount \in Nat /\ ops \in Nat /\ ops <= MaxOps
      BY <1>0, CacheAssumption, Zenon
    <3>3. vmap[current] \in Ids
      BY <3>1, <3>2 DEF Ids
    <3> QED BY <2>1, <3>3, Zenon
  <2> DEFINE T == [maps[c.m] EXCEPT ![c.k] = x]
  <2>3. T \in [Keys -> Vals \cup {None, Null}] /\ T[c.k] = x /\ \A k \in Keys : k # c.k => T[k] = maps[c.m][k]
    BY <2>1, <2>2, Zenon
  <2>4. maps' = [maps EXCEPT ![c.m] = T]
    OBVIOUS
  <2> HIDE DEF T
  <2>5. maps' \in [Ids -> [Keys -> Vals \cup {None, Null}]] /\ maps'[c.m] = T
    BY <2>1, <2>2, <2>3, <2>4, Zenon
  <2> QED BY <2>1, <2>3, <2>5, Zenon

(* An entry is written into the table of the open store.                    *)
LEMMA EntryWrite ==
  ASSUME CacheType, AloneInv, NEW t \in Threads, call[t].op # "idle",
         call[t].op \in KeyOps, NEW e \in {None, "kept", "ttl"},
         entries' = [entries EXCEPT ![call[t].s][call[t].k] = e]
  PROVE  /\ entries'[current][call[t].k] = e
         /\ \A k \in Keys : k # call[t].k => entries'[current][k] = entries[current][k]
<1>1. call[t].op # "close"
  BY OpNames
<1>2. /\ entries \in [Ids -> TableSet] /\ current \in Ids
      /\ call[t].s = current /\ call[t].k \in Keys
  BY <1>1, AloneFacts, Zenon
<1>3. PICK k0 \in Keys : k0 = call[t].k
  BY <1>2
<1> DEFINE T == [entries[current] EXCEPT ![k0] = e]
<1>4. entries' = [entries EXCEPT ![current] = T]
  BY <1>2, <1>3
<1>5. T[k0] = e /\ \A k \in Keys : k # k0 => T[k] = entries[current][k]
  BY <1>2, Zenon DEF TableSet
<1> HIDE DEF T
<1>6. entries'[current] = T
  BY <1>2, <1>4
<1> QED BY <1>3, <1>5, <1>6, Zenon

(* The entry of the key is dropped or was none.                             *)
LEMMA EntryDropped ==
  ASSUME CacheType, AloneInv, NEW t \in Threads, call[t].op # "idle",
         call[t].op \in KeyOps, call[t].op # "putEntry", NEW r,
         entries' = [entries EXCEPT ![call[t].s][call[t].k] = None],
         UNCHANGED <<current, vmap, maps>>, last'[call[t].k] = None,
         \A k \in Keys : k # call[t].k => last'[k] = last[k]
  PROVE  TableOK(r)' /\ entries'[current][call[t].k] = None
<1> DEFINE c == call[t]
<1>3. CallOK(c) /\ TableOK(c) /\ \A u \in Threads \ {t} : call[u].op = "idle"
  BY AloneFacts, Zenon
<1>12. ASSUME c.op \in KeyOps, NEW e \in {None, "kept", "ttl"}, entries' = [entries EXCEPT ![c.s][c.k] = e]
       PROVE  /\ entries'[current][c.k] = e
              /\ \A k \in Keys : k # c.k => entries'[current][k] = entries[current][k]
  BY <1>12, EntryWrite, Zenon
<1> QED
  <2>1. entries'[current][c.k] = None /\ \A k \in Keys : k # c.k => entries'[current][k] = entries[current][k]
    BY <1>12, Zenon
  <2>2. \A k \in Keys : current # 0 => KeyOK(c, k)
    BY <1>3 DEF TableOK
  <2>3. ASSUME NEW k \in Keys, current # 0, k # c.k PROVE KeyOK(r, k)'
    BY <2>1, <2>2, <2>3, Zenon DEF KeyOK
  <2>4. ASSUME NEW k \in Keys, k = c.k PROVE KeyOK(r, k)'
    BY <2>1, <2>4, Zenon DEF KeyOK, None
  <2> QED BY <2>1, <2>3, <2>4, Zenon DEF TableOK

(* The sections that take the map they will use.                            *)
LEMMA AloneSnapshot ==
  ASSUME CacheType, AloneInv, NEW t \in Threads,
         PutSnapshot(t) \/ GetSnapshot(t) \/ DeleteSnapshot(t)
  PROVE  AloneInv'
<1> DEFINE c == call[t]
<1>2. c.op # "idle"
  BY Zenon DEF PutSnapshot, GetSnapshot, DeleteSnapshot, In, store
<1>1. {"put", "putValue", "putEntry", "get", "getValue", "getRead", "getGone",
       "delete", "deleteValue", "deleteWrite"} = KeyOps /\ "idle" \notin KeyOps
      /\ PutOps = {"put", "putValue", "putEntry"} /\ Idle.op = "idle"
  BY OpNames, SMTT(30)
<1>3. CallOK(c) /\ TableOK(c) /\ \A u \in Threads \ {t} : call[u].op = "idle"
  BY <1>2, AloneFacts, Zenon
<1>6. c.op # "close" => c.s = current /\ current # 0
  BY <1>2, AloneFacts, Zenon
<1>7. ASSUME Return(t), stores' = stores, MapsOK', ReadsLastPut', TableOK(Idle)'
      PROVE  AloneInv'
  BY <1>2, <1>7, AloneReturns, Zenon
<1>8. ASSUME UNCHANGED <<current, stores, entries, vmap, maps, mapCount, ops, last, overlapped, answer>>
      PROVE  MapsOK' /\ ReadsLastPut' /\ (c.op # "putEntry" => \A r : TableOK(r)')
  BY <1>2, <1>8, AloneQuiet, Zenon
<1> QED
  <2>1. PICK from \in KeyOps, to \in KeyOps :
          /\ c.op = from /\ <<from, to>> \in {<<"put", "putValue">>, <<"getValue", "getRead">>, <<"deleteValue", "deleteWrite">>}
          /\ UNCHANGED <<current, stores, entries, vmap, maps, mapCount, ops, last, overlapped, answer>>
          /\ \/ Return(t)
             \/ call' = [call EXCEPT ![t] = [c EXCEPT !.op = to, !.m = vmap[c.s]]]
    <3>1. CASE PutSnapshot(t)
      BY <1>1, <3>1, ZenonT(40) DEF PutSnapshot, In, store
    <3>2. CASE GetSnapshot(t)
      BY <1>1, <3>2, ZenonT(40) DEF GetSnapshot, In, store
    <3>3. CASE DeleteSnapshot(t)
      BY <1>1, <3>3, Zenon DEF DeleteSnapshot, In, store
    <3> QED BY <3>1, <3>2, <3>3, ZenonT(40)
  <2>2. c.op # "putEntry" /\ c.op # "close"
    BY <2>1
  <2>3. MapsOK' /\ ReadsLastPut' /\ \A r : TableOK(r)'
    BY <1>8, <2>1, <2>2
  <2>4. CASE Return(t)
    BY <1>7, <2>1, <2>3, <2>4, SMTT(30)
  <2>5. CASE call' = [call EXCEPT ![t] = [c EXCEPT !.op = to, !.m = vmap[c.s]]]
    <3>1. PICK r \in CallSet : GoesOn(t, r) /\ r.op = to /\ r.s = c.s /\ r.k = c.k /\ r.v = c.v
      BY <2>1, <2>5, MoveCall, ZenonT(40)
    <3>2. r.m = vmap[c.s] /\ r.want = c.want
      BY <2>5, <3>1, MoveFields, Zenon DEF GoesOn
    <3>3. CallOK(r)'
      BY <1>1, <1>3, <1>6, <2>1, <2>2, <3>1, <3>2, Zenon DEF CallOK
    <3> QED BY <1>3, <2>3, <3>1, <3>3, StaysAlone, Zenon
  <2> QED BY <2>1, <2>4, <2>5

(* cache_put writes the value.                                              *)
LEMMA AlonePutValue ==
  ASSUME CacheType, AloneInv, NEW t \in Threads, PutValue(t)
  PROVE  AloneInv'
<1> DEFINE c == call[t]
<1>2. c.op # "idle"
  BY Zenon DEF PutValue, In
<1>1. {"put", "putValue", "putEntry", "get", "getValue", "getRead", "getGone",
       "delete", "deleteValue", "deleteWrite"} = KeyOps /\ "idle" \notin KeyOps
      /\ PutOps = {"put", "putValue", "putEntry"} /\ Idle.op = "idle"
  BY OpNames
<1>3. CallOK(c) /\ TableOK(c) /\ \A u \in Threads \ {t} : call[u].op = "idle"
  BY <1>2, AloneFacts, Zenon
<1>4. MapsOK /\ ReadsLastPut
  BY <1>2, AloneFacts, Zenon
<1>10. ASSUME NEW x \in Vals \cup {None, Null}, c.op \in {"putValue", "deleteWrite"},
              maps' = [maps EXCEPT ![c.m][c.k] = x]
       PROVE  /\ maps' \in [Ids -> [Keys -> Vals \cup {None, Null}]]
              /\ maps'[vmap[current]][c.k] = x
              /\ \A k \in Keys : k # c.k => maps'[vmap[current]][k] = maps[vmap[current]][k]
  BY <1>2, <1>10, MapWrite, Zenon
<1> QED
  <2>1. /\ c.op = "putValue" /\ call' = [call EXCEPT ![t].op = "putEntry"]
        /\ maps' = [maps EXCEPT ![c.m][c.k] = c.v]
        /\ UNCHANGED <<current, stores, entries, vmap, mapCount, ops, last, overlapped, answer>>
    BY DEF PutValue, In
  <2>2. c.v \in Vals /\ c.m = vmap[current] /\ c.s = current
    BY <1>1, <1>3, <2>1 DEF CallOK
  <2>3. PICK r \in CallSet : GoesOn(t, r) /\ r.op = "putEntry" /\ r.s = c.s /\ r.k = c.k /\ r.v = c.v
    <3>1. c.op \in KeyOps /\ "putEntry" \in KeyOps /\ stores' = stores
      BY <1>1, <2>1
    <3> QED BY <2>1, <3>1, MoveCall, ZenonT(40)
  <2>4. r.m = c.m
    BY <2>1, <2>3, MoveFields, ZenonT(40) DEF GoesOn
  <2>5. /\ maps' \in [Ids -> [Keys -> Vals \cup {None, Null}]] /\ maps'[vmap[current]][c.k] = c.v
        /\ \A k \in Keys : k # c.k => maps'[vmap[current]][k] = maps[vmap[current]][k]
    BY <1>10, <2>1, <2>2, Zenon
  <2>6. MapsOK' /\ ReadsLastPut'
    BY <1>4, <2>1, <2>5, Zenon DEF MapsOK, ReadsLastPut
  <2>7. CallOK(r)'
    BY <1>1, <2>1, <2>2, <2>3, <2>4, <2>5 DEF CallOK
  <2>8. TableOK(r)'
    <3>1. \A k \in Keys : current # 0 => KeyOK(c, k)
      BY <1>3 DEF TableOK
    <3>2. ASSUME NEW k \in Keys, current # 0 PROVE KeyOK(r, k)'
      BY <2>1, <2>3, <2>5, <3>1, <3>2, Zenon DEF KeyOK
    <3> QED BY <2>1, <3>2 DEF TableOK
  <2> QED BY <1>3, <2>3, <2>6, <2>7, <2>8, StaysAlone, Zenon

(* cache_put writes the entry.                                              *)
LEMMA AlonePutEntry ==
  ASSUME CacheType, AloneInv, NEW t \in Threads, PutEntry(t)
  PROVE  AloneInv'
<1> DEFINE c == call[t]
<1>2. c.op # "idle"
  BY Zenon DEF PutEntry, In
<1>0. /\ CallInv /\ stores \in Nat /\ entries \in [Ids -> TableSet] /\ vmap \in [Ids -> Nat]
      /\ mapCount \in Nat /\ ops \in Nat /\ ops <= MaxOps /\ current \in Ids
      /\ last \in [Keys -> Vals \cup {None}]
  BY <1>2, AloneFacts, Zenon
<1>1. {"put", "putValue", "putEntry", "get", "getValue", "getRead", "getGone",
       "delete", "deleteValue", "deleteWrite"} = KeyOps /\ "idle" \notin KeyOps
      /\ PutOps = {"put", "putValue", "putEntry"} /\ Idle.op = "idle"
  BY OpNames
<1>3. CallOK(c) /\ TableOK(c) /\ \A u \in Threads \ {t} : call[u].op = "idle"
  BY <1>2, AloneFacts
<1>4. MapsOK /\ ReadsLastPut
  BY <1>2, AloneFacts
<1>5. c.s \in 1..stores /\ c.s \in Ids /\ (c.op \in KeyOps => c.k \in Keys)
  BY <1>2, AloneFacts, Zenon
<1>7. ASSUME Return(t), stores' = stores, MapsOK', ReadsLastPut', TableOK(Idle)'
      PROVE  AloneInv'
  BY <1>2, <1>7, AloneReturns, Zenon
<1>12. ASSUME c.op \in KeyOps, NEW e \in {None, "kept", "ttl"}, entries' = [entries EXCEPT ![c.s][c.k] = e]
       PROVE  /\ entries'[current][c.k] = e
              /\ \A k \in Keys : k # c.k => entries'[current][k] = entries[current][k]
  BY <1>2, <1>12, EntryWrite, Zenon
<1> QED
  <2>1. PICK e \in {"kept", "ttl"} :
          /\ c.op = "putEntry" /\ entries' = [entries EXCEPT ![c.s][c.k] = e] /\ Return(t)
          /\ last' = [last EXCEPT ![c.k] = c.v]
          /\ UNCHANGED <<current, stores, vmap, maps, mapCount, ops, overlapped, answer>>
    BY ZenonT(40) DEF PutEntry, In
  <2>2. c.v \in Vals /\ maps[vmap[current]][c.k] = c.v /\ c.k \in Keys /\ c.op \in KeyOps
    BY <1>1, <1>3, <1>5, <2>1, Zenon DEF CallOK
  <2>3. entries'[current][c.k] = e /\ \A k \in Keys : k # c.k => entries'[current][k] = entries[current][k]
    BY <1>12, <2>1, <2>2, ZenonT(40)
  <2>4. last'[c.k] = c.v /\ \A k \in Keys : k # c.k => last'[k] = last[k]
    BY <1>0, <2>1, <2>2, Zenon
  <2>5. MapsOK' /\ ReadsLastPut'
    BY <1>4, <2>1, Zenon DEF MapsOK, ReadsLastPut
  <2>6. TableOK(Idle)'
    <3>1. \A k \in Keys : current # 0 => KeyOK(c, k)
      BY <1>3, Zenon DEF TableOK
    <3>2. ASSUME NEW k \in Keys, current # 0, k # c.k PROVE KeyOK(Idle, k)'
      BY <1>1, <2>1, <2>3, <2>4, <3>1, <3>2, ZenonT(30) DEF KeyOK
    <3>3. ASSUME NEW k \in Keys, k = c.k PROVE KeyOK(Idle, k)'
      BY <2>1, <2>2, <2>3, <2>4, <3>3, Zenon DEF KeyOK
    <3> QED BY <2>1, <3>2, <3>3, Zenon DEF TableOK
  <2> QED BY <1>7, <2>1, <2>5, <2>6, Zenon

(* cache_get finds the entry or answers.                                    *)
LEMMA AloneGetEntry ==
  ASSUME CacheType, AloneInv, NEW t \in Threads, GetEntry(t)
  PROVE  AloneInv'
<1> DEFINE c == call[t]
<1>2. c.op # "idle"
  BY Zenon DEF GetEntry, In
<1>1. {"put", "putValue", "putEntry", "get", "getValue", "getRead", "getGone",
       "delete", "deleteValue", "deleteWrite"} = KeyOps /\ "idle" \notin KeyOps
      /\ PutOps = {"put", "putValue", "putEntry"} /\ Idle.op = "idle"
  BY OpNames
<1>3. CallOK(c) /\ TableOK(c) /\ \A u \in Threads \ {t} : call[u].op = "idle"
  BY <1>2, AloneFacts
<1>4. MapsOK /\ ReadsLastPut
  BY <1>2, AloneFacts
<1>5. c.s \in 1..stores /\ c.s \in Ids /\ (c.op \in KeyOps => c.k \in Keys)
  BY <1>2, AloneFacts
<1>6. c.op # "close" => c.s = current /\ current # 0
  BY <1>2, AloneFacts, Zenon
<1>7. ASSUME Return(t), stores' = stores, MapsOK', ReadsLastPut', TableOK(Idle)'
      PROVE  AloneInv'
  BY <1>2, <1>7, AloneReturns, Zenon
<1>8. ASSUME UNCHANGED <<current, stores, entries, vmap, maps, mapCount, ops, last, overlapped, answer>>
      PROVE  MapsOK' /\ ReadsLastPut' /\ (c.op # "putEntry" => \A r : TableOK(r)')
  BY <1>2, <1>8, AloneQuiet, Zenon
<1>14. ASSUME c.op \in KeyOps, c.op # "putEntry", NEW r,
              entries' = [entries EXCEPT ![c.s][c.k] = None],
              UNCHANGED <<current, vmap, maps>>, last'[c.k] = None,
              \A k \in Keys : k # c.k => last'[k] = last[k]
       PROVE  TableOK(r)' /\ entries'[current][c.k] = None
  BY <1>2, <1>14, EntryDropped, Zenon
<1> QED
  <2>0. /\ c.op = "get" /\ c.op \in KeyOps /\ "getValue" \in KeyOps /\ c.k \in Keys /\ c.op # "putEntry" /\ c.s = current /\ current # 0
        /\ UNCHANGED <<current, stores, vmap, maps, mapCount, ops, last, overlapped>>
    <3>1. c.op = "get" /\ UNCHANGED <<current, stores, vmap, maps, mapCount, ops, last, overlapped>>
      BY Zenon DEF GetEntry, In
    <3> QED BY <1>1, <1>5, <1>6, <3>1, Zenon
  <2>1. KeyOK(c, c.k)
    BY <1>3, <2>0, Zenon DEF TableOK
  <2>2. MapsOK'
    BY <1>4, <2>0, Zenon DEF MapsOK
  <2>3. CASE entries[c.s][c.k] \in {"kept", "ttl"}
    <3>1. /\ call' = [call EXCEPT ![t] = [c EXCEPT !.op = "getValue", !.want = last[c.k]]]
          /\ UNCHANGED <<entries, answer>>
      BY <2>3 DEF GetEntry
    <3>2. PICK r \in CallSet : GoesOn(t, r) /\ r.op = "getValue" /\ r.s = c.s /\ r.k = c.k /\ r.v = c.v
      BY <2>0, <3>1, MoveCall, ZenonT(40)
    <3>3. r.want = last[c.k]
      BY <3>1, <3>2, MoveFields, Zenon DEF GoesOn
    <3>4. last[c.k] \in Vals /\ maps[vmap[current]][c.k] = last[c.k]
      BY <2>0, <2>1, <2>3, Zenon DEF KeyOK
    <3>5. CallOK(r)'
      BY <1>1, <2>0, <3>2, <3>3, <3>4, Zenon DEF CallOK
    <3>6. ReadsLastPut' /\ TableOK(r)'
      BY <1>8, <2>0, <3>1
    <3> QED BY <1>3, <2>2, <3>2, <3>5, <3>6, StaysAlone, Zenon
  <2>4. CASE entries[c.s][c.k] \notin {"kept", "ttl"}
    <3>1. /\ entries' = [entries EXCEPT ![c.s][c.k] = None] /\ Return(t)
          /\ answer' = [found |-> FALSE, v |-> None, want |-> last[c.k]]
      BY <2>4 DEF GetEntry
    <3>2. last[c.k] = None
      BY <2>0, <2>1, <2>4, Zenon DEF KeyOK
    <3>3. ReadsLastPut'
      BY <3>1, <3>2, Zenon DEF ReadsLastPut
    <3>4. TableOK(Idle)'
      BY <1>14, <2>0, <3>1, <3>2, Zenon
    <3> QED BY <1>7, <2>0, <2>2, <3>1, <3>3, <3>4, Zenon
  <2> QED BY <2>3, <2>4

(* cache_get reads the value.                                               *)
LEMMA AloneGetRead ==
  ASSUME CacheType, AloneInv, NEW t \in Threads, GetRead(t)
  PROVE  AloneInv'
<1> DEFINE c == call[t]
<1>2. c.op # "idle"
  BY Zenon DEF GetRead, In, store
<1>3. CallOK(c) /\ TableOK(c) /\ \A u \in Threads \ {t} : call[u].op = "idle"
  BY <1>2, AloneFacts
<1>4. MapsOK /\ ReadsLastPut
  BY <1>2, AloneFacts
<1>7. ASSUME Return(t), stores' = stores, MapsOK', ReadsLastPut', TableOK(Idle)'
      PROVE  AloneInv'
  BY <1>2, <1>7, AloneReturns, Zenon
<1> QED
  <2>1. /\ c.op = "getRead" /\ UNCHANGED <<current, stores, entries, vmap, maps, mapCount, ops, overlapped, last>>
    BY DEF GetRead, In, store
  <2>2. c.m = vmap[current] /\ c.want \in Vals /\ maps[vmap[current]][c.k] = c.want
    BY <1>3, <2>1, Zenon DEF CallOK
  <2>3. maps[c.m][c.k] # None /\ maps[c.m][c.k] = c.want
    BY <2>2, CacheAssumption, Zenon
  <2>4. Return(t) /\ answer' = [found |-> TRUE, v |-> c.want, want |-> c.want]
    BY <2>3 DEF GetRead, Answer, store
  <2>5. ReadsLastPut'
    BY <2>2, <2>4, CacheAssumption, ZenonT(40) DEF ReadsLastPut
  <2>6. MapsOK' /\ TableOK(Idle)'
    <3>1. TableOK(c)
      BY <1>3
    <3>2. MapsOK'
      BY <1>4, <2>1, Zenon DEF MapsOK
    <3> QED BY <2>1, <3>1, <3>2, Zenon DEF TableOK, KeyOK
  <2> QED BY <1>7, <2>1, <2>4, <2>5, <2>6, Zenon

(* cache_delete drops the entry.                                            *)
LEMMA AloneDeleteEntry ==
  ASSUME CacheType, AloneInv, NEW t \in Threads, DeleteEntry(t)
  PROVE  AloneInv'
<1> DEFINE c == call[t]
<1>2. c.op # "idle"
  BY Zenon DEF DeleteEntry, In
<1>0. /\ CallInv /\ stores \in Nat /\ entries \in [Ids -> TableSet] /\ vmap \in [Ids -> Nat]
      /\ mapCount \in Nat /\ ops \in Nat /\ ops <= MaxOps /\ current \in Ids
      /\ last \in [Keys -> Vals \cup {None}]
  BY <1>2, AloneFacts
<1>1. {"put", "putValue", "putEntry", "get", "getValue", "getRead", "getGone",
       "delete", "deleteValue", "deleteWrite"} = KeyOps /\ "idle" \notin KeyOps
      /\ PutOps = {"put", "putValue", "putEntry"} /\ Idle.op = "idle"
  BY OpNames
<1>3. CallOK(c) /\ TableOK(c) /\ \A u \in Threads \ {t} : call[u].op = "idle"
  BY <1>2, AloneFacts
<1>4. MapsOK /\ ReadsLastPut
  BY <1>2, AloneFacts
<1>5. c.s \in 1..stores /\ c.s \in Ids /\ (c.op \in KeyOps => c.k \in Keys)
  BY <1>2, AloneFacts
<1>6. c.op # "close" => c.s = current /\ current # 0
  BY <1>2, AloneFacts
<1>7. ASSUME Return(t), stores' = stores, MapsOK', ReadsLastPut', TableOK(Idle)'
      PROVE  AloneInv'
  BY <1>2, <1>7, AloneReturns, Zenon
<1>8. ASSUME UNCHANGED <<current, stores, entries, vmap, maps, mapCount, ops, last, overlapped, answer>>
      PROVE  MapsOK' /\ ReadsLastPut' /\ (c.op # "putEntry" => \A r : TableOK(r)')
  BY <1>2, <1>8, AloneQuiet, Zenon
<1>14. ASSUME c.op \in KeyOps, c.op # "putEntry", NEW r,
              entries' = [entries EXCEPT ![c.s][c.k] = None],
              UNCHANGED <<current, vmap, maps>>, last'[c.k] = None,
              \A k \in Keys : k # c.k => last'[k] = last[k]
       PROVE  TableOK(r)' /\ entries'[current][c.k] = None
  BY <1>2, <1>14, EntryDropped, Zenon
<1> QED
  <2>1. /\ c.op = "delete" /\ UNCHANGED <<current, stores, vmap, maps, mapCount, ops, overlapped, answer>>
        /\ \/ Return(t) /\ UNCHANGED <<entries, last>>
           \/ /\ entries' = [entries EXCEPT ![c.s][c.k] = None] /\ last' = [last EXCEPT ![c.k] = None]
              /\ call' = [call EXCEPT ![t].op = "deleteValue"]
    BY DEF DeleteEntry, In
  <2>2. CASE Return(t) /\ UNCHANGED <<entries, last>>
    BY <1>7, <1>8, <2>1, <2>2
  <2>3. CASE /\ entries' = [entries EXCEPT ![c.s][c.k] = None] /\ last' = [last EXCEPT ![c.k] = None]
             /\ call' = [call EXCEPT ![t].op = "deleteValue"]
    <3>1. c.op \in KeyOps /\ "deleteValue" \in KeyOps /\ c.k \in Keys /\ c.s = current
      BY <1>1, <1>5, <1>6, <2>1
    <3>2. PICK r \in CallSet : GoesOn(t, r) /\ r.op = "deleteValue" /\ r.s = c.s /\ r.k = c.k /\ r.v = c.v
      BY <2>1, <2>3, <3>1, MoveCall, ZenonT(40)
    <3>3. last'[c.k] = None /\ \A k \in Keys : k # c.k => last'[k] = last[k]
      BY <1>0, <2>3, <3>1
    <3>4. TableOK(r)' /\ entries'[current][c.k] = None
      BY <1>14, <2>1, <2>3, <3>1, <3>3
    <3>5. CallOK(r)'
      BY <1>1, <2>1, <3>1, <3>2, <3>4 DEF CallOK
    <3>6. MapsOK' /\ ReadsLastPut'
      BY <1>4, <2>1 DEF MapsOK, ReadsLastPut
    <3> QED BY <1>3, <3>2, <3>4, <3>5, <3>6, StaysAlone, Zenon
  <2> QED BY <2>1, <2>2, <2>3

(* cache_delete writes its null.                                            *)
LEMMA AloneDeleteValue ==
  ASSUME CacheType, AloneInv, NEW t \in Threads, DeleteValue(t)
  PROVE  AloneInv'
<1> DEFINE c == call[t]
<1>2. c.op # "idle"
  BY Zenon DEF DeleteValue, In
<1>3. CallOK(c) /\ TableOK(c) /\ \A u \in Threads \ {t} : call[u].op = "idle"
  BY <1>2, AloneFacts
<1>4. MapsOK /\ ReadsLastPut
  BY <1>2, AloneFacts
<1>6. c.op # "close" => c.s = current /\ current # 0
  BY <1>2, AloneFacts
<1>7. ASSUME Return(t), stores' = stores, MapsOK', ReadsLastPut', TableOK(Idle)'
      PROVE  AloneInv'
  BY <1>2, <1>7, AloneReturns, Zenon
<1>10. ASSUME NEW x \in Vals \cup {None, Null}, c.op \in {"putValue", "deleteWrite"},
              maps' = [maps EXCEPT ![c.m][c.k] = x]
       PROVE  /\ maps' \in [Ids -> [Keys -> Vals \cup {None, Null}]]
              /\ maps'[vmap[current]][c.k] = x
              /\ \A k \in Keys : k # c.k => maps'[vmap[current]][k] = maps[vmap[current]][k]
  BY <1>2, <1>10, MapWrite, Zenon
<1> QED
  <2>1. /\ c.op = "deleteWrite" /\ maps' = [maps EXCEPT ![c.m][c.k] = Null] /\ Return(t)
        /\ UNCHANGED <<current, stores, entries, vmap, mapCount, ops, overlapped, last, answer>>
    BY Zenon DEF DeleteValue, In
  <2>2. entries[current][c.k] = None /\ current # 0
    BY <1>3, <1>6, <2>1, Zenon DEF CallOK
  <2>3. /\ maps' \in [Ids -> [Keys -> Vals \cup {None, Null}]]
        /\ \A k \in Keys : k # c.k => maps'[vmap[current]][k] = maps[vmap[current]][k]
    BY <1>10, <2>1, Zenon
  <2>4. MapsOK' /\ ReadsLastPut'
    BY <1>4, <2>1, <2>3, Zenon DEF MapsOK, ReadsLastPut
  <2>5. TableOK(Idle)'
    <3>1. \A k \in Keys : KeyOK(c, k)
      BY <1>3, <2>2, Zenon DEF TableOK
    <3>2. ASSUME NEW k \in Keys PROVE KeyOK(Idle, k)'
      BY <2>1, <2>2, <2>3, <3>1, Zenon DEF KeyOK, None
    <3> QED BY <3>2 DEF TableOK
  <2> QED BY <1>7, <2>1, <2>4, <2>5

(* cache_clear.                                                             *)
LEMMA AloneClear ==
  ASSUME CacheType, AloneInv, NEW t \in Threads, ClearStore(t)
  PROVE  AloneInv'
<1> DEFINE c == call[t]
<1>2. c.op # "idle"
  BY Zenon DEF ClearStore, In
<1>0. /\ CallInv /\ stores \in Nat /\ entries \in [Ids -> TableSet] /\ vmap \in [Ids -> Nat]
      /\ mapCount \in Nat /\ ops \in Nat /\ ops <= MaxOps /\ current \in Ids
      /\ last \in [Keys -> Vals \cup {None}]
  BY <1>2, AloneFacts
<1>3. CallOK(c) /\ TableOK(c) /\ \A u \in Threads \ {t} : call[u].op = "idle"
  BY <1>2, AloneFacts
<1>4. MapsOK /\ ReadsLastPut
  BY <1>2, AloneFacts
<1>5. c.s \in 1..stores /\ c.s \in Ids /\ (c.op \in KeyOps => c.k \in Keys)
  BY <1>2, AloneFacts
<1>7. ASSUME Return(t), stores' = stores, MapsOK', ReadsLastPut', TableOK(Idle)'
      PROVE  AloneInv'
  BY <1>2, <1>7, AloneReturns, Zenon
<1> QED
  <2>1. /\ c.op = "clear" /\ entries' = [entries EXCEPT ![c.s] = Empty] /\ mapCount' = mapCount + 1
        /\ vmap' = [vmap EXCEPT ![c.s] = mapCount + 1] /\ Return(t)
        /\ last' = IF c.s = current THEN Empty ELSE last
        /\ UNCHANGED <<current, stores, maps, ops, overlapped, answer>>
    BY ZenonT(40) DEF ClearStore, In
  <2>2. c.s = current /\ mapCount < ops
    BY <1>3, <2>1, Zenon DEF CallOK
  <2>3. MapsOK'
    <3>1. \A s \in Ids : vmap[s] <= mapCount /\ vmap[s] \in Nat
      BY <1>0, <1>4 DEF MapsOK
    <3>2. \A s \in Ids : vmap'[s] <= mapCount'
      BY <1>0, <1>5, <2>1, <3>1
    <3>3. mapCount' <= ops'
      BY <1>0, <2>1, <2>2
    <3> QED BY <1>4, <2>1, <3>2, <3>3, Zenon DEF MapsOK
  <2>4. ReadsLastPut'
    BY <1>4, <2>1, Zenon DEF ReadsLastPut
  <2>5. TableOK(Idle)'
    <3>1. entries'[current] = Empty /\ last' = Empty
      BY <1>0, <2>1, <2>2, Zenon
    <3> QED BY <2>1, <3>1, EmptyTable, Zenon DEF TableOK, KeyOK, None
  <2> QED BY <1>7, <2>1, <2>3, <2>4, <2>5, ZenonT(40)

(* cache_close, which is about a store that is not open any more.           *)
LEMMA AloneClose ==
  ASSUME CacheType, AloneInv, NEW t \in Threads, StatsInv, CloseStore(t)
  PROVE  AloneInv'
<1> DEFINE c == call[t]
<1>2. c.op # "idle"
  BY Zenon DEF CloseStore, In
<1>0. /\ CallInv /\ stores \in Nat /\ entries \in [Ids -> TableSet] /\ vmap \in [Ids -> Nat]
      /\ mapCount \in Nat /\ ops \in Nat /\ ops <= MaxOps /\ current \in Ids
      /\ last \in [Keys -> Vals \cup {None}]
  BY <1>2, AloneFacts, Zenon
<1>3. CallOK(c) /\ TableOK(c) /\ \A u \in Threads \ {t} : call[u].op = "idle"
  BY <1>2, AloneFacts, Zenon
<1>4. MapsOK /\ ReadsLastPut
  BY <1>2, AloneFacts, Zenon
<1>5. c.s \in 1..stores /\ c.s \in Ids /\ (c.op \in KeyOps => c.k \in Keys)
  BY <1>2, AloneFacts, Zenon
<1>7. ASSUME Return(t), stores' = stores, MapsOK', ReadsLastPut', TableOK(Idle)'
      PROVE  AloneInv'
  BY <1>2, <1>7, AloneReturns, Zenon
<1> QED
  <2>1. /\ c.op = "close" /\ entries' = [entries EXCEPT ![c.s] = Empty]
        /\ vmap' = [vmap EXCEPT ![c.s] = 0] /\ Return(t)
        /\ UNCHANGED <<current, stores, maps, mapCount, ops, overlapped, last, answer>>
    BY Zenon DEF CloseStore, In
  <2>2. c.s # current
    BY <2>1, Zenon DEF StatsInv
  <2>3. MapsOK'
    <3>1. \A s \in Ids : vmap[s] <= mapCount /\ vmap[s] \in Nat
      BY <1>0, <1>4 DEF MapsOK
    <3>2. \A s \in Ids : vmap'[s] <= mapCount'
      BY <1>0, <1>5, <2>1, <3>1
    <3> QED BY <1>4, <2>1, <3>2, Zenon DEF MapsOK
  <2>4. ReadsLastPut'
    BY <1>4, <2>1, Zenon DEF ReadsLastPut
  <2>5. TableOK(Idle)'
    <3>1. entries'[current] = entries[current] /\ vmap'[current] = vmap[current]
      BY <1>0, <2>1, <2>2, Zenon
    <3> QED BY <1>3, <2>1, <3>1, Zenon DEF TableOK, KeyOK
  <2> QED BY <1>7, <2>1, <2>3, <2>4, <2>5, Zenon

(* cache_keys drops what has expired.                                       *)
LEMMA AloneKeys ==
  ASSUME CacheType, AloneInv, NEW t \in Threads, cacheCleanupExpiredLocked(t)
  PROVE  AloneInv'
<1> DEFINE c == call[t]
<1>2. c.op # "idle"
  BY Zenon DEF cacheCleanupExpiredLocked, In
<1>0. /\ CallInv /\ stores \in Nat /\ entries \in [Ids -> TableSet] /\ vmap \in [Ids -> Nat]
      /\ mapCount \in Nat /\ ops \in Nat /\ ops <= MaxOps /\ current \in Ids
      /\ last \in [Keys -> Vals \cup {None}]
  BY <1>2, AloneFacts
<1>3. CallOK(c) /\ TableOK(c) /\ \A u \in Threads \ {t} : call[u].op = "idle"
  BY <1>2, AloneFacts
<1>4. MapsOK /\ ReadsLastPut
  BY <1>2, AloneFacts
<1>7. ASSUME Return(t), stores' = stores, MapsOK', ReadsLastPut', TableOK(Idle)'
      PROVE  AloneInv'
  BY <1>2, <1>7, AloneReturns, Zenon
<1> QED
  <2>1. /\ c.op = "keys" /\ Return(t)
        /\ UNCHANGED <<current, stores, vmap, maps, mapCount, ops, overlapped, last, answer>>
        /\ entries' = [entries EXCEPT ![c.s] =
                         [k \in Keys |-> IF entries[c.s][k] = "expired" THEN None ELSE entries[c.s][k]]]
    BY Zenon DEF cacheCleanupExpiredLocked, In
  <2>2. c.s = current
    BY <1>3, <2>1, Zenon DEF CallOK
  <2>3. \A k \in Keys : entries'[current][k] = IF entries[current][k] = "expired" THEN None ELSE entries[current][k]
    BY <1>0, <2>1, <2>2, Zenon
  <2>4. MapsOK' /\ ReadsLastPut'
    BY <1>4, <2>1, Zenon DEF MapsOK, ReadsLastPut
  <2>5. TableOK(Idle)'
    <3>1. ASSUME current # 0, NEW k \in Keys PROVE KeyOK(Idle, k)'
      <4>1. KeyOK(c, k)
        BY <1>3, <3>1, Zenon DEF TableOK
      <4>2. entries'[current][k] \in {"kept", "ttl"} <=> entries[current][k] \in {"kept", "ttl"}
        BY <2>3 DEF None
      <4> QED BY <2>1, <4>1, <4>2, Zenon DEF KeyOK
    <3> QED BY <2>1, <3>1, Zenon DEF TableOK
  <2> QED BY <1>7, <2>1, <2>4, <2>5, Zenon

(* The map through the steps of a builtin whose call is the only one.       *)
LEMMA AloneSteps ==
  ASSUME CacheType, StatsInv, AloneInv, NEW t \in Threads, Steps(t)
  PROVE  AloneInv'
<1>1. CASE GetGone(t)
  <2>1. call[t].op = "getGone"
    BY <1>1, Zenon DEF GetGone, In
  <2>2. CallOK(call[t])
    BY <2>1, TheOnlyCall, Zenon
  <2> QED BY <2>1, <2>2, Zenon DEF CallOK
<1> QED BY <1>1, AloneSnapshot, AlonePutValue, AlonePutEntry, AloneGetEntry, AloneGetRead, AloneDeleteEntry, AloneDeleteValue, AloneClear, AloneClose, AloneKeys, Zenon DEF Steps

(* Nothing changes.                                                         *)
LEMMA SeqStays ==
  ASSUME SeqInv, UNCHANGED vars
  PROVE  SeqInv'
<1>1. UNCHANGED <<current, stores, entries, vmap, maps, mapCount, call, ops, last, overlapped, answer>>
  BY Zenon DEF vars, store
<1>2. \A r : /\ OnlyCall(r)' = OnlyCall(r) /\ CallOK(r)' = CallOK(r) /\ TableOK(r)' = TableOK(r)
  <2>1. \A r, k : KeyOK(r, k)' = KeyOK(r, k)
    BY <1>1, Zenon DEF KeyOK
  <2>2. \A r : TableOK(r)' = TableOK(r)
    BY <1>1, <2>1, Zenon DEF TableOK
  <2>3. \A r : OnlyCall(r)' = OnlyCall(r)
    BY <1>1, Zenon DEF OnlyCall
  <2>4. \A r : CallOK(r)' = CallOK(r)
    BY <1>1, Zenon DEF CallOK
  <2> QED BY <2>2, <2>3, <2>4, Zenon
<1>3. MapsOK' = MapsOK /\ ReadsLastPut' = ReadsLastPut
  BY <1>1, Zenon DEF MapsOK, ReadsLastPut
<1> QED BY <1>1, <1>2, <1>3, Zenon DEF SeqInv, AloneInv

(* A deadline passes.                                                       *)
LEMMA AloneExpires ==
  ASSUME CacheType, AloneInv, Expire
  PROVE  AloneInv'
<1>0. /\ stores \in Nat /\ current \in 0..stores /\ entries \in [Ids -> TableSet] /\ vmap \in [Ids -> Nat]
      /\ mapCount \in Nat /\ ops \in Nat /\ current \in Ids
      /\ last \in [Keys -> Vals \cup {None}]
  BY CacheAssumption DEF CacheType, Ids
<1>1. PICK s \in Ids, k \in Keys :
        /\ entries[s][k] = "ttl" /\ entries' = [entries EXCEPT ![s][k] = "expired"]
        /\ last' = IF s = current THEN [last EXCEPT ![k] = None] ELSE last
        /\ UNCHANGED <<current, stores, vmap, maps, mapCount, ops, overlapped, call, answer>>
  BY Zenon DEF Expire
<1>2. PICK c \in CallSet : OnlyCall(c) /\ CallOK(c) /\ TableOK(c)
  BY DEF AloneInv
<1>3. MapsOK /\ ReadsLastPut
  BY DEF AloneInv
<1>4. entries'[s][k] = "expired"
  BY <1>0, <1>1, EntrySet, Zenon
<1>5. \A r \in Ids, j \in Keys : r # s \/ j # k => entries'[r][j] = entries[r][j]
  BY <1>0, <1>1, EntrySet, Zenon
<1>6. MapsOK' /\ ReadsLastPut' /\ OnlyCall(c)'
  BY <1>1, <1>2, <1>3, Zenon DEF MapsOK, ReadsLastPut, OnlyCall
<1>7. CallOK(c)'
  <2>1. c.op \in {"deleteValue", "deleteWrite"} => c.k \in Keys /\ entries[current][c.k] = None
    BY <1>2, CallStore, Zenon DEF CallOK, OnlyCall, KeyOps
  <2>2. c.op \in {"deleteValue", "deleteWrite"} => entries'[current][c.k] = None
    BY <1>0, <1>1, <1>5, <2>1, Zenon DEF None
  <2> QED BY <1>1, <1>2, <2>2, Zenon DEF CallOK
<1>8. TableOK(c)'
  <2>1. ASSUME current # 0, NEW j \in Keys PROVE KeyOK(c, j)'
    <3>1. KeyOK(c, j)
      BY <1>2, <2>1 DEF TableOK
    <3>2. CASE s = current /\ j = k
      <4>1. entries'[current][j] = "expired" /\ last'[j] = None
        BY <1>0, <1>1, <1>4, <3>2, Zenon
      <4> QED BY <1>1, <4>1, Zenon DEF KeyOK
    <3>3. CASE s # current \/ j # k
      <4>1. entries'[current][j] = entries[current][j] /\ last'[j] = last[j]
        BY <1>0, <1>1, <1>5, <3>3, Zenon
      <4> QED BY <1>1, <3>1, <4>1, Zenon DEF KeyOK
    <3> QED BY <3>2, <3>3
  <2> QED BY <1>1, <2>1 DEF TableOK
<1> QED BY <1>6, <1>7, <1>8 DEF AloneInv

(* cache_open, by the only caller.                                          *)
LEMMA AloneOpens ==
  ASSUME CacheType, HeldInv, AloneInv, ~overlapped, NEW t \in Threads, CacheOpen(t),
         \A u \in Threads : call[u].op = "idle"
  PROVE  AloneInv'
<1>0. /\ stores \in Nat /\ current \in 0..stores /\ entries \in [Ids -> TableSet] /\ vmap \in [Ids -> Nat]
      /\ mapCount \in Nat /\ ops \in Nat /\ current \in Ids
      /\ last \in [Keys -> Vals \cup {None}]
  BY CacheAssumption DEF CacheType, Ids
<1>2. /\ stores' = stores + 1 /\ current' = stores + 1 /\ stores + 1 \in Ids
      /\ mapCount' = mapCount + 1 /\ ops' = ops + 1
      /\ vmap'[stores + 1] = mapCount + 1 /\ \A s \in Ids : s # stores + 1 => vmap'[s] = vmap[s]
      /\ last' = Empty /\ UNCHANGED <<entries, maps, call, answer>>
  BY OpenType, Zenon
<1>3. MapsOK /\ ReadsLastPut
  BY Zenon DEF AloneInv
<1>4. MapsOK'
  <2>1. \A s \in Ids : vmap[s] <= mapCount /\ vmap[s] \in Nat
    BY <1>0, <1>3, Zenon DEF MapsOK
  <2>2. \A s \in Ids : vmap'[s] <= mapCount'
    BY <1>0, <1>2, <2>1
  <2>3. mapCount' <= ops'
    BY <1>0, <1>2, <1>3 DEF MapsOK
  <2> QED BY <1>2, <1>3, <2>2, <2>3, Zenon DEF MapsOK
<1>5. ReadsLastPut'
  BY <1>2, <1>3, Zenon DEF ReadsLastPut
<1>6. TableOK(Idle)'
  <2>1. \A k \in Keys : entries[stores + 1][k] = None
    BY <1>0, <1>2 DEF HeldInv
  <2> QED BY <1>2, <2>1, EmptyTable, Zenon DEF TableOK, KeyOK, None
<1>7. CallOK(Idle)' /\ OnlyCall(Idle)' /\ Idle \in CallSet
  <2>1. \A u \in Threads : call'[u].op = "idle"
    BY <1>2, Zenon
  <2> QED BY <2>1, IdleOK, IdleCall, Zenon DEF OnlyCall
<1> QED BY <1>4, <1>5, <1>6, <1>7, Zenon DEF AloneInv

(* The other builtins look the store up.                                    *)
LEMMA AloneLooks ==
  ASSUME CacheType, AloneInv, ~overlapped, NEW t \in Threads, NEW op \in LookOps,
         NEW l \in Keys \cup {None}, NEW w \in Vals \cup {None}, Looks(t, op, l, w),
         \A u \in Threads : call[u].op = "idle"
  PROVE  AloneInv'
<1>0. /\ stores \in Nat /\ current \in 0..stores /\ entries \in [Ids -> TableSet] /\ vmap \in [Ids -> Nat]
      /\ mapCount \in Nat /\ ops \in Nat /\ current \in Ids
      /\ last \in [Keys -> Vals \cup {None}]
  BY CacheAssumption, SMTT(30) DEF CacheType, Ids
<1>1. /\ overlapped' = (overlapped \/ \E u \in Threads : ~In(u, "idle")) /\ ops' = ops + 1
      /\ current \in 1..stores
  BY LookupType, Zenon
<1>2. PICK r \in CallSet : GoesOn(t, r) /\ r.op = op /\ r.s = current /\ r.k = l /\ r.v = w
  BY LookupType, SMTT(30)
<1>3. /\ UNCHANGED <<stores, entries, vmap, maps, mapCount, answer>>
      /\ op = "put" => w \in Vals
      /\ op # "close" => UNCHANGED <<current, last>>
      /\ op = "close" => current' = 0
  BY Zenon DEF Looks
<1>4. PICK c \in CallSet : OnlyCall(c) /\ CallOK(c) /\ TableOK(c)
  BY Zenon DEF AloneInv
<1>5. c.op = "idle" /\ MapsOK /\ ReadsLastPut
  BY <1>4, Zenon DEF AloneInv, OnlyCall
<1>6. MapsOK' /\ ReadsLastPut'
  <2>1. mapCount' <= ops'
    BY <1>0, <1>1, <1>3, <1>5, SMTT(30) DEF MapsOK
  <2> QED BY <1>3, <1>5, <2>1, Zenon DEF MapsOK, ReadsLastPut
<1>7. CallOK(r)'
  <2>1. mapCount' < ops'
    BY <1>0, <1>1, <1>3, <1>5 DEF MapsOK
  <2>2. r.op \in {"put", "get", "delete", "clear", "close", "keys"}
    BY <1>2, Zenon DEF LookOps
  <2>3. r.op # "close" => r.s = current'
    BY <1>2, <1>3, Zenon
  <2>4. r.op \in PutOps => r.v \in Vals
    <3>1. r.op \in PutOps => r.op = "put"
      BY <2>2, Zenon DEF PutOps
    <3> QED BY <1>2, <1>3, <3>1, Zenon
  <2> QED BY <2>1, <2>2, <2>3, <2>4, Zenon DEF CallOK
<1>8. TableOK(r)'
  <2>1. CASE op = "close"
    BY <1>3, <2>1, Zenon DEF TableOK
  <2>2. CASE op # "close"
    BY <1>3, <1>4, <1>5, <2>2, Zenon DEF TableOK, KeyOK
  <2> QED BY <2>1, <2>2, Zenon
<1> QED BY <1>2, <1>6, <1>7, <1>8, StaysAlone, Zenon

(* The map through every step.                                              *)
LEMMA SeqStep ==
  ASSUME CacheType, StatsInv, HeldInv, SeqInv, [Next]_vars
  PROVE  SeqInv'
<1>1. CASE UNCHANGED vars
  BY <1>1, SeqStays
<1>2. CASE Expire
  <2>1. overlapped' = overlapped
    BY <1>2, Zenon DEF Expire
  <2> QED BY <1>2, <2>1, AloneExpires, Zenon DEF SeqInv
<1>3. ASSUME NEW t \in Threads, Steps(t) PROVE SeqInv'
  <2>1. overlapped' = overlapped
    BY <1>3, Zenon DEF Steps, PutSnapshot, PutValue, PutEntry, GetEntry, GetSnapshot, GetRead, GetGone,
         DeleteEntry, DeleteSnapshot, DeleteValue, ClearStore, CloseStore, cacheCleanupExpiredLocked
  <2> QED BY <1>3, <2>1, AloneSteps, Zenon DEF SeqInv
<1>4. ASSUME NEW t \in Threads, CacheOpen(t) PROVE SeqInv'
  <2>1. overlapped' = (overlapped \/ \E u \in Threads : ~In(u, "idle"))
    BY <1>4, Zenon DEF CacheOpen, Begin
  <2> QED BY <1>4, <2>1, AloneOpens, Zenon DEF SeqInv, In
<1>5. ASSUME NEW t \in Threads, NEW op \in LookOps, NEW l \in Keys \cup {None},
             NEW w \in Vals \cup {None}, Looks(t, op, l, w)
      PROVE  SeqInv'
  <2>1. overlapped' = (overlapped \/ \E u \in Threads : ~In(u, "idle"))
    BY <1>5, LookupType, Zenon
  <2> QED BY <1>5, <2>1, AloneLooks, Zenon DEF SeqInv, In
<1> QED BY <1>1, <1>2, <1>3, <1>4, <1>5, CallsLook, Zenon DEF Next

(* At the beginning.                                                        *)
LEMMA SeqStarts ==
  ASSUME Init
  PROVE  HeldInv /\ SeqInv
<1>1. Idle \in CallSet /\ Idle.op = "idle"
  BY IdleCall
<1>2. \A t \in Threads : call[t].op = "idle"
  BY <1>1, Zenon DEF Init
<1>3. HeldInv
  <2>1. \A s \in Ids, k \in Keys : entries[s][k] = None
    BY EmptyTable, Zenon DEF Init
  <2> QED BY <1>2, <2>1, Zenon DEF HeldInv, Init, PutOps
<1>4. MapsOK
  <2>1. Empty \in [Keys -> Vals \cup {None, Null}]
    BY EmptyTable, SMTT(30)
  <2> HIDE DEF Empty
  <2>2. maps = [m \in Ids |-> Empty] /\ vmap = [s \in Ids |-> 0] /\ mapCount = 0 /\ ops = 0
    BY Zenon DEF Init
  <2> QED BY <2>1, <2>2 DEF MapsOK
<1>5. ReadsLastPut
  BY Zenon DEF Init, ReadsLastPut, NoAnswer
<1>6. CallOK(Idle) /\ TableOK(Idle) /\ OnlyCall(Idle)
  BY <1>1, <1>2, Zenon DEF CallOK, TableOK, OnlyCall, PutOps, Init
<1> QED BY <1>1, <1>3, <1>4, <1>5, <1>6 DEF SeqInv, AloneInv

(* In every reachable state of the cache builtins, for any threads, keys    *)
(* and values, the whole invariant holds.                                   *)
THEOREM CacheInvariance == Spec => [](CacheType /\ StatsInv /\ HeldInv /\ SeqInv)
<1> DEFINE Inv == CacheType /\ StatsInv /\ HeldInv /\ SeqInv
<1>1. Init => Inv
  BY CacheStarts, SeqStarts
<1>2. Inv /\ [Next]_vars => Inv'
  BY CacheTypeStep, StatsStep, HeldStep, SeqStep
<1> QED BY <1>1, <1>2, PTL DEF Spec

(* cache_stats: hits and misses of an open cache add up to the answers of   *)
(* cache_get, apart from the gets that are still reading.                   *)
THEOREM StatsAreExact == Spec => []StatsExact
<1>1. CacheType /\ StatsInv /\ HeldInv /\ SeqInv => StatsExact
  BY Zenon DEF StatsInv
<1> QED BY <1>1, CacheInvariance, PTL

(* A put under way when the cache is closed leaves nothing in the store     *)
(* that cache_open makes afterwards.                                        *)
THEOREM OldPutsAreOut == Spec => []OldPutsStayOut
<1>1. CacheType /\ StatsInv /\ HeldInv /\ SeqInv => OldPutsStayOut
  <2> SUFFICES ASSUME CacheType, HeldInv PROVE OldPutsStayOut
    OBVIOUS
  <2>1. \A s \in 1..stores : s \in Ids
    BY CacheAssumption DEF CacheType, Ids
  <2> QED BY <2>1 DEF HeldInv, OldPutsStayOut
<1> QED BY <1>1, CacheInvariance, PTL

(* Calls that do not overlap see a map: cache_get answers what was last put *)
(* and not deleted, cleared, closed away or expired.                        *)
THEOREM ReadsAreLastPuts == Spec => []ReadsLastPut
<1>1. CacheType /\ StatsInv /\ HeldInv /\ SeqInv => ReadsLastPut
  BY Zenon DEF SeqInv, AloneInv, ReadsLastPut
<1> QED BY <1>1, CacheInvariance, PTL
=============================================================================
