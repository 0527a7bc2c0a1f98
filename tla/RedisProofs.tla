---------------------------- MODULE RedisProofs ----------------------------
(* Lemmas about the Redis operators, for the modules that use a database.  *)
EXTENDS Redis, TLAPS

\* The commands, the passing of time and a restart keep a database a database.
LEMMA DatabaseClosed ==
    ASSUME NEW K, NEW V, NEW T \in Nat, NEW db \in Databases(K, V, T), NEW k
    PROVE  /\ \A v \in V, t \in 0..T : SetEx(db, k, v, t) \in Databases(K, V, T)
           /\ \A t \in 0..T : Expire(db, k, t) \in Databases(K, V, T)
           /\ Aged(db) \in Databases(K, V, T)
           /\ \A lost : Without(db, lost) \in Databases(K, V, T)
<1> DEFINE E == [val : V \cup {Nil}, ttl : 0..T]
<1>1. db \in [K -> E] /\ Absent \in E
  BY DEF Databases, Absent
<1>2. \A v \in V, t \in 0..T : SetEx(db, k, v, t) \in [K -> E]
  BY <1>1 DEF SetEx
<1>3. \A t \in 0..T : Expire(db, k, t) \in [K -> E]
  BY <1>1 DEF Expire
<1>4. Aged(db) \in [K -> E]
  BY <1>1 DEF Aged
<1>5. \A lost : Without(db, lost) \in [K -> E]
  BY <1>1 DEF Without
<1> QED
  BY <1>2, <1>3, <1>4, <1>5 DEF Databases

\* What each of them does to the entry of a key.
LEMMA EntryAfter ==
    ASSUME NEW K, NEW V, NEW T \in Nat, NEW db \in Databases(K, V, T),
           NEW k \in K, NEW x \in K
    PROVE  /\ db[x].ttl \in 0..T
           /\ \A v \in V, t \in 0..T : /\ SetEx(db, k, v, t)[x].ttl = IF x = k THEN t ELSE db[x].ttl
                         /\ SetEx(db, k, v, t)[x].val = IF x = k THEN v ELSE db[x].val
           /\ \A t \in 0..T : Expire(db, k, t)[x].ttl =
                           IF x = k /\ db[x].ttl > 0 THEN t ELSE db[x].ttl
           /\ \A t \in 0..T : Expire(db, k, t)[x].val = db[x].val
           /\ Aged(db)[x].ttl = IF db[x].ttl > 1 THEN db[x].ttl - 1 ELSE 0
           /\ \A lost \in SUBSET K : Without(db, lost)[x] =
                           IF x \in lost THEN Absent ELSE db[x]
<1>1. db \in [K -> [val : V \cup {Nil}, ttl : 0..T]]
  BY DEF Databases
<1>2. /\ db[x].ttl \in 0..T
      /\ Aged(db)[x].ttl = IF db[x].ttl > 1 THEN db[x].ttl - 1 ELSE 0
      /\ \A lost \in SUBSET K : Without(db, lost)[x] = IF x \in lost THEN Absent ELSE db[x]
  BY <1>1 DEF Aged, Without, Absent
<1>3. \A v \in V, t \in 0..T : /\ SetEx(db, k, v, t)[x].ttl = IF x = k THEN t ELSE db[x].ttl
                 /\ SetEx(db, k, v, t)[x].val = IF x = k THEN v ELSE db[x].val
  <2> SUFFICES ASSUME NEW v \in V, NEW t \in 0..T
               PROVE  /\ SetEx(db, k, v, t)[x].ttl = IF x = k THEN t ELSE db[x].ttl
                      /\ SetEx(db, k, v, t)[x].val = IF x = k THEN v ELSE db[x].val
    OBVIOUS
  <2>1. SetEx(db, k, v, t)[x] = IF x = k THEN [val |-> v, ttl |-> t] ELSE db[x]
    BY <1>1 DEF SetEx
  <2>2. [val |-> v, ttl |-> t].ttl = t /\ [val |-> v, ttl |-> t].val = v
    OBVIOUS
  <2>3. CASE x = k
    BY <2>1, <2>2, <2>3
  <2>4. CASE x # k
    BY <2>1, <2>4
  <2> QED
    BY <2>3, <2>4
<1>4. /\ \A t \in 0..T : Expire(db, k, t)[x].ttl =
                   IF x = k /\ db[x].ttl > 0 THEN t ELSE db[x].ttl
      /\ \A t \in 0..T : Expire(db, k, t)[x].val = db[x].val
  BY <1>1 DEF Expire, Exists
<1> QED
  BY <1>2, <1>3, <1>4
=============================================================================
