------------------------------- MODULE Redis -------------------------------
(***************************************************************************)
(* The Redis database the services share (docker-compose service "redis",  *)
(* database 0), as the code under src/ uses it: keys with a value and a    *)
(* time to live.  A database is a function from keys to entries; an entry  *)
(* with no time left is an absent key.  Redis executes one command at a    *)
(* time, so each operator below is one atomic command.                     *)
(***************************************************************************)
EXTENDS Naturals

CONSTANT Nil            \* what GET returns for an absent key (redis.Nil)

Absent == [val |-> Nil, ttl |-> 0]

\* The databases over Keys holding Vals with at most T ticks to live.
Databases(Keys, Vals, T) == [Keys -> [val : Vals \cup {Nil}, ttl : 0..T]]

Exists(db, k) == db[k].ttl > 0

SetEx(db, k, v, t) == [db EXCEPT ![k] = [val |-> v, ttl |-> t]]

\* EXPIRE answers 0, which go-redis does not report as an error, when the
\* key is absent.
Expire(db, k, t) == IF Exists(db, k) THEN [db EXCEPT ![k].ttl = t] ELSE db

\* One tick passes: a key whose time is up is gone.
Aged(db) ==
    [k \in DOMAIN db |->
        IF db[k].ttl > 1 THEN [val |-> db[k].val, ttl |-> db[k].ttl - 1]
                         ELSE Absent]

\* After a restart the keys written since the last snapshot are lost.
Without(db, lost) ==
    [k \in DOMAIN db |-> IF k \in lost THEN Absent ELSE db[k]]
=============================================================================
