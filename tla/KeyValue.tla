------------------------------ MODULE KeyValue ------------------------------
(***************************************************************************)
(* The key-value rows of one storage namespace, as the durable objects see *)
(* them (src/godaddy/mysql-storage.ts).  A store is a function whose       *)
(* domain is the set of keys that have a row: a key outside the domain is  *)
(* one for which get() returns undefined.                                  *)
(***************************************************************************)

\* The namespace before its first row is written.
NoRows == [k \in {} |-> k]

\* storage.put(key, value): insert the row, or overwrite its value.
Put(store, key, value) ==
  [k \in DOMAIN store \cup {key} |-> IF k = key THEN value ELSE store[k]]

\* (await storage.get(key)) ?? default
GetOr(store, key, default) == IF key \in DOMAIN store THEN store[key] ELSE default
=============================================================================
