-------------------------------- MODULE TTLMap --------------------------------
(***************************************************************************)
(* What pkg/cache promises its callers: a map from keys to values in which *)
(* an entry lives for TTL units of time and disappears by itself at the    *)
(* very instant its lifetime is over.  There is no sweeper, no dead entry  *)
(* and no expiry check here: those are how TTLCache keeps the promise.     *)
(***************************************************************************)
EXTENDS Integers

CONSTANTS
  Keys,      \* cache keys ("hubs:list", "hub:<name>")
  Values,    \* payloads
  TTL,       \* lifetime of an entry
  MaxTime,   \* bound: the clock stops here
  NoEntry    \* what an absent key maps to

VARIABLES
  now,       \* the clock
  live,      \* the map: for each key its live entry, or NoEntry
  got        \* the answer of the last Get

vars == <<now, live, got>>

Init == /\ now = 0
        /\ live = [k \in Keys |-> NoEntry]
        /\ got = NoEntry

Read(k) == /\ got' = live[k]
           /\ UNCHANGED <<now, live>>

Put(k, v) == /\ live' = [live EXCEPT ![k] = [data |-> v, expiresAt |-> now + TTL]]
             /\ UNCHANGED <<now, got>>

Drop(k) == /\ live' = [live EXCEPT ![k] = NoEntry]
           /\ UNCHANGED <<now, got>>

DropAll == /\ live' = [k \in Keys |-> NoEntry]
           /\ UNCHANGED <<now, got>>

\* Time passes, and every entry whose deadline is now behind disappears.
Pass == /\ now < MaxTime
        /\ now' = now + 1
        /\ live' = [k \in Keys |->
                      IF live[k] # NoEntry /\ live[k].expiresAt < now + 1
                        THEN NoEntry ELSE live[k]]
        /\ UNCHANGED got

Next == \/ \E k \in Keys : Read(k) \/ Drop(k)
        \/ \E k \in Keys, v \in Values : Put(k, v)
        \/ DropAll
        \/ Pass

Spec == Init /\ [][Next]_vars
===============================================================================
