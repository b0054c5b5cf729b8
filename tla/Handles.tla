------------------------------- MODULE Handles -------------------------------
(***************************************************************************)
(* What the connection pool promises (store/ebow/pool.go): per database at *)
(* most `size' handles are out at a time, the database is open exactly     *)
(* while one is, and after the shutdown it stays closed.                   *)
(***************************************************************************)
EXTENDS Integers, FiniteSets

CONSTANTS Keys,     \* databases, named by poolKey(tenant, ecId)
          Clients,  \* goroutines that open a storage
          size      \* handles per database

VARIABLES holders,  \* database -> clients that hold a handle
          open,     \* database -> the Badger DB is open
          shut      \* database -> shut down for good

vars == <<holders, open, shut>>

Init ==
    /\ holders = [k \in Keys |-> {}]
    /\ open = [k \in Keys |-> FALSE]
    /\ shut = [k \in Keys |-> FALSE]

Acquire(k, c) ==
    /\ ~shut[k] /\ c \notin holders[k] /\ Cardinality(holders[k]) < size
    /\ holders' = [holders EXCEPT ![k] = @ \cup {c}]
    /\ open' = [open EXCEPT ![k] = TRUE]
    /\ UNCHANGED shut

\* The last one out closes the database; after the shutdown it is closed.
Release(k, c) ==
    /\ c \in holders[k]
    /\ holders' = [holders EXCEPT ![k] = @ \ {c}]
    /\ open' = [open EXCEPT ![k] = @ /\ holders[k] # {c}]
    /\ UNCHANGED shut

Shutdown(k) ==
    /\ ~shut[k]
    /\ shut' = [shut EXCEPT ![k] = TRUE]
    /\ open' = [open EXCEPT ![k] = FALSE]
    /\ UNCHANGED holders

Next ==
    \E k \in Keys : Shutdown(k) \/ \E c \in Clients : Acquire(k, c) \/ Release(k, c)

Spec == Init /\ [][Next]_vars
=============================================================================
