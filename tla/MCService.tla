------------------------------ MODULE MCService ------------------------------
(* Databases, disks and configurations for the run of Service.             *)
EXTENDS Service, TLC

CONSTANTS web, lane, t1, t2, e

\* Two tenants with the same ecId.
k1 == <<t1, e>>
k2 == <<t2, e>>

TwoKeys      == {k1, k2}
ThreeClients == {gc, web, lane}
OneHandler   == {web}
OneLane      == {lane}
WorkOf       == (web :> {k1, k2}) @@ (lane :> {k1}) @@ (gc :> {})

File(s, d) == [size |-> s, dis |-> d]

\* One database with two files worth rewriting and one without a discard.
DiskOne == (k1 :> <<File(4, 4), File(3, 2), File(2, 0)>>) @@ (k2 :> <<>>)

\* Both databases; in the first only the probe rewrites.
DiskTwo == (k1 :> <<File(4, 1)>>) @@ (k2 :> <<File(3, 2)>>)

\* The window goes over midnight, or ends there; several checks fall into it.
Config(en, dry, end, budget) ==
    [enabled |-> en, dryRun |-> dry, startMin |-> 2, endMin |-> end, discardRatio |-> 50,
     probeRatio |-> 10, minBytes |-> 2, maxBytes |-> budget]

\* The budget of the first configuration ends after the first file.
MCInit ==
    \/ main_Init({Config(TRUE, FALSE, 1, 4), Config(TRUE, TRUE, 1, 9)}, {DiskOne})
    \/ main_Init({Config(TRUE, FALSE, 0, 9), Config(FALSE, FALSE, 0, 0)}, {DiskTwo})

\* Readiness is asked for where the GC is off and no storage is opened: the
\* probe shares nothing with the rest but the flag of the closed pool.
Apart ==
    /\ checks' # checks => ~cfg.enabled /\ \A c \in Clients : gets[c] = 0
    /\ gets' # gets => checks = 0

MCNext == ServiceNext /\ Apart

MCSpec == MCInit /\ [][MCNext]_svars /\ ServiceFairness
=============================================================================
