------------------------------ MODULE MCStore ------------------------------
(* Calls for the runs of Store: two days of two quarter hours.             *)
EXTENDS Store

CONSTANTS m1, m2, m3

ThreeMeters == {m1, m2, m3}
FourSlots   == 0 .. 3

Block(m, from, to) == [meter |-> m, from |-> from, to |-> to]
Job(kind, blocks) == [kind |-> kind, blocks |-> blocks]

\* Two imports of overlapping quarter hours of a day, one of two metering
\* points; an upload over the day boundary with a new metering point; a
\* registration; and a delete of more rows than one flush writes.
FiveJobs ==
    {Job("energy", <<Block(m1, 0, 1), Block(m2, 1, 1)>>),
     Job("energy", <<Block(m1, 1, 1)>>),
     Job("register", <<Block(m3, 2, 3)>>),
     Job("excel",  <<Block(m2, 1, 2), Block(m3, 1, 2)>>),
     Job("delete", <<Block(m1, 0, 3)>>)}

\* An import and an upload of different metering points of the same day.
TwoJobs ==
    {Job("energy", <<Block(m1, 0, 1)>>), Job("excel", <<Block(m2, 0, 1)>>)}
=============================================================================
