------------------------------ MODULE MCImport ------------------------------
(* Messages for the runs of Import: two days of two quarter hours.         *)
EXTENDS Import, TLC

CONSTANTS ec1, ec2, mp1, mp2,
          MaxTotal   \* bound: store errors, panics, crashes and shutdowns together

FourSlots == 0 .. 3

Shape(ec, mp, energy) ==
    [ecId |-> ec, meter |-> mp, energy |-> energy, size |-> 1, decodable |-> TRUE]

TwoDays   == Shape(ec1, mp1, << <<0, 4>> >>)
FirstDay  == Shape(ec1, mp1, << <<0, 2>> >>)
OtherMP   == Shape(ec1, mp2, << <<1, 3>> >>)
Twice     == Shape(ec1, mp1, << <<0, 4>>, <<1, 2>> >>)
OtherEc   == Shape(ec2, mp1, << <<0, 2>> >>)
Garbled   == [FirstDay EXCEPT !.decodable = FALSE]

AllShapes  == {TwoDays, FirstDay, OtherMP, Twice, OtherEc, Garbled}
SameMeter  == {TwoDays, FirstDay}

Pairs           == AllShapes \X AllShapes
Triples         == SameMeter \X SameMeter \X SameMeter

\* Every pair of messages, and three in a row for one metering point.
PairsAndTriples == Pairs \cup ({TwoDays} \X SameMeter \X {FirstDay})

WithinTotal == count'.faults + count'.panics + count'.crashes + count'.stops <= MaxTotal

\* No error, panic, crash or shutdown has to happen, so that the bound takes
\* nothing from the fairness.
MCSpec == Init /\ [][Next /\ WithinTotal]_vars /\ Fairness
=============================================================================
