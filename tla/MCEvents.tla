------------------------------ MODULE MCEvents ------------------------------
(* Instances of the two cubits of ngotools_events for TLC. They share nothing, *)
(* so a behaviour moves one of them. For EventsList a short and a long range   *)
(* from today, as the sheet offers them, and one in the past; the step does    *)
(* not divide the limit. Requests are alike, and so are loads and calls.       *)
EXTENDS Duties, EventsList, TLC

VARIABLE part

MCRanges == {<<2, 1>>, <<2, 3>>, <<0, 1>>}

Symmetry == Permutations(Requests) \cup Permutations(Loads) \cup Permutations(EventCalls)

MCInit ==
    /\ part \in {"duties", "events"} /\ Init /\ EventsInit
    /\ part = "events" => server = [r \in Requests |-> NotSet]

MCNext ==
    /\ UNCHANGED part
    /\ \/ part = "duties" /\ Next /\ UNCHANGED eventsVars
       \/ part = "events" /\ EventsNext /\ UNCHANGED vars

MCSpec == MCInit /\ [][MCNext]_<<part, vars, eventsVars>>
=============================================================================
