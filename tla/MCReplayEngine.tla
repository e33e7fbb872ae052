--------------------------- MODULE MCReplayEngine ---------------------------
(* Two small capabilities for TLC: a search that retries its observation and  *)
(* then opens a result, and one with a fill of an optional input, a           *)
(* postcondition without a retry policy and two business outcomes.            *)
EXTENDS ReplayEngine

CONSTANTS list, details, refusal, member, short, long, notext

MCTargets == {list, details, refusal}
MCTexts == {short, long}
MCWithin == {<<short, short>>, <<long, long>>, <<short, long>>}
MCInputNames == {member}

Sees(t) == [kind |-> "visible", target |-> t, expected |-> short]
Equals(t, x) == [kind |-> "equals", target |-> t, expected |-> x]
Contains(t, x) == [kind |-> "contains", target |-> t, expected |-> x]

Search ==
    [steps |-> << [pre |-> {}, post |-> {Sees(list)}, attempts |-> 3, fills |-> {}],
                  [pre |-> {Sees(list)}, post |-> {}, attempts |-> 0, fills |-> {}] >>,
     success |-> {Equals(details, member), Sees(details)},
     outcomes |-> {{Sees(refusal)}},
     outputs |-> {details}]

Enquiry ==
    [steps |-> << [pre |-> {}, post |-> {Contains(list, member)}, attempts |-> 0,
                   fills |-> {member}],
                  [pre |-> {Contains(list, member)}, post |-> {}, attempts |-> 2, fills |-> {}] >>,
     success |-> {Contains(details, short)},
     outcomes |-> {{Sees(refusal)}, {Equals(refusal, long), Equals(list, member)}},
     outputs |-> {}]

MCCapabilities == {Search, Enquiry}
MCSuppliable == [{} -> MCTexts] \cup [{member} -> MCTexts]
=============================================================================
