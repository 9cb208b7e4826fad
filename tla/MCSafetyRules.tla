--------------------------- MODULE MCSafetyRules ----------------------------
(* SafetyRules for TLC: the packets that make each rule decide both ways.    *)
EXTENDS SafetyRules, TLC

MCKeys == {"night", "limit", "school"}
MCRuleOf == [k \in MCKeys |-> IF k = "night" THEN "night" ELSE "road"]
MCLimit == [k \in MCKeys |-> 2]

MCSamples ==
    {[speed |-> 2, ignition |-> TRUE, accel |-> "absent", hits |-> {"limit", "school"},
      station |-> FALSE],
     [speed |-> 1, ignition |-> FALSE, accel |-> "calm", hits |-> {"night"}, station |-> FALSE],
     [speed |-> 0, ignition |-> TRUE, accel |-> "absent", hits |-> {}, station |-> TRUE]}

MCLags == [s \in MCSamples |-> IF s.speed = 1 THEN {0, 1} ELSE {0}]

Symmetry == Permutations(Handlers) \cup Permutations(Contacts)
=============================================================================
