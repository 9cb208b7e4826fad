---------------------------- MODULE BikeHandover ----------------------------
(***************************************************************************)
(* What the fleet is promised about who rides which bike: a bike passes    *)
(* from one rider to the next in one step, an account created together     *)
(* with a bike appears together with it, and nothing ever refers to an     *)
(* account or a bike that is gone.  A rider who is given a bike may keep   *)
(* some of the bikes held before: the code does not promise otherwise.     *)
(***************************************************************************)
CONSTANTS Bikes, Riders

VARIABLES
    riders,  \* the accounts that exist
    bikes,   \* the bikes that exist
    holds    \* the pairs <<bike, rider>> of the active assignments

vars == <<riders, bikes, holds>>

Of(r) == {h \in holds : h[2] = r}

Init == riders = {} /\ bikes = {} /\ holds = {}

\* Bike b goes to rider r; either may be new.
Give(b, r) ==
    /\ b \in bikes \/ r \in riders
    /\ riders' = riders \cup {r}
    /\ bikes' = bikes \cup {b}
    /\ \E returned \in SUBSET Of(r) :
           holds' = ({h \in holds : h[1] # b} \ returned) \cup {<<b, r>>}

TakeBack(r) ==
    /\ \E returned \in SUBSET Of(r) : holds' = holds \ returned
    /\ UNCHANGED <<riders, bikes>>

Join(r) == riders' = riders \cup {r} /\ UNCHANGED <<bikes, holds>>

Leave(r) ==
    /\ riders' = riders \ {r}
    /\ holds' = holds \ Of(r)
    /\ UNCHANGED bikes

Buy(b) == bikes' = bikes \cup {b} /\ UNCHANGED <<riders, holds>>

Scrap(b) ==
    /\ bikes' = bikes \ {b}
    /\ holds' = {h \in holds : h[1] # b}
    /\ UNCHANGED riders

Next ==
    \/ \E b \in Bikes, r \in Riders : Give(b, r)
    \/ \E r \in Riders : TakeBack(r) \/ Join(r) \/ Leave(r)
    \/ \E b \in Bikes : Buy(b) \/ Scrap(b)

Spec == Init /\ [][Next]_vars

\* Every active assignment is of an existing bike and an existing account,
\* and no bike has two of them.
Ledger ==
    /\ holds \subseteq bikes \X riders
    /\ \A g, h \in holds : g[1] = h[1] => g = h
=============================================================================
