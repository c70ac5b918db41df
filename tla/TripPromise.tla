---------------------------- MODULE TripPromise ----------------------------
(***************************************************************************)
(* What the three processes promise about a trip, whoever else acts on the *)
(* delivery at the same time: the PINs exist for a delivery that was paid, *)
(* and a rider earns by a delivery whose customer gave him the PIN.        *)
(***************************************************************************)
EXTENDS Naturals

CONSTANTS Riders, Deliveries

VARIABLES
    paid,     \* deliveries that were paid at some time
    proved,   \* <<kind, rider, delivery>>: he entered the right PIN
    credited  \* <<rider, delivery>>: he was paid out for it

PinKinds == {"pickup", "delivery"}

promiseVars == <<paid, proved, credited>>

Promise == paid \subseteq Deliveries /\ proved = {} /\ credited = {}

Pay(d) ==
    /\ paid' = paid \union {d}
    /\ UNCHANGED <<proved, credited>>

Prove(k, r, d) ==
    /\ d \in paid
    /\ proved' = proved \union {<<k, r, d>>}
    /\ UNCHANGED <<paid, credited>>

Credit(r, d) ==
    /\ <<"delivery", r, d>> \in proved
    /\ credited' = credited \union {<<r, d>>}
    /\ UNCHANGED <<paid, proved>>

Fulfil ==
    \E d \in Deliveries :
        \/ Pay(d)
        \/ \E r \in Riders : Credit(r, d) \/ \E k \in PinKinds : Prove(k, r, d)

PromiseSpec == Promise /\ [][Fulfil]_promiseVars
=============================================================================
