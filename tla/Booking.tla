------------------------------ MODULE Booking ------------------------------
(***************************************************************************)
(* What a delivery costs and when it is picked up: the pricing configs     *)
(* that admins create and activate, their tables of zones, times, item     *)
(* categories and special handling, the deliveries that customers book at  *)
(* the price of the active config, and their rescheduling until a rider    *)
(* has accepted.                                                           *)
(*                                                                         *)
(* Nothing is a transaction: a request reads the config, then the tables,  *)
(* then saves; rescheduling writes the history and the new time one after  *)
(* the other; activating a config is two updates.                          *)
(*                                                                         *)
(* A confirmed additional payment changes nothing in the code, so that a   *)
(* dearer time is never reached and has no action.  What happens to the    *)
(* delivery otherwise is in DeliveryTrip and PaymentSettlement.            *)
(***************************************************************************)
EXTENDS DeliveryPricing, Sequences, FiniteSets

CONSTANTS
    Configs,       \* contents of a pricing config
    Orders,        \* what customers order
    Times,         \* times of pickup
    Places,        \* places that zones of their own can cover
    Categories,    \* kinds of items
    Handlings,     \* kinds of special handling
    TimePricings,  \* prices a time can have: a slot, or none
    Tariffs,       \* tables of prices that there can be at first
    NoTime,
    Requests,      \* requests that can be served at the same time
    MaxDeliveries, \* bound: deliveries
    MaxServed,     \* bound: requests of admins and customers
    MaxFaults      \* bound: how often a request throws or its process dies

Catalog == Places \union Categories \union Handlings

Parcel ==
    [distance : Nat, pickup : Places, dropoff : Places, category : Categories,
     handling : Handlings, coupon : Coupon]

ASSUME BookingAssumption ==
    /\ Configs \subseteq Config /\ Configs # {}
    /\ Orders \subseteq Parcel /\ Orders # {}
    /\ Tariffs \subseteq [Times \union Catalog -> TimePricings]
    /\ TimePricings \subseteq TimePricing
    /\ NoTimePricing \in TimePricings
    /\ NoTime \notin Times
    /\ {MaxDeliveries, MaxServed, MaxFaults} \subseteq Nat

VARIABLES
    configs,    \* the pricing configs: terms and isActive
    tariff,     \* what the tables say of each time, place, category and handling
    deliveries, \* pricing, pickup time, canReschedule, history of the times
    req,        \* what each request is doing
    served, faults,
    muddled,    \* history: deliveries whose reschedulings crossed or stopped half way
    late,       \* history: deliveries locked while a rescheduling was under way
    unsettled,  \* history: no config was activated alone since one went wrong
    withdrawn   \* history: an admin deactivated a config since

docs    == <<configs, tariff, deliveries>>
history == <<served, faults, muddled, late, unsettled, withdrawn>>
vars    == <<docs, req, history>>

(* A request's locals: alone: no other one activates a config meanwhile.   *)
NoConfig  == CHOOSE c \in Configs : TRUE
NoOrder   == CHOOSE o \in Orders : TRUE
Idle      == [at |-> "idle", terms |-> NoConfig, order |-> NoOrder, time |-> NoTime,
              doc |-> 0, from |-> NoTime, covers |-> 0, alone |-> FALSE]

Activating   == {"others", "deactivate", "activate"}
Rescheduling == {"slot", "remember", "move"}

Init ==
    /\ \E c \in Configs : configs = <<[terms |-> c, isActive |-> TRUE]>>
    /\ tariff \in Tariffs
    /\ deliveries = <<>>
    /\ req = [q \in Requests |-> Idle]
    /\ served = 0
    /\ faults = 0
    /\ muddled = {}
    /\ late = {}
    /\ unsettled = FALSE
    /\ withdrawn = FALSE

-----------------------------------------------------------------------------
At(q, l)     == req[q].at = l
Finish(q)    == req' = [req EXCEPT ![q] = Idle]
Begin(q, to) == At(q, "idle") /\ req' = [req EXCEPT ![q] = to]

Serve == served < MaxServed /\ served' = served + 1

Others(q, labels) == {p \in Requests \ {q} : req[p].at \in labels}
Active            == {i \in DOMAIN configs : configs[i].isActive}

-----------------------------------------------------------------------------
(* admin-api: pricing configs. *)

(* A change of the active config begins; it is alone if no other one is    *)
(* under way, and whoever was alone before is not any more.                *)
BeginActivating(q, to) ==
    /\ At(q, "idle")
    /\ req' = [p \in Requests |->
                 IF p = q THEN [to EXCEPT !.alone = (Others(q, Activating) = {})]
                          ELSE [req[p] EXCEPT !.alone = FALSE]]
    /\ unsettled' = (unsettled \/ Others(q, Activating) # {})

Activated(q) ==
    /\ unsettled' = (unsettled /\ ~req[q].alone)
    /\ withdrawn' = (withdrawn /\ ~req[q].alone)

CreatePricingConfig(q, c) ==
    /\ Serve
    /\ configs' = Append(configs, [terms |-> c, isActive |-> TRUE])
    /\ BeginActivating(q, [Idle EXCEPT !.at = "others", !.doc = Len(configs) + 1])
    /\ UNCHANGED <<tariff, deliveries, faults, muddled, late, withdrawn>>

Only(i) == [j \in DOMAIN configs |->
              IF j = i THEN configs[j] ELSE [configs[j] EXCEPT !.isActive = FALSE]]

DeactivateOthers(q) ==
    /\ At(q, "others")
    /\ configs' = Only(req[q].doc)
    /\ Activated(q)
    /\ Finish(q)
    /\ UNCHANGED <<tariff, deliveries, served, faults, muddled, late>>

(* updatePricingConfig with isActive, without it, and with isActive false. *)
StartActivation(q, i) ==
    /\ Serve
    /\ BeginActivating(q, [Idle EXCEPT !.at = "deactivate", !.doc = i])
    /\ UNCHANGED <<docs, faults, muddled, late, withdrawn>>

(* Mutant: the other configs stay active. *)
DeactivateFirstMutant(q) ==
    /\ At(q, "deactivate")
    /\ req' = [req EXCEPT ![q].at = "activate"]
    /\ UNCHANGED <<docs, history>>

DeactivateFirst(q) ==
    /\ At(q, "deactivate")
    /\ configs' = Only(req[q].doc)
    /\ req' = [req EXCEPT ![q].at = "activate"]
    /\ UNCHANGED <<tariff, deliveries, history>>

Activate(q) ==
    /\ At(q, "activate")
    /\ configs' = [configs EXCEPT ![req[q].doc].isActive = TRUE]
    /\ Activated(q)
    /\ Finish(q)
    /\ UNCHANGED <<tariff, deliveries, served, faults, muddled, late>>

SetTerms(i, c) ==
    /\ Serve
    /\ configs[i].terms # c
    /\ configs' = [configs EXCEPT ![i].terms = c]
    /\ UNCHANGED <<tariff, deliveries, req, faults, muddled, late, unsettled, withdrawn>>

Deactivate(i) ==
    /\ Serve
    /\ configs[i].isActive
    /\ configs' = [configs EXCEPT ![i].isActive = FALSE]
    /\ withdrawn' = TRUE
    /\ req' = [p \in Requests |-> [req[p] EXCEPT !.alone = FALSE]]
    /\ UNCHANGED <<tariff, deliveries, faults, muddled, late, unsettled>>

(* A table has another entry, or none, for x: one is created, updated or   *)
(* made inactive.                                                          *)
ChangeTable(x, p) ==
    /\ Serve
    /\ tariff[x] # p
    /\ tariff' = [tariff EXCEPT ![x] = p]
    /\ UNCHANGED <<configs, deliveries, req, faults, muddled, late, unsettled, withdrawn>>

(* The active slot, or zone, with the highest priority is another one.     *)
ChangeTimePricing(t, p) == t \in Times /\ ChangeTable(t, p)
ChangeZone(z, p)        == z \in Places /\ ChangeTable(z, p)
ChangeCategory(k, p)    == k \in Categories /\ ChangeTable(k, p)
ChangeHandling(h, p)    == h \in Handlings /\ ChangeTable(h, p)

-----------------------------------------------------------------------------
(* user-api: a customer books a delivery. *)

(* What the tables say of an order: no zone, no category and no handling   *)
(* cost nothing, nor does a category whose multiplier is zero.             *)
CategoryMultiplier(k) == IF tariff[k].priceMultiplier = 0 THEN 100 ELSE tariff[k].priceMultiplier

ZoneAt(place) == tariff[place]

IsInterZone(o) == o.pickup # o.dropoff /\ ZoneAt(o.pickup).isActive /\ ZoneAt(o.dropoff).isActive

LookUp(o) ==
    [distance |-> o.distance,
     fees |-> tariff[o.category].additionalFee + tariff[o.handling].additionalFee,
     category |-> CategoryMultiplier(o.category), zone |-> ZoneAt(o.pickup).priceMultiplier,
     interZone |-> IsInterZone(o), coupon |-> o.coupon]

(* calculatePricing: any config that is active can be the one found. *)
StartRequest(q, o, t) ==
    /\ Serve
    /\ Len(deliveries) + Cardinality({p \in Requests : At(p, "price")}) < MaxDeliveries
    /\ \E i \in Active :
          Begin(q, [Idle EXCEPT !.at = "price", !.terms = configs[i].terms, !.order = o, !.time = t])
    /\ UNCHANGED <<docs, faults, muddled, late, unsettled, withdrawn>>

CreateDeliveryRequest(q) ==
    /\ At(q, "price")
    /\ LET t == req[q].time
           pricing == Pricing(req[q].terms, LookUp(req[q].order), tariff[t])
       IN deliveries' = Append(deliveries,
             [pricing |-> pricing, scheduled |-> t, covered |-> pricing.timeMultiplier,
              canReschedule |-> TRUE, moves |-> <<>>, booked |-> t])
    /\ Finish(q)
    /\ UNCHANGED <<configs, tariff, history>>

-----------------------------------------------------------------------------
(* user-api: the customer reschedules it. *)

(* Mutant: a delivery that is locked can be rescheduled. *)
StartRescheduleMutant(q, d, t) ==
    /\ Serve
    /\ Begin(q, [Idle EXCEPT !.at = "slot", !.doc = d, !.time = t,
                             !.from = deliveries[d].scheduled])
    /\ muddled' = IF \E p \in Others(q, Rescheduling) : req[p].doc = d
                  THEN muddled \union {d} ELSE muddled
    /\ UNCHANGED <<docs, faults, late, unsettled, withdrawn>>

StartReschedule(q, d, t) ==
    /\ Serve
    /\ deliveries[d].canReschedule
    /\ Begin(q, [Idle EXCEPT !.at = "slot", !.doc = d, !.time = t,
                             !.from = deliveries[d].scheduled])
    /\ muddled' = IF \E p \in Others(q, Rescheduling) : req[p].doc = d
                  THEN muddled \union {d} ELSE muddled
    /\ UNCHANGED <<docs, faults, late, unsettled, withdrawn>>

(* Mutant: the two multipliers are swapped. *)
PriceAtMutant(pricing, t) ==
    LET new == IF t.priceMultiplier = 0 THEN 100 ELSE t.priceMultiplier
    IN IF t = NoTimePricing THEN pricing.totalPrice
       ELSE Round(pricing.totalPrice * pricing.timeMultiplier, new)

(* The price at another time: the old multiplier is divided out, where it  *)
(* is not zero.  A time without a slot costs what was paid.                *)
PriceAt(pricing, t) ==
    LET old == IF pricing.timeMultiplier = 0 THEN 100 ELSE pricing.timeMultiplier
    IN IF t = NoTimePricing THEN pricing.totalPrice
       ELSE Round(pricing.totalPrice * t.priceMultiplier, old)

(* A dearer time asks for a payment, and the request is over. *)
ReadSlot(q) ==
    /\ At(q, "slot")
    /\ LET d == deliveries[req[q].doc]
           t == tariff[req[q].time]
       IN IF PriceAt(d.pricing, t) > d.pricing.totalPrice
          THEN Finish(q)
          ELSE req' = [req EXCEPT ![q].at = "remember", ![q].covers = t.priceMultiplier]
    /\ UNCHANGED <<docs, history>>

(* Mutant: every move is recorded from the time that was booked. *)
AddRescheduleHistoryMutant(q) ==
    /\ At(q, "remember")
    /\ deliveries' = [deliveries EXCEPT ![req[q].doc].moves =
                        Append(@, [from |-> deliveries[req[q].doc].booked, to |-> req[q].time])]
    /\ req' = [req EXCEPT ![q].at = "move"]
    /\ UNCHANGED <<configs, tariff, history>>

AddRescheduleHistory(q) ==
    /\ At(q, "remember")
    /\ deliveries' = [deliveries EXCEPT ![req[q].doc].moves =
                        Append(@, [from |-> req[q].from, to |-> req[q].time])]
    /\ req' = [req EXCEPT ![q].at = "move"]
    /\ UNCHANGED <<configs, tariff, history>>

UpdateScheduledTime(q) ==
    /\ At(q, "move")
    /\ deliveries' = [deliveries EXCEPT ![req[q].doc].scheduled = req[q].time,
                                        ![req[q].doc].covered = req[q].covers]
    /\ Finish(q)
    /\ UNCHANGED <<configs, tariff, history>>

(* delivery-api: a rider accepts, which locks the time, or gives up.       *)
Lock(d) ==
    /\ deliveries[d].canReschedule
    /\ deliveries' = [deliveries EXCEPT ![d].canReschedule = FALSE]
    /\ late' = IF \E q \in Requests : req[q].doc = d /\ req[q].at \in Rescheduling
               THEN late \union {d} ELSE late
    /\ UNCHANGED <<configs, tariff, req, served, faults, muddled, unsettled, withdrawn>>

Unlock(d) ==
    /\ ~deliveries[d].canReschedule
    /\ deliveries' = [deliveries EXCEPT ![d].canReschedule = TRUE]
    /\ UNCHANGED <<configs, tariff, req, history>>

-----------------------------------------------------------------------------
(* An await throws or the process stops: what was done stays done. *)
Fail(q) ==
    /\ ~At(q, "idle")
    /\ faults < MaxFaults
    /\ faults' = faults + 1
    /\ muddled' = IF At(q, "move") THEN muddled \union {req[q].doc} ELSE muddled
    /\ unsettled' = (unsettled \/ req[q].at \in Activating)
    /\ Finish(q)
    /\ UNCHANGED <<docs, served, late, withdrawn>>

Step(q) ==
    \/ DeactivateOthers(q)
    \/ DeactivateFirst(q)
    \/ Activate(q)
    \/ CreateDeliveryRequest(q)
    \/ ReadSlot(q)
    \/ AddRescheduleHistory(q)
    \/ UpdateScheduledTime(q)

Start(q) ==
    \/ \E c \in Configs : CreatePricingConfig(q, c)
    \/ \E i \in DOMAIN configs : StartActivation(q, i)
    \/ \E o \in Orders : \E t \in Times : StartRequest(q, o, t)
    \/ \E d \in DOMAIN deliveries : \E t \in Times : StartReschedule(q, d, t)

TimeTable == \E t \in Times : \E p \in TimePricings : ChangeTimePricing(t, p)
ZoneTable == \E z \in Places : \E p \in TimePricings : ChangeZone(z, p)

CatalogTables ==
    \/ \E k \in Categories : \E p \in TimePricings : ChangeCategory(k, p)
    \/ \E h \in Handlings : \E p \in TimePricings : ChangeHandling(h, p)

Next ==
    \/ \E q \in Requests : Step(q) \/ Start(q) \/ Fail(q)
    \/ \E i \in DOMAIN configs : Deactivate(i) \/ \E c \in Configs : SetTerms(i, c)
    \/ TimeTable \/ ZoneTable \/ CatalogTables
    \/ \E d \in DOMAIN deliveries : Lock(d) \/ Unlock(d)

Spec == Init /\ [][Next]_vars

-----------------------------------------------------------------------------
(* Properties. *)

RequestType ==
    [at : {"idle", "price"} \union Activating \union Rescheduling, terms : Configs,
     order : Orders, time : Times \union {NoTime}, doc : Nat,
     from : Times \union {NoTime}, covers : Nat, alone : BOOLEAN]
ConfigType   == [terms : Configs, isActive : BOOLEAN]
MoveType     == [from : Times, to : Times]
DeliveryType ==
    [pricing : PricingType, scheduled : Times, covered : Nat, canReschedule : BOOLEAN,
     moves : Seq(MoveType), booked : Times]

(* Every variable has its type; no part of a price is negative, whatever   *)
(* multipliers below one and coupons do to it.                             *)
TypeOK ==
    /\ configs \in Seq(ConfigType)
    /\ tariff \in [Times \union Catalog -> TimePricings]
    /\ deliveries \in Seq(DeliveryType)
    /\ req \in [Requests -> RequestType]
    /\ served \in 0..MaxServed
    /\ faults \in 0..MaxFaults
    /\ muddled \subseteq DOMAIN deliveries
    /\ late \subseteq DOMAIN deliveries
    /\ unsettled \in BOOLEAN
    /\ withdrawn \in BOOLEAN

(* The customer pays for what the rider gets: the total is never less than *)
(* the service fee, and the rider's earnings exceed the total only where   *)
(* the least that a rider is paid does.                                    *)
PriceCoversShare ==
    \A d \in DOMAIN deliveries :
        LET p == deliveries[d].pricing
        IN /\ p.totalPrice + p.discountAmount = p.subtotal + p.serviceFee
           /\ p.serviceFee <= p.totalPrice
           /\ \/ p.riderEarnings <= p.totalPrice
              \/ \E c \in Configs : p.riderEarnings = c.minimumRiderPayout

(* What a price pays for: what it was made with, a time without a slot,    *)
(* and what costs the same when it is rounded.                             *)
Pays(pricing, multiplier) ==
    LET old == IF pricing.timeMultiplier = 0 THEN 100 ELSE pricing.timeMultiplier
    IN \/ multiplier = pricing.timeMultiplier
       \/ multiplier = NoTimePricing.priceMultiplier
       \/ 2 * pricing.totalPrice * multiplier < (2 * pricing.totalPrice + 1) * old

(* No sequence of reschedulings brings a delivery to a time that is dearer *)
(* than its price pays for, beyond half a naira of rounding: neither one   *)
(* by one through cheaper times, nor when the price of a time changes.     *)
TimeIsPaid == \A d \in DOMAIN deliveries : Pays(deliveries[d].pricing, deliveries[d].covered)

Resting(d) == \A q \in Requests : ~(req[q].doc = d /\ req[q].at \in Rescheduling)

(* The history of the times is a chain from the time that was booked to    *)
(* the one that holds, unless two reschedulings of the delivery crossed or *)
(* one stopped between the history and the time.                           *)
HistoryIsChain ==
    \A d \in DOMAIN deliveries \ muddled :
        LET moves == deliveries[d].moves
            times == <<deliveries[d].booked>> \o [k \in DOMAIN moves |-> moves[k].to]
        IN /\ \A k \in DOMAIN moves : moves[k].from = times[k]
           /\ Resting(d) => deliveries[d].scheduled = times[Len(times)]

(* "Lock rescheduling once rider accepts": the time of a locked delivery   *)
(* does not change, unless the customer's request had read it before.      *)
LockedStaysPut ==
    [][\A d \in DOMAIN deliveries \ late :
         ~deliveries[d].canReschedule => deliveries'[d].scheduled = deliveries[d].scheduled]_vars

(* "Deactivate all other configs": exactly one config is active whenever   *)
(* none is being activated, unless an admin withdrew it.  Activations that *)
(* cross or stop half way can leave two or none, and the next one that     *)
(* runs alone makes up for them.                                           *)
OneConfig ==
    (\A q \in Requests : req[q].at \notin Activating) /\ ~unsettled =>
        \/ Cardinality(Active) = 1
        \/ Active = {} /\ withdrawn
=============================================================================
