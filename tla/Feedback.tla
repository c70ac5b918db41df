------------------------------ MODULE Feedback ------------------------------
(***************************************************************************)
(* What customers say of a delivery: ratings and disputes.                 *)
(*                                                                         *)
(* user-api creates both by a sequence of awaits: it checks, creates the   *)
(* document, marks the delivery, and for a rating computes the rider's     *)
(* average anew and saves it.  admin-api works on the same disputes.       *)
(* Nothing is a transaction and nothing is unique but the ticket number.   *)
(*                                                                         *)
(* Riders do not share ratings, so that one rider is enough.  Comments,    *)
(* tags, tickets and priorities are left out, and so are an admin's        *)
(* messages, who is assigned and the refund a customer asks for: no code   *)
(* reads them.  A delivery moves on as DeliveryTrip says; here it only     *)
(* gets delivered.  There is no clock: whether the day in which a rating   *)
(* can be changed, and the week in which a dispute can be opened, are over *)
(* is left open, so that a request may be refused or served at any time.   *)
(***************************************************************************)
EXTENDS Integers, Sequences, SequencesExt, FiniteSets

CONSTANTS
    Deliveries,
    Scores,       \* the scores that customers give
    Statuses,     \* the statuses of a dispute that admins use
    NoDelivery,
    Requests,     \* requests that can be served at the same time
    MaxDocuments, \* bound: ratings and disputes
    MaxWords,     \* bound: what a customer adds to a dispute
    MaxFaults     \* bound: how often a request throws or its process dies

ASSUME FeedbackAssumption ==
    /\ Scores \subseteq 1..5
    /\ {"open", "in_review"} \subseteq Statuses
    /\ Statuses \subseteq {"open", "in_review", "resolved", "closed", "escalated"}
    /\ NoDelivery \notin Deliveries
    /\ {MaxDocuments, MaxWords, MaxFaults} \subseteq Nat

VARIABLES
    phase,    \* of each delivery: "in_transit" or "delivered"
    isRated, hasDispute,  \* the marks on each delivery
    ratings,  \* the rating documents, oldest first
    average,  \* the rider's averageRating, in tenths, and totalRatings
    disputes, \* the dispute documents, oldest first
    req,      \* what each request is doing
    failures,
    doubled,  \* history: deliveries whose check for a rating came too early
    raced,    \* history: deliveries two disputes of which were opened at once
    owed,     \* history: no request computed the average alone since one went wrong
    stale     \* history: disputes whose status changed while a request knew it

docs == <<phase, isRated, hasDispute, ratings, average, disputes>>
history == <<failures, doubled, raced, owed, stale>>
feedbackVars == <<docs, req, history>>

(* A request's locals: the document it works on, the score or status it    *)
(* read, the average it computed; alone: since it did, no other rated.     *)
NoAverage == [tenths |-> 0, total |-> 0]
NoRequest == [at |-> "idle", del |-> NoDelivery, doc |-> 0, score |-> 0, read |-> 0,
              status |-> "open", avg |-> NoAverage, alone |-> FALSE]

Rating     == {"create", "mark", "update", "aggregate", "save"}
Opening    == {"open", "refer"}
OnDispute  == {"message", "attach", "describe", "assign"}

FeedbackInit ==
    /\ phase = [d \in Deliveries |-> "in_transit"]
    /\ isRated = [d \in Deliveries |-> FALSE]
    /\ hasDispute = [d \in Deliveries |-> FALSE]
    /\ ratings = <<>>
    /\ average = NoAverage
    /\ disputes = <<>>
    /\ req = [q \in Requests |-> NoRequest]
    /\ failures = 0
    /\ doubled = {}
    /\ raced = {}
    /\ owed = FALSE
    /\ stale = {}

-----------------------------------------------------------------------------
At(q, l) == req[q].at = l
Goto(q, l) == req' = [req EXCEPT ![q].at = l]
Finish(q) == req' = [req EXCEPT ![q] = NoRequest]
Others(q, labels) == {p \in Requests \ {q} : req[p].at \in labels}

(* Documents that exist or are about to be created, for the bound. *)
Documents ==
    Len(ratings) + Len(disputes) + Cardinality({p \in Requests : req[p].at \in {"create", "open"}})

RatingsOf(d)  == {i \in DOMAIN ratings : ratings[i].del = d}
DisputesOf(d) == {i \in DOMAIN disputes : disputes[i].del = d}

(* The aggregation over the rider's ratings: Math.round(average * 10).     *)
RiderAverage ==
    LET n == Len(ratings)
        s == FoldLeft(LAMBDA t, r : t + r.score, 0, ratings)
    IN IF n = 0 THEN NoAverage ELSE [tenths |-> (20 * s + n) \div (2 * n), total |-> n]

(* Another request on ratings begins: who computed before is not alone,    *)
(* and the average may get behind.                                         *)
BeginRating(q, to) ==
    /\ At(q, "idle")
    /\ req' = [p \in Requests |->
                 IF p = q THEN to ELSE [req[p] EXCEPT !.alone = FALSE]]
    /\ owed' = (owed \/ Others(q, Rating) # {})

BeginDispute(q, to) == At(q, "idle") /\ req' = [req EXCEPT ![q] = to]

-----------------------------------------------------------------------------
(* user-api: a customer rates the rider. *)

StartRating(q, d, n) ==
    /\ Documents < MaxDocuments
    /\ phase[d] # "in_transit"
    /\ ~isRated[d]
    /\ BeginRating(q, [NoRequest EXCEPT !.at = "create", !.del = d, !.score = n])
    /\ doubled' = IF \E p \in Others(q, Rating) : req[p].del = d
                  THEN doubled \union {d} ELSE doubled
    /\ UNCHANGED <<docs, failures, raced, stale>>

CreateRating(q) ==
    /\ At(q, "create")
    /\ ratings' = Append(ratings, [del |-> req[q].del, score |-> req[q].score])
    /\ Goto(q, "mark")
    /\ UNCHANGED <<phase, isRated, hasDispute, average, disputes, history>>

(* Mutant: the rating is not marked on the delivery. *)
UpdateDeliveryRatingMutant(q) ==
    /\ At(q, "mark")
    /\ Goto(q, "aggregate")
    /\ UNCHANGED <<docs, history>>

UpdateDeliveryRating(q) ==
    /\ At(q, "mark")
    /\ isRated' = [isRated EXCEPT ![req[q].del] = TRUE]
    /\ Goto(q, "aggregate")
    /\ UNCHANGED <<phase, hasDispute, ratings, average, disputes, history>>

CalculateAverage(q) ==
    /\ At(q, "aggregate")
    /\ req' = [req EXCEPT ![q].at = "save", ![q].avg = RiderAverage,
                          ![q].alone = (Others(q, Rating) = {})]
    /\ UNCHANGED <<docs, history>>

UpdateRiderRating(q) ==
    /\ At(q, "save")
    /\ average' = req[q].avg
    /\ owed' = (owed /\ ~req[q].alone)
    /\ Finish(q)
    /\ UNCHANGED <<phase, isRated, hasDispute, ratings, disputes, failures, doubled, raced, stale>>

(* The customer changes the score; an update of the comment alone leaves   *)
(* the score as it is.                                                     *)
StartUpdate(q, i, n) ==
    /\ BeginRating(q, [NoRequest EXCEPT !.at = "update", !.doc = i, !.score = n,
                                        !.read = ratings[i].score])
    /\ UNCHANGED <<docs, failures, doubled, raced, stale>>

(* Mutant: a lower score does not count as a change. *)
UpdateRatingMutant(q) ==
    /\ At(q, "update")
    /\ ratings' = [ratings EXCEPT ![req[q].doc].score = req[q].score]
    /\ IF req[q].score <= req[q].read THEN Finish(q) ELSE Goto(q, "aggregate")
    /\ UNCHANGED <<phase, isRated, hasDispute, average, disputes, history>>

UpdateRating(q) ==
    /\ At(q, "update")
    /\ ratings' = [ratings EXCEPT ![req[q].doc].score = req[q].score]
    /\ IF req[q].score = req[q].read THEN Finish(q) ELSE Goto(q, "aggregate")
    /\ UNCHANGED <<phase, isRated, hasDispute, average, disputes, history>>

-----------------------------------------------------------------------------
(* user-api: a customer opens a dispute and adds to it. *)

(* The check of canCreateDispute; in transit or delivered, a delivery can  *)
(* be disputed.                                                            *)
StartDispute(q, d) ==
    /\ Documents < MaxDocuments
    /\ DisputesOf(d) = {}
    /\ BeginDispute(q, [NoRequest EXCEPT !.at = "open", !.del = d])
    /\ raced' = IF \E p \in Others(q, Opening) : req[p].del = d
                THEN raced \union {d} ELSE raced
    /\ UNCHANGED <<docs, failures, doubled, owed, stale>>

CreateDispute(q) ==
    /\ At(q, "open")
    /\ disputes' = Append(disputes, [del |-> req[q].del, status |-> "open", words |-> 0])
    /\ Goto(q, "refer")
    /\ UNCHANGED <<phase, isRated, hasDispute, ratings, average, history>>

UpdateDeliveryDispute(q) ==
    /\ At(q, "refer")
    /\ hasDispute' = [hasDispute EXCEPT ![req[q].del] = TRUE]
    /\ Finish(q)
    /\ UNCHANGED <<phase, isRated, ratings, average, disputes, history>>

Closed(d) == d.status \in {"resolved", "closed"}

(* The check of addDisputeMessage and updateDispute. *)
StartWords(q, i, l) ==
    /\ disputes[i].words < MaxWords
    /\ ~Closed(disputes[i])
    /\ BeginDispute(q, [NoRequest EXCEPT !.at = l, !.doc = i])
    /\ UNCHANGED <<docs, history>>

AddWords(q, from, to) ==
    /\ At(q, from)
    /\ disputes' = [disputes EXCEPT ![req[q].doc].words = @ + 1]
    /\ IF to = "idle" THEN Finish(q) ELSE Goto(q, to)
    /\ UNCHANGED <<phase, isRated, hasDispute, ratings, average, history>>

StartDisputeMessage(q, i) == StartWords(q, i, "message")
AddDisputeMessage(q)      == AddWords(q, "message", "idle")
StartUpdateDispute(q, i)  ==
    StartWords(q, i, "attach") \/ StartWords(q, i, "describe")
(* Without a description, the update that follows writes nothing. *)
AddAttachments(q)         == AddWords(q, "attach", "describe") \/ AddWords(q, "attach", "idle")
UpdateDescription(q)      == AddWords(q, "describe", "idle")

-----------------------------------------------------------------------------
(* admin-api: any status can be set at any time. *)

UpdateDisputeStatus(i, s) ==
    /\ disputes[i].status # s
    /\ disputes' = [disputes EXCEPT ![i].status = s]
    /\ stale' = IF \E q \in Requests : req[q].doc = i /\ req[q].at \in OnDispute
                THEN stale \union {i} ELSE stale
    /\ UNCHANGED <<phase, isRated, hasDispute, ratings, average, req, failures, doubled, raced, owed>>

StartAssign(q, i) ==
    /\ BeginDispute(q, [NoRequest EXCEPT !.at = "assign", !.doc = i, !.status = disputes[i].status])
    /\ UNCHANGED <<docs, history>>

(* Mutant: whoever is assigned reviews the dispute, whatever its status. *)
AssignDisputeMutant(q) ==
    /\ At(q, "assign")
    /\ disputes' = [disputes EXCEPT ![req[q].doc].status = "in_review"]
    /\ Finish(q)
    /\ UNCHANGED <<phase, isRated, hasDispute, ratings, average, history>>

(* The status that was read is written back. *)
AssignDispute(q) ==
    /\ At(q, "assign")
    /\ disputes' = [disputes EXCEPT ![req[q].doc].status =
                       IF req[q].status = "open" THEN "in_review" ELSE req[q].status]
    /\ stale' = IF \E p \in Others(q, OnDispute) : req[p].doc = req[q].doc
                THEN stale \union {req[q].doc} ELSE stale
    /\ Finish(q)
    /\ UNCHANGED <<phase, isRated, hasDispute, ratings, average, failures, doubled, raced, owed>>

-----------------------------------------------------------------------------
(* Deliveries arrive. *)

Deliver(d) ==
    /\ phase[d] = "in_transit"
    /\ phase' = [phase EXCEPT ![d] = "delivered"]
    /\ UNCHANGED <<isRated, hasDispute, ratings, average, disputes, req, history>>

(* An await throws or the process stops: what was done stays done.  A      *)
(* rating that was created but not marked can be created again.            *)
Fail(q) ==
    /\ ~At(q, "idle")
    /\ failures < MaxFaults
    /\ failures' = failures + 1
    /\ owed' = (owed \/ req[q].at \in Rating)
    /\ doubled' = IF At(q, "mark") THEN doubled \union {req[q].del} ELSE doubled
    /\ Finish(q)
    /\ UNCHANGED <<docs, raced, stale>>

StepRating(q) ==
    \/ CreateRating(q)
    \/ UpdateDeliveryRating(q)
    \/ CalculateAverage(q)
    \/ UpdateRiderRating(q)
    \/ UpdateRating(q)

StepDispute(q) ==
    \/ CreateDispute(q)
    \/ UpdateDeliveryDispute(q)
    \/ AddDisputeMessage(q)
    \/ AddAttachments(q)
    \/ UpdateDescription(q)
    \/ AssignDispute(q)

(* What customers and administrators ask for. *)
AskRating(q) ==
    \/ \E d \in Deliveries : \E n \in Scores : StartRating(q, d, n)
    \/ \E i \in DOMAIN ratings : \E n \in Scores : StartUpdate(q, i, n)

AskDispute(q) ==
    \/ \E d \in Deliveries : StartDispute(q, d)
    \/ \E i \in DOMAIN disputes : StartDisputeMessage(q, i) \/ StartUpdateDispute(q, i)

Administer ==
    \E i \in DOMAIN disputes :
        \/ \E q \in Requests : StartAssign(q, i)
        \/ \E s \in Statuses : UpdateDisputeStatus(i, s)

FeedbackNext ==
    \/ \E q \in Requests :
          StepRating(q) \/ StepDispute(q) \/ AskRating(q) \/ AskDispute(q) \/ Fail(q)
    \/ Administer
    \/ \E d \in Deliveries : Deliver(d)

FeedbackSpec == FeedbackInit /\ [][FeedbackNext]_feedbackVars

-----------------------------------------------------------------------------
(* Properties. *)

AverageType == [tenths : 0..50, total : Nat]

(* Every variable has its type; the average is one of the scores' range,   *)
(* or zero while nobody rated.                                             *)
FeedbackTypeOK ==
    /\ phase \in [Deliveries -> {"in_transit", "delivered"}]
    /\ isRated \in [Deliveries -> BOOLEAN]
    /\ hasDispute \in [Deliveries -> BOOLEAN]
    /\ ratings \in Seq([del : Deliveries, score : Scores])
    /\ average \in AverageType
    /\ disputes \in Seq([del : Deliveries, status : Statuses, words : Nat])
    /\ \A q \in Requests :
          /\ req[q].at \in {"idle"} \union Rating \union Opening \union OnDispute
          /\ req[q].avg \in AverageType
    /\ failures \in 0..MaxFaults
    /\ doubled \subseteq Deliveries
    /\ raced \subseteq Deliveries
    /\ owed \in BOOLEAN
    /\ stale \subseteq DOMAIN disputes

(* "This delivery has already been rated": a delivery has one rating,      *)
(* unless a second request checked before the first had marked it, or the  *)
(* first stopped before it did.                                            *)
RatedOnce == \A d \in Deliveries \ doubled : Cardinality(RatingsOf(d)) <= 1

(* "A dispute already exists": a delivery has one dispute unless two       *)
(* requests opened one together.  Here a request that stops half way does  *)
(* no harm: the check asks for the dispute, not for the mark.              *)
DisputeOnce == \A d \in Deliveries \ raced : Cardinality(DisputesOf(d)) <= 1

(* A mark on a delivery always has its document behind it, through faults  *)
(* and races: the admins' list of disputed deliveries shows no delivery    *)
(* without a dispute, and no customer is kept from rating by a rating that *)
(* does not exist.                                                         *)
MarksAreBacked ==
    \A d \in Deliveries :
        /\ isRated[d] => RatingsOf(d) # {}
        /\ hasDispute[d] => DisputesOf(d) # {}

(* Documents and the marks on deliveries agree: each of the four above.    *)
MarksAgree == FeedbackTypeOK /\ RatedOnce /\ DisputeOnce /\ MarksAreBacked

AtRest == \A q \in Requests : At(q, "idle")

(* The rider's average is that of the ratings whenever nothing is being    *)
(* served.  Requests that fail, or cross, can leave it behind, and the     *)
(* next one that computes it alone makes up for them all.                  *)
AverageIsCurrent == AtRest /\ ~owed => average = RiderAverage

(* Only an admin's decision opens a dispute that was resolved or closed,   *)
(* and the customer adds nothing to it meanwhile: neither an assignment    *)
(* nor a message does, unless it knew the dispute from before its status   *)
(* changed.                                                                *)
ClosedIsQuiet ==
    [][\A i \in DOMAIN disputes \ stale :
         Closed(disputes[i]) =>
             /\ disputes'[i].words = disputes[i].words
             /\ \/ Closed(disputes'[i])
                \/ \E s \in Statuses : UpdateDisputeStatus(i, s)]_feedbackVars
=============================================================================
