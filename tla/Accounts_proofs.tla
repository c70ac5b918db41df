--------------------------- MODULE Accounts_proofs ---------------------------
(***************************************************************************)
(* Proofs about Accounts: types, and what holds of codes, addresses,       *)
(* devices, sessions, locks, super admins and suspensions.                 *)
(*                                                                         *)
(* A request is a list of steps it still has to take.  What all its steps  *)
(* may do (Fits) and which may follow which (Leads) is fixed when it is    *)
(* served; what has to be true of the account when a step is the next one  *)
(* is a part of the invariant it matters to.  It may turn false only if    *)
(* two requests of one group overlap: Overlaps.                            *)
(***************************************************************************)
EXTENDS Accounts, FiniteSetTheorems, SequenceTheorems, TLAPS

UserSchema ==
    [known |-> BOOLEAN, active |-> BOOLEAN, confirmed |-> BOOLEAN, mail |-> 0..MaxCalls,
     code |-> 0..MaxCalls, addresses |-> SUBSET (1..MaxCalls)]

RiderSchema ==
    [known |-> BOOLEAN, active |-> BOOLEAN, verified |-> BOOLEAN, mustChange |-> BOOLEAN,
     code |-> 0..MaxCalls, device |-> Devices \union {NoDevice}, suspended |-> BOOLEAN,
     online |-> BOOLEAN, carrying |-> BOOLEAN]

AdminSchema ==
    [known |-> BOOLEAN, active |-> BOOLEAN, super |-> BOOLEAN, failed |-> 0..MaxCalls,
     locked |-> BOOLEAN]

Schema(k) == IF k = "rider" THEN RiderSchema ELSE IF k = "admin" THEN AdminSchema ELSE UserSchema

(* A document of an account of kind k. *)
Holds(k, d) ==
    /\ d = [x \in DOMAIN Schema(k) |-> d[x]]
    /\ \A x \in DOMAIN Schema(k) : d[x] \in Schema(k)[x]

(* What an update may set; the other fields have steps of their own. *)
Change(k, f) ==
    /\ DOMAIN f \subseteq DOMAIN Schema(k) \ {"known", "addresses", "failed", "locked"}
    /\ \A x \in DOMAIN f : f[x] \in Schema(k)[x]

Gives(s, x)  == s.op = "update" /\ x \in DOMAIN s.to
Looked(v, u) == v \in u \union {NoDevice}

(* Step s of a request of groups G at an account of kind k, after n calls  *)
(* and with the devices u bound unchecked.                                 *)
Fits(k, G, s, n, u) ==
    /\ s.op \in {"update", "register"} => Change(k, s.to)
    /\ s.op = "register" => DOMAIN s.to \subseteq {"mail", "confirmed", "verified", "super"}
    /\ s.op \in {"update", "register"} /\ k = "admin" => "super" \in G
    /\ Gives(s, "code") => s.to.code \in 1..n
    /\ Gives(s, "carrying") \/ Gives(s, "suspended") => "work" \in G
    /\ Gives(s, "carrying") => DOMAIN s.to = {"carrying"}
    /\ Gives(s, "suspended") /\ s.to.suspended => "online" \in DOMAIN s.to /\ s.to.online = FALSE
    /\ Gives(s, "device") => "device" \in G \/ Looked(s.to.device, u)
    /\ s.op = "create" => "session" \in G
    /\ s.op = "spend" => "code" \in G /\ k # "admin" /\ s.code \in 1..n
    /\ s.op \in {"addAddress", "dropAddress"} => k = "customer"
    /\ s.op = "addAddress" => s.id \in 1..n
    /\ s.op = "miss" => k = "admin" /\ "attempt" \in G /\ s.count \in 1..n
    /\ s.op = "forgive" => k = "admin" /\ "attempt" \in G

(* Step s right after step p. *)
Leads(k, p, s, u) ==
    /\ p.op # "create"
    /\ s.op \notin {"register", "addAddress", "spend", "miss"} /\ ~Gives(s, "code")
    /\ s.op = "create" => p.op \in {"find", "revokeAll"}
    /\ Gives(s, "device") => Looked(s.to.device, u) \/ (p.op = "device" /\ p.device = s.to.device)
    /\ Gives(s, "suspended") => p.op = "carrying"
    /\ s.op = "update" /\ k = "admin" => p.op = "supers"

Groups ==
    {"session", "mail", "request", "code", "logout", "active", "address", "device",
     "toggle", "work", "papers", "reset", "attempt", "super"}

IsSequence(s) == \E S : s \in Seq(S)

Planned(r, k, n, u) ==
    /\ r = [acct |-> r.acct, groups |-> r.groups, todo |-> r.todo]
    /\ r.acct \in Accounts /\ r.groups \subseteq Groups
    /\ IsSequence(r.todo) /\ r.todo # <<>>
    /\ \A i \in 1..Len(r.todo) : Fits(k, r.groups, r.todo[i], n, u)
    /\ \A i \in 1..(Len(r.todo) - 1) : Leads(k, r.todo[i], r.todo[i + 1], u)

Busy(q)    == req[q].todo # <<>>
Nxt(q)     == Head(req[q].todo)
Account(q) == req[q].acct

RequestInv ==
    /\ DOMAIN req = Requests
    /\ \A q \in Requests :
         \/ req[q] = Idle
         \/ /\ Planned(req[q], kind[Account(q)], calls, unchecked)
            /\ Nxt(q).op # "register" => doc[Account(q)].known

Overlaps ==
    \A p, q \in Requests : p # q /\ Busy(p) /\ Busy(q) =>
        \A g \in req[p].groups \intersect req[q].groups :
            /\ Account(p) = Account(q) => Raced(g, Account(p))
            /\ g \in Shared => Raced(g, Account(p)) \/ Raced(g, Account(q))

(* A call creates one refresh token at most. *)
Creating(a) ==
    {q \in Requests : /\ Busy(q) /\ Account(q) = a
                      /\ \E i \in 1..Len(req[q].todo) : req[q].todo[i].op = "create"}

TokensCounted == \A a \in Accounts : live[a] + Cardinality(Creating(a)) <= calls

(* Codes and counts are made by calls. *)
Counted ==
    \A a \in Accounts : /\ Admin(a) => doc[a].failed <= calls
                        /\ ~Admin(a) => doc[a].code <= calls

Base == TypeOK /\ RequestInv /\ Overlaps /\ TokensCounted /\ Counted

-----------------------------------------------------------------------------
(* Documents. *)

Documents(k) ==
    IF k = "rider"
    THEN [known : BOOLEAN, active : BOOLEAN, verified : BOOLEAN, mustChange : BOOLEAN,
          code : 0..MaxCalls, device : Devices \union {NoDevice}, suspended : BOOLEAN,
          online : BOOLEAN, carrying : BOOLEAN]
    ELSE IF k = "admin"
    THEN [known : BOOLEAN, active : BOOLEAN, super : BOOLEAN, failed : 0..MaxCalls,
          locked : BOOLEAN]
    ELSE [known : BOOLEAN, active : BOOLEAN, confirmed : BOOLEAN, mail : 0..MaxCalls,
          code : 0..MaxCalls, addresses : SUBSET (1..MaxCalls)]

LEMMA SchemaFields ==
    /\ DOMAIN Schema("rider") = {"known", "active", "verified", "mustChange", "code", "device",
                                 "suspended", "online", "carrying"}
    /\ DOMAIN Schema("admin") = {"known", "active", "super", "failed", "locked"}
    /\ \A k : k \notin {"rider", "admin"} =>
          DOMAIN Schema(k) = {"known", "active", "confirmed", "mail", "code", "addresses"}
  BY DEF Schema, RiderSchema, AdminSchema, UserSchema

LEMMA SchemaValues ==
    /\ LET T == Schema("rider")
       IN  /\ T["known"] = BOOLEAN /\ T["active"] = BOOLEAN /\ T["verified"] = BOOLEAN
           /\ T["mustChange"] = BOOLEAN /\ T["code"] = 0..MaxCalls
           /\ T["device"] = Devices \union {NoDevice} /\ T["suspended"] = BOOLEAN
           /\ T["online"] = BOOLEAN /\ T["carrying"] = BOOLEAN
    /\ LET T == Schema("admin")
       IN  /\ T["known"] = BOOLEAN /\ T["active"] = BOOLEAN /\ T["super"] = BOOLEAN
           /\ T["failed"] = 0..MaxCalls /\ T["locked"] = BOOLEAN
    /\ \A k : k \notin {"rider", "admin"} =>
          LET T == Schema(k)
          IN  /\ T["known"] = BOOLEAN /\ T["active"] = BOOLEAN /\ T["confirmed"] = BOOLEAN
              /\ T["mail"] = 0..MaxCalls /\ T["code"] = 0..MaxCalls
              /\ T["addresses"] = SUBSET (1..MaxCalls)
  BY DEF Schema, RiderSchema, AdminSchema, UserSchema

LEMMA DocumentsHold ==
    ASSUME NEW k, NEW d
    PROVE  d \in Documents(k) <=> Holds(k, d)
<1>1. CASE k = "rider"
  <2>1. ASSUME d \in Documents(k) PROVE Holds(k, d)
    <3>1. d = [x \in DOMAIN Schema(k) |-> d[x]]
      BY <1>1, <2>1, SchemaFields DEF Documents
    <3>2. /\ d["known"] \in BOOLEAN /\ d["active"] \in BOOLEAN /\ d["verified"] \in BOOLEAN
          /\ d["mustChange"] \in BOOLEAN /\ d["code"] \in 0..MaxCalls
          /\ d["device"] \in Devices \union {NoDevice} /\ d["suspended"] \in BOOLEAN
          /\ d["online"] \in BOOLEAN /\ d["carrying"] \in BOOLEAN
      BY <1>1, <2>1 DEF Documents
    <3>3. \A x \in DOMAIN Schema(k) : d[x] \in Schema(k)[x]
      BY <1>1, <3>2, SchemaFields, SchemaValues
    <3> QED
      BY <3>1, <3>3 DEF Holds
  <2>2. ASSUME Holds(k, d) PROVE d \in Documents(k)
    <3>1. d = [known |-> d["known"], active |-> d["active"], verified |-> d["verified"],
               mustChange |-> d["mustChange"], code |-> d["code"], device |-> d["device"],
               suspended |-> d["suspended"], online |-> d["online"], carrying |-> d["carrying"]]
      BY <1>1, <2>2, SchemaFields DEF Holds
    <3>2. /\ d["known"] \in BOOLEAN /\ d["active"] \in BOOLEAN /\ d["verified"] \in BOOLEAN
          /\ d["mustChange"] \in BOOLEAN /\ d["code"] \in 0..MaxCalls
          /\ d["device"] \in Devices \union {NoDevice} /\ d["suspended"] \in BOOLEAN
          /\ d["online"] \in BOOLEAN /\ d["carrying"] \in BOOLEAN
      BY <1>1, <2>2 DEF Holds, Schema, RiderSchema
    <3> QED
      BY <1>1, <3>1, <3>2 DEF Documents
  <2> QED
    BY <2>1, <2>2
<1>2. CASE k = "admin"
  <2>1. ASSUME d \in Documents(k) PROVE Holds(k, d)
    <3>1. d = [x \in DOMAIN Schema(k) |-> d[x]]
      BY <1>2, <2>1, SchemaFields DEF Documents
    <3>2. /\ d["known"] \in BOOLEAN /\ d["active"] \in BOOLEAN /\ d["super"] \in BOOLEAN
          /\ d["failed"] \in 0..MaxCalls /\ d["locked"] \in BOOLEAN
      BY <1>2, <2>1 DEF Documents
    <3>3. \A x \in DOMAIN Schema(k) : d[x] \in Schema(k)[x]
      BY <1>2, <3>2, SchemaFields, SchemaValues
    <3> QED
      BY <3>1, <3>3 DEF Holds
  <2>2. ASSUME Holds(k, d) PROVE d \in Documents(k)
    <3>1. d = [known |-> d["known"], active |-> d["active"], super |-> d["super"],
               failed |-> d["failed"], locked |-> d["locked"]]
      BY <1>2, <2>2, SchemaFields DEF Holds
    <3>2. /\ d["known"] \in BOOLEAN /\ d["active"] \in BOOLEAN /\ d["super"] \in BOOLEAN
          /\ d["failed"] \in 0..MaxCalls /\ d["locked"] \in BOOLEAN
      BY <1>2, <2>2 DEF Holds, Schema, AdminSchema
    <3> QED
      BY <1>2, <3>1, <3>2 DEF Documents
  <2> QED
    BY <2>1, <2>2
<1>3. CASE k \notin {"rider", "admin"}
  <2>1. ASSUME d \in Documents(k) PROVE Holds(k, d)
    <3>1. d = [x \in DOMAIN Schema(k) |-> d[x]]
      BY <1>3, <2>1, SchemaFields DEF Documents
    <3>2. /\ d["known"] \in BOOLEAN /\ d["active"] \in BOOLEAN /\ d["confirmed"] \in BOOLEAN
          /\ d["mail"] \in 0..MaxCalls /\ d["code"] \in 0..MaxCalls
          /\ d["addresses"] \in SUBSET (1..MaxCalls)
      BY <1>3, <2>1 DEF Documents
    <3>3. \A x \in DOMAIN Schema(k) : d[x] \in Schema(k)[x]
      <4>1. DOMAIN Schema(k) = {"known", "active", "confirmed", "mail", "code", "addresses"}
        BY <1>3, SchemaFields
      <4>2. LET T == Schema(k)
            IN  /\ T["known"] = BOOLEAN /\ T["active"] = BOOLEAN /\ T["confirmed"] = BOOLEAN
                /\ T["mail"] = 0..MaxCalls /\ T["code"] = 0..MaxCalls
                /\ T["addresses"] = SUBSET (1..MaxCalls)
        BY <1>3, SchemaValues
      <4> QED
        BY <3>2, <4>1, <4>2
    <3> QED
      BY <3>1, <3>3 DEF Holds
  <2>2. ASSUME Holds(k, d) PROVE d \in Documents(k)
    <3>1. d = [known |-> d["known"], active |-> d["active"], confirmed |-> d["confirmed"],
               mail |-> d["mail"], code |-> d["code"], addresses |-> d["addresses"]]
      BY <1>3, <2>2, SchemaFields DEF Holds
    <3>2. /\ d["known"] \in BOOLEAN /\ d["active"] \in BOOLEAN /\ d["confirmed"] \in BOOLEAN
          /\ d["mail"] \in 0..MaxCalls /\ d["code"] \in 0..MaxCalls
          /\ d["addresses"] \in SUBSET (1..MaxCalls)
      BY <1>3, <2>2 DEF Holds, Schema, UserSchema
    <3> QED
      BY <1>3, <3>1, <3>2 DEF Documents
  <2> QED
    BY <2>1, <2>2
<1> QED
  BY <1>1, <1>2, <1>3

LEMMA MergedFields ==
    ASSUME NEW d, NEW f
    PROVE  /\ DOMAIN Merged(d, f) = DOMAIN d
           /\ \A x \in DOMAIN d : Merged(d, f)[x] = IF x \in DOMAIN f THEN f[x] ELSE d[x]
  BY DEF Merged

LEMMA MergedHolds ==
    ASSUME NEW k, NEW d, NEW f, Holds(k, d), Change(k, f)
    PROVE  Holds(k, Merged(d, f))
  BY DEF Holds, Change, Merged

-----------------------------------------------------------------------------
(* Lists of steps. *)

LEMMA SomeLeft ==
    ASSUME NEW S, NEW t \in Seq(S), Len(t) # 0
    PROVE  t # <<>> /\ Head(t) = t[1]
  OBVIOUS

LEMMA PoppedOf ==
    ASSUME NEW S, NEW s \in Seq(S), s # <<>>
    PROVE  /\ Len(s) \in Nat \ {0} /\ Head(s) = s[1]
           /\ Tail(s) \in Seq(S) /\ Len(Tail(s)) = Len(s) - 1
           /\ \A i \in 1..(Len(s) - 1) : Tail(s)[i] = s[i + 1]
  OBVIOUS

LEMMA Popped ==
    ASSUME NEW s, IsSequence(s), s # <<>>
    PROVE  /\ Len(s) \in Nat \ {0} /\ Head(s) = s[1]
           /\ IsSequence(Tail(s)) /\ Len(Tail(s)) = Len(s) - 1
           /\ \A i \in 1..(Len(s) - 1) : Tail(s)[i] = s[i + 1]
           /\ Len(s) # 1 => Tail(s) # <<>> /\ Head(Tail(s)) = s[2]
<1>1. PICK S : s \in Seq(S)
  BY DEF IsSequence
<1>2. /\ Len(s) \in Nat \ {0} /\ Head(s) = s[1]
      /\ Tail(s) \in Seq(S) /\ Len(Tail(s)) = Len(s) - 1
      /\ \A i \in 1..(Len(s) - 1) : Tail(s)[i] = s[i + 1]
  BY <1>1, PoppedOf
<1>3. ASSUME Len(s) # 1
      PROVE  Tail(s) # <<>> /\ Head(Tail(s)) = s[2]
  <2>1. Len(Tail(s)) # 0 /\ Tail(s)[1] = s[2]
    <3>1. 1 \in 1..(Len(s) - 1) /\ 1 + 1 = 2
      BY <1>2, <1>3
    <3> QED
      BY <1>2, <1>3, <3>1
  <2>2. Tail(s) # <<>> /\ Head(Tail(s)) = Tail(s)[1]
    BY <1>2, <2>1, SomeLeft
  <2> QED
    BY <2>1, <2>2
<1> QED
  BY <1>2, <1>3 DEF IsSequence

LEMMA Retold ==
    ASSUME NEW r, NEW x, NEW y, NEW s, r = [acct |-> x, groups |-> y, todo |-> s], NEW n
    PROVE  [r EXCEPT !.todo = n] = [acct |-> x, groups |-> y, todo |-> n]
  OBVIOUS

LEMMA Shorter ==
    ASSUME NEW r, NEW k, NEW n, NEW u, Planned(r, k, n, u), Len(r.todo) # 1
    PROVE  LET t == [r EXCEPT !.todo = Tail(@)]
           IN  /\ Planned(t, k, n, u)
               /\ t.acct = r.acct /\ t.groups = r.groups /\ t.todo = Tail(r.todo)
               /\ Leads(k, Head(r.todo), Head(t.todo), u)
<1> DEFINE t == [r EXCEPT !.todo = Tail(@)]
<1>1. t = [acct |-> r.acct, groups |-> r.groups, todo |-> Tail(r.todo)]
  BY Retold DEF Planned
<1>2. /\ Len(r.todo) \in Nat \ {0} /\ Head(r.todo) = r.todo[1]
      /\ IsSequence(Tail(r.todo)) /\ Len(Tail(r.todo)) = Len(r.todo) - 1
      /\ \A i \in 1..(Len(r.todo) - 1) : Tail(r.todo)[i] = r.todo[i + 1]
      /\ Tail(r.todo) # <<>> /\ Head(Tail(r.todo)) = r.todo[2]
  BY Popped DEF Planned
<1>3. /\ t.acct = r.acct /\ t.groups = r.groups /\ t.todo = Tail(r.todo)
      /\ t = [acct |-> t.acct, groups |-> t.groups, todo |-> t.todo]
  BY <1>1
<1> HIDE DEF t
<1>4. ASSUME NEW i \in 1..Len(t.todo)
      PROVE  Fits(k, t.groups, t.todo[i], n, u)
  <2>1. i \in 1..(Len(r.todo) - 1) /\ i + 1 \in 1..Len(r.todo)
    BY <1>2, <1>3
  <2> QED
    BY <1>2, <1>3, <2>1 DEF Planned
<1>5. ASSUME NEW i \in 1..(Len(t.todo) - 1)
      PROVE  Leads(k, t.todo[i], t.todo[i + 1], u)
  <2>1. i \in 1..(Len(r.todo) - 1) /\ i + 1 \in 1..(Len(r.todo) - 1)
    BY <1>2, <1>3
  <2> QED
    BY <1>2, <1>3, <2>1 DEF Planned
<1>6. Leads(k, Head(r.todo), Head(t.todo), u)
  <2>1. 1 \in 1..(Len(r.todo) - 1) /\ 1 + 1 = 2
    BY <1>2
  <2> QED
    BY <1>2, <1>3, <2>1 DEF Planned
<1>7. Planned(t, k, n, u)
  BY <1>2, <1>3, <1>4, <1>5 DEF Planned
<1> QED
  BY <1>3, <1>6, <1>7 DEF t

-----------------------------------------------------------------------------
(* What a request does when it takes a step.                               *)

DocsOK == DOMAIN doc = Accounts /\ \A a \in Accounts : Holds(kind[a], doc[a])

LEMMA Typed ==
    ASSUME TypeOK
    PROVE  /\ DocsOK /\ kind \in [Accounts -> Kinds]
           /\ \A a \in Accounts : /\ Rider(a) <=> kind[a] = "rider"
                                  /\ Admin(a) <=> kind[a] = "admin"
                                  /\ Customer(a) <=> kind[a] = "customer"
<1>1. \A a \in Accounts : doc[a] \in Documents(kind[a])
  BY DEF TypeOK, Documents, Rider, Admin
<1> QED
  BY <1>1, DocumentsHold DEF TypeOK, DocsOK, Rider, Admin, Customer

LEMMA DocsTyped ==
    ASSUME TypeOK, DocsOK', kind' = kind, RequestInv',
           live' \in [Accounts -> 0..MaxCalls], misses' \in [Accounts -> Nat],
           spent' \in [1..MaxCalls -> Nat], refused' \subseteq 1..MaxCalls,
           unchecked' \subseteq Devices \union {NoDevice}, demoted' \in BOOLEAN,
           recalled' \subseteq Accounts, calls' \in 0..MaxCalls, faults' \in 0..MaxFaults
    PROVE  TypeOK'
<1>1. \A a \in Accounts : doc'[a] \in Documents(kind'[a])
  BY DocumentsHold DEF DocsOK
<1>2. \A q \in Requests : req'[q] # Idle =>
        /\ req'[q].acct \in Accounts
        /\ req'[q].groups \subseteq Groups
  BY DEF RequestInv, Planned
<1> QED
  BY <1>1, <1>2 DEF TypeOK, Documents, Rider, Admin, DocsOK, Groups

LEMMA BusyOnes ==
    ASSUME RequestInv, NEW q \in Requests
    PROVE  /\ Busy(q) <=> req[q] # Idle
           /\ Busy(q) => /\ Planned(req[q], kind[Account(q)], calls, unchecked)
                         /\ Account(q) \in Accounts /\ req[q].groups \subseteq Groups
                         /\ Fits(kind[Account(q)], req[q].groups, Nxt(q), calls, unchecked)
                         /\ Nxt(q).op # "register" => doc[Account(q)].known
<1>1. Idle.todo = <<>>
  BY DEF Idle
<1>2. ASSUME req[q] # Idle
      PROVE  /\ Busy(q) /\ Planned(req[q], kind[Account(q)], calls, unchecked)
             /\ Account(q) \in Accounts /\ req[q].groups \subseteq Groups
             /\ Fits(kind[Account(q)], req[q].groups, Nxt(q), calls, unchecked)
             /\ Nxt(q).op # "register" => doc[Account(q)].known
  <2>1. Planned(req[q], kind[Account(q)], calls, unchecked)
        /\ (Nxt(q).op # "register" => doc[Account(q)].known)
    BY <1>2 DEF RequestInv
  <2>2. Len(req[q].todo) \in Nat \ {0} /\ Nxt(q) = req[q].todo[1]
    BY <2>1, Popped DEF Planned, Nxt
  <2>3. 1 \in 1..Len(req[q].todo)
    BY <2>2
  <2> QED
    BY <2>1, <2>2, <2>3 DEF Planned, Busy, Account
<1> QED
  BY <1>1, <1>2 DEF Busy

(* Request q takes its next step, and goes on or is over. *)
OnTo(q) ==
    /\ DOMAIN req' = Requests
    /\ \A p \in Requests \ {q} : req'[p] = req[p]
    /\ \/ req'[q] = Idle
       \/ /\ Planned(req'[q], kind[Account(q)], calls, unchecked)
          /\ req'[q].acct = Account(q) /\ req'[q].groups = req[q].groups
          /\ req'[q].todo = Tail(req[q].todo)
          /\ Leads(kind[Account(q)], Nxt(q), Head(req'[q].todo), unchecked)

LEMMA Dropped ==
    ASSUME RequestInv, NEW q \in Requests, Drop(q)
    PROVE  OnTo(q) /\ req'[q] = Idle
  BY DEF RequestInv, Drop, OnTo

LEMMA Rested ==
    ASSUME RequestInv, NEW q \in Requests, Busy(q), Rest(q)
    PROVE  OnTo(q)
<1>1. CASE Drop(q)
  BY <1>1, Dropped
<1>2. CASE ~Drop(q)
  <2>1. Len(req[q].todo) # 1 /\ req' = [req EXCEPT ![q].todo = Tail(@)]
    BY <1>2 DEF Rest
  <2> DEFINE t == [req[q] EXCEPT !.todo = Tail(@)]
  <2>2. DOMAIN req' = Requests /\ req'[q] = t /\ \A p \in Requests \ {q} : req'[p] = req[p]
    BY <2>1 DEF RequestInv
  <2>3. /\ Planned(t, kind[Account(q)], calls, unchecked)
        /\ t.acct = Account(q) /\ t.groups = req[q].groups /\ t.todo = Tail(req[q].todo)
        /\ Leads(kind[Account(q)], Nxt(q), Head(t.todo), unchecked)
    BY <2>1, BusyOnes, Shorter DEF Account, Nxt
  <2> HIDE DEF t
  <2> QED
    BY <2>2, <2>3 DEF OnTo
<1> QED
  BY <1>1, <1>2

LEMMA Onward ==
    ASSUME RequestInv, NEW q \in Requests, Busy(q), NEW ok, Only(q, ok)
    PROVE  OnTo(q) /\ (Busy(q)' => ok)
<1>1. CASE ok
  BY <1>1, Rested DEF Only
<1>2. CASE ~ok
  <2>1. OnTo(q) /\ req'[q] = Idle
    BY <1>2, Dropped DEF Only
  <2> QED
    BY <2>1 DEF Busy, Idle
<1> QED
  BY <1>1, <1>2

LEMMA RequestsKept ==
    ASSUME Base, NEW q \in Requests, Busy(q), OnTo(q),
           UNCHANGED <<kind, raced, calls, unchecked>>,
           \A a \in Accounts : doc[a].known => doc'[a].known,
           Busy(q)' /\ Nxt(q).op = "register" => doc'[Account(q)].known
    PROVE  RequestInv' /\ Overlaps'
<1>1. RequestInv /\ Overlaps
  BY DEF Base
<1>2. ASSUME NEW p \in Requests, req'[p] # Idle
      PROVE  /\ Busy(p) /\ Account(p)' = Account(p) /\ req'[p].groups = req[p].groups
             /\ Planned(req'[p], kind'[Account(p)'], calls', unchecked')
             /\ Nxt(p)'.op # "register" => doc'[Account(p)'].known
  <2>1. CASE p # q
    <3>1. req'[p] = req[p]
      BY <2>1 DEF OnTo
    <3>2. /\ Busy(p) /\ Planned(req[p], kind[Account(p)], calls, unchecked)
          /\ Account(p) \in Accounts
          /\ Nxt(p).op # "register" => doc[Account(p)].known
      BY <1>1, <1>2, <3>1, BusyOnes
    <3> QED
      BY <3>1, <3>2 DEF Account, Nxt
  <2>2. CASE p = q
    <3>1. /\ Planned(req'[q], kind[Account(q)], calls, unchecked)
          /\ req'[q].acct = Account(q) /\ req'[q].groups = req[q].groups
      BY <1>2, <2>2 DEF OnTo
    <3>2. Busy(q)'
      BY <3>1 DEF Busy, Planned
    <3>3. Account(q) \in Accounts /\ (Nxt(q).op # "register" => doc[Account(q)].known)
      BY <1>1, BusyOnes
    <3> QED
      BY <2>2, <3>1, <3>2, <3>3 DEF Account, Nxt
  <2> QED
    BY <2>1, <2>2
<1>3. RequestInv'
  BY <1>2 DEF RequestInv, OnTo
<1>4. Overlaps'
  <2>1. Idle.todo = <<>>
    BY DEF Idle
  <2>2. \A p \in Requests : Busy(p)' =>
          Busy(p) /\ Account(p)' = Account(p) /\ req'[p].groups = req[p].groups
    BY <1>2, <2>1 DEF Busy
  <2>3. ASSUME NEW p \in Requests, NEW r \in Requests, p # r, Busy(p)', Busy(r)',
               NEW g \in req'[p].groups \intersect req'[r].groups
        PROVE  /\ Account(p)' = Account(r)' => Raced(g, Account(p))'
               /\ g \in Shared => Raced(g, Account(p))' \/ Raced(g, Account(r))'
    <3>1. /\ Account(p) = Account(r) => Raced(g, Account(p))
          /\ g \in Shared => Raced(g, Account(p)) \/ Raced(g, Account(r))
      BY <1>1, <2>2, <2>3 DEF Overlaps
    <3> QED
      BY <2>2, <2>3, <3>1 DEF Raced
  <2> QED
    BY <2>3 DEF Overlaps
<1> QED
  BY <1>3, <1>4

(* A refresh token is the last thing a request creates. *)
LEMMA CreatesLess ==
    ASSUME RequestInv, NEW q \in Requests, Busy(q), OnTo(q), NEW a \in Accounts
    PROVE  /\ Creating(a)' \subseteq Creating(a)
           /\ IsFiniteSet(Creating(a)) /\ Cardinality(Creating(a)) \in Nat
           /\ Cardinality(Creating(a)') \in Nat
           /\ Cardinality(Creating(a)') <= Cardinality(Creating(a))
           /\ Nxt(q).op = "create" /\ a = Account(q) =>
                 Cardinality(Creating(a)') < Cardinality(Creating(a))
<1>1. /\ Planned(req[q], kind[Account(q)], calls, unchecked)
      /\ Len(req[q].todo) \in Nat \ {0} /\ Nxt(q) = req[q].todo[1]
      /\ Len(Tail(req[q].todo)) = Len(req[q].todo) - 1
      /\ \A i \in 1..(Len(req[q].todo) - 1) : Tail(req[q].todo)[i] = req[q].todo[i + 1]
  BY BusyOnes, Popped DEF Planned, Nxt
<1>2. Creating(a)' \subseteq Creating(a)
  <2>1. ASSUME NEW p \in Creating(a)' PROVE p \in Creating(a)
    <3>1. CASE p # q
      BY <2>1, <3>1 DEF Creating, OnTo, Busy, Account
    <3>2. CASE p = q
      <4>1. req'[q].todo # <<>> /\ req'[q].acct = a
            /\ \E i \in 1..Len(req'[q].todo) : req'[q].todo[i].op = "create"
        BY <2>1, <3>2 DEF Creating, Busy, Account
      <4>2. req'[q].acct = Account(q) /\ req'[q].todo = Tail(req[q].todo)
        BY <4>1 DEF OnTo, Idle
      <4>3. PICK i \in 1..(Len(req[q].todo) - 1) : req[q].todo[i + 1].op = "create"
        BY <1>1, <4>1, <4>2
      <4>4. i + 1 \in 1..Len(req[q].todo)
        BY <1>1
      <4> QED
        BY <3>2, <4>1, <4>2, <4>3, <4>4 DEF Creating
    <3> QED
      BY <3>1, <3>2
  <2> QED
    BY <2>1
<1>3. IsFiniteSet(Creating(a)) /\ Cardinality(Creating(a)) \in Nat
  BY AccountsAssumption, FS_Subset, FS_CardinalityType DEF Creating
<1>4. /\ IsFiniteSet(Creating(a)') /\ Cardinality(Creating(a)') \in Nat
      /\ Cardinality(Creating(a)') <= Cardinality(Creating(a))
  BY <1>2, <1>3, FS_Subset, FS_CardinalityType
<1>5. ASSUME Nxt(q).op = "create", a = Account(q)
      PROVE  Cardinality(Creating(a)') < Cardinality(Creating(a))
  <2>1. q \in Creating(a)
    <3>1. 1 \in 1..Len(req[q].todo)
      BY <1>1
    <3> QED
      BY <1>1, <1>5, <3>1 DEF Creating
  <2>2. q \notin Creating(a)'
    <3>1. req'[q] = Idle
      BY <1>5 DEF OnTo, Leads
    <3> QED
      BY <3>1 DEF Creating, Busy, Idle
  <2>3. Creating(a)' # Creating(a)
    BY <2>1, <2>2
  <2> QED
    BY <1>2, <1>3, <1>4, <2>3, FS_Subset
<1> QED
  BY <1>2, <1>3, <1>4, <1>5

-----------------------------------------------------------------------------
(* What a step does to the documents.                                      *)

(* The fields of f are set in the document of a, and nothing else. *)
Sets(a, f) ==
    /\ DOMAIN doc' = Accounts
    /\ \A b \in Accounts \ {a} : doc'[b] = doc[b]
    /\ Holds(kind[a], doc'[a])
    /\ \A x \in DOMAIN Schema(kind[a]) : doc'[a][x] = IF x \in DOMAIN f THEN f[x] ELSE doc[a][x]

LEMMA BlankHolds ==
    ASSUME TypeOK, NEW a \in Accounts
    PROVE  /\ Holds(kind[a], Blank(a)) /\ Blank(a).known = TRUE
           /\ ~Admin(a) => Blank(a).code = 0
           /\ Rider(a) => /\ Blank(a).device = NoDevice
                          /\ Blank(a).suspended = FALSE /\ Blank(a).carrying = FALSE
           /\ Admin(a) => /\ Blank(a).super = FALSE /\ Blank(a).active = TRUE
                          /\ Blank(a).failed = 0 /\ Blank(a).locked = FALSE
           /\ Customer(a) => Blank(a).addresses = {}
<1>1. 0 \in 0..MaxCalls
  BY AccountsAssumption
<1>2. Blank(a) \in Documents(kind[a])
  BY <1>1 DEF Blank, BlankRider, BlankAdmin, BlankUser, Documents, Rider, Admin
<1> QED
  BY <1>2, DocumentsHold DEF Blank, BlankRider, BlankAdmin, BlankUser, Rider, Admin, Customer

(* A request that is served. *)
Took(q) ==
    /\ Busy(q) /\ OnTo(q) /\ Account(q) \in Accounts
    /\ Fits(kind[Account(q)], req[q].groups, Nxt(q), calls, unchecked)
    /\ Nxt(q).op # "register" => doc[Account(q)].known
    /\ UNCHANGED <<kind, raced, calls, faults, refused, unchecked>>

LEMMA UpdateEffect ==
    ASSUME Base, NEW q \in Requests, DoUpdate(q)
    PROVE  /\ Took(q) /\ Nxt(q).op = "update" /\ Sets(Account(q), Nxt(q).to)
           /\ Change(kind[Account(q)], Nxt(q).to) /\ UNCHANGED <<live, spent, misses>>
<1>1. RequestInv /\ TypeOK /\ DocsOK
  BY Typed DEF Base
<1>2. Busy(q) /\ Nxt(q).op = "update" /\ Rest(q)
  BY DEF DoUpdate, Due, Busy, Nxt
<1>3. Took(q)
  BY <1>1, <1>2, BusyOnes, Rested DEF DoUpdate, Took, Kept
<1>4. Change(kind[Account(q)], Nxt(q).to)
  BY <1>2, <1>3 DEF Took, Fits
<1>5. Sets(Account(q), Nxt(q).to)
  <2> DEFINE a == Account(q)
             f == Nxt(q).to
  <2>1. doc' = [doc EXCEPT ![a] = Merged(doc[a], f)]
    BY DEF DoUpdate, Account, Nxt
  <2>2. a \in Accounts /\ Holds(kind[a], doc[a])
    BY <1>1, <1>3 DEF Took, DocsOK
  <2>3. DOMAIN doc[a] = DOMAIN Schema(kind[a])
    BY <2>2 DEF Holds
  <2> HIDE DEF a, f
  <2>4. PICK e : e = Merged(doc[a], f)
    OBVIOUS
  <2>5. Holds(kind[a], e)
    BY <1>4, <2>2, <2>4, MergedHolds DEF a, f
  <2>6. \A x \in DOMAIN Schema(kind[a]) : e[x] = IF x \in DOMAIN f THEN f[x] ELSE doc[a][x]
    BY <2>3, <2>4, MergedFields
  <2>7. Sets(a, f)
    BY <1>1, <2>1, <2>2, <2>4, <2>5, <2>6 DEF DocsOK, Sets
  <2> QED
    BY <2>7 DEF a, f
<1> QED
  BY <1>2, <1>3, <1>4, <1>5 DEF DoUpdate

LEMMA CreateEffect ==
    ASSUME Base, NEW q \in Requests, DoCreate(q)
    PROVE  /\ Took(q) /\ Nxt(q).op = "register" /\ UNCHANGED <<live, history>>
           /\ Change(kind[Account(q)], Nxt(q).to)
           /\ DOMAIN Nxt(q).to \subseteq {"mail", "confirmed", "verified", "super"}
           /\ \/ /\ doc[Account(q)].known /\ doc' = doc /\ req'[q] = Idle
              \/ /\ ~doc[Account(q)].known
                 /\ Sets(Account(q), Merged(Blank(Account(q)), Nxt(q).to))
<1>1. RequestInv /\ TypeOK /\ DocsOK
  BY Typed DEF Base
<1>2. Busy(q) /\ Nxt(q).op = "register" /\ Only(q, ~doc[Account(q)].known)
  BY DEF DoCreate, Due, Busy, Nxt, Account
<1>3. Took(q)
  BY <1>1, <1>2, BusyOnes, Onward DEF DoCreate, Took, Kept, history
<1>4. /\ Change(kind[Account(q)], Nxt(q).to)
      /\ DOMAIN Nxt(q).to \subseteq {"mail", "confirmed", "verified", "super"}
  BY <1>2, <1>3 DEF Took, Fits
<1>5. CASE doc[Account(q)].known
  <2>1. doc' = doc /\ req'[q] = Idle
    BY <1>1, <1>2, <1>5, Dropped DEF DoCreate, Account, Only
  <2> QED
    BY <1>2, <1>3, <1>4, <1>5, <2>1 DEF DoCreate
<1>6. CASE ~doc[Account(q)].known
  <2> DEFINE a == Account(q)
             f == Nxt(q).to
  <2>1. doc' = [doc EXCEPT ![a] = Merged(Blank(a), f)]
    BY <1>6 DEF DoCreate, Account, Nxt
  <2>2. a \in Accounts /\ Holds(kind[a], Blank(a))
    BY <1>1, <1>3, BlankHolds DEF Took
  <2> HIDE DEF a, f
  <2>3. PICK e : e = Merged(Blank(a), f)
    OBVIOUS
  <2>4. Holds(kind[a], e)
    BY <1>4, <2>2, <2>3, MergedHolds DEF a, f
  <2>5. DOMAIN e = DOMAIN Schema(kind[a])
    BY <2>4 DEF Holds
  <2>6. Sets(a, e)
    BY <1>1, <2>1, <2>2, <2>3, <2>4, <2>5 DEF DocsOK, Sets
  <2> QED
    BY <1>2, <1>3, <1>4, <1>6, <2>3, <2>6 DEF DoCreate, a, f
<1> QED
  BY <1>5, <1>6

LEMMA SpendEffect ==
    ASSUME Base, NEW q \in Requests, DoSpend(q)
    PROVE  /\ Took(q) /\ Nxt(q).op = "spend" /\ Sets(Account(q), [code |-> 0])
           /\ spent' = [spent EXCEPT ![Nxt(q).code] = @ + 1]
           /\ UNCHANGED <<live, misses, demoted, recalled>>
<1>1. RequestInv /\ TypeOK /\ DocsOK
  BY Typed DEF Base
<1>2. Busy(q) /\ Nxt(q).op = "spend" /\ Rest(q)
  BY DEF DoSpend, Due, Busy, Nxt
<1>3. Took(q)
  BY <1>1, <1>2, BusyOnes, Rested DEF DoSpend, Took, Kept
<1>4. Sets(Account(q), [code |-> 0])
  <2> DEFINE a == Account(q)
  <2>1. doc' = [doc EXCEPT ![a].code = 0]
    BY DEF DoSpend, Account
  <2>2. a \in Accounts /\ Holds(kind[a], doc[a]) /\ kind[a] # "admin"
    BY <1>1, <1>2, <1>3 DEF Took, DocsOK, Fits
  <2> HIDE DEF a
  <2>3. Schema(kind[a])["code"] = 0..MaxCalls /\ 0 \in 0..MaxCalls
    BY <2>2, SchemaValues, AccountsAssumption
  <2>4. DOMAIN doc[a] = DOMAIN Schema(kind[a])
    BY <2>2 DEF Holds
  <2>5. PICK e : e = [doc[a] EXCEPT !.code = 0]
    OBVIOUS
  <2>6. /\ DOMAIN e = DOMAIN Schema(kind[a]) /\ e = [x \in DOMAIN Schema(kind[a]) |-> e[x]]
        /\ \A x \in DOMAIN Schema(kind[a]) : e[x] = IF x = "code" THEN 0 ELSE doc[a][x]
    BY <2>4, <2>5
  <2>7. Holds(kind[a], e)
    BY <2>2, <2>3, <2>6 DEF Holds
  <2>8. Sets(a, [code |-> 0])
    BY <1>1, <2>1, <2>2, <2>5, <2>6, <2>7 DEF DocsOK, Sets
  <2> QED
    BY <2>8 DEF a
<1> QED
  BY <1>2, <1>3, <1>4 DEF DoSpend, Nxt

(* What becomes of the saved addresses A. *)
Saved(q, A) == IF Nxt(q).op = "addAddress" THEN A \union {Nxt(q).id} ELSE A \ {Nxt(q).id}

LEMMA AddressEffect ==
    ASSUME Base, NEW q \in Requests, DoAddress(q)
    PROVE  /\ Took(q) /\ Nxt(q).op \in {"addAddress", "dropAddress"}
           /\ Sets(Account(q), [addresses |-> Saved(q, doc[Account(q)].addresses)])
           /\ UNCHANGED <<live, history>>
<1>1. RequestInv /\ TypeOK /\ DocsOK
  BY Typed DEF Base
<1>2. Busy(q) /\ Nxt(q).op \in {"addAddress", "dropAddress"} /\ Rest(q)
  BY DEF DoAddress, Due, Busy, Nxt
<1>3. Took(q)
  BY <1>1, <1>2, BusyOnes, Rested DEF DoAddress, Took, Kept, history
<1>4. Sets(Account(q), [addresses |-> Saved(q, doc[Account(q)].addresses)])
  <2> DEFINE a == Account(q)
             A == Saved(q, doc[a].addresses)
  <2>1. doc' = [doc EXCEPT ![a].addresses = A]
    BY <1>2 DEF DoAddress, Due, Account, Saved, Nxt
  <2>2. a \in Accounts /\ Holds(kind[a], doc[a]) /\ kind[a] = "customer"
    BY <1>1, <1>2, <1>3 DEF Took, DocsOK, Fits
  <2>3. Schema(kind[a])["addresses"] = SUBSET (1..MaxCalls) /\ "addresses" \in DOMAIN Schema(kind[a])
    BY <2>2, SchemaValues, SchemaFields
  <2>4. DOMAIN doc[a] = DOMAIN Schema(kind[a]) /\ doc[a].addresses \in SUBSET (1..MaxCalls)
    BY <2>2, <2>3 DEF Holds
  <2>5. A \in SUBSET (1..MaxCalls)
    <3>1. Nxt(q).op = "addAddress" => Nxt(q).id \in 1..calls
      BY <1>3 DEF Took, Fits
    <3>2. calls \in 0..MaxCalls /\ MaxCalls \in Nat
      BY <1>1, AccountsAssumption DEF TypeOK
    <3> QED
      BY <1>2, <2>4, <3>1, <3>2 DEF Saved
  <2> HIDE DEF a, A
  <2>6. PICK e : e = [doc[a] EXCEPT !.addresses = A]
    OBVIOUS
  <2>7. /\ DOMAIN e = DOMAIN Schema(kind[a]) /\ e = [x \in DOMAIN Schema(kind[a]) |-> e[x]]
        /\ \A x \in DOMAIN Schema(kind[a]) : e[x] = IF x = "addresses" THEN A ELSE doc[a][x]
    BY <2>4, <2>6
  <2>8. Holds(kind[a], e)
    BY <2>2, <2>3, <2>5, <2>7 DEF Holds
  <2>9. Sets(a, [addresses |-> A])
    BY <1>1, <2>1, <2>2, <2>6, <2>7, <2>8 DEF DocsOK, Sets
  <2> QED
    BY <2>9 DEF a, A
<1> QED
  BY <1>2, <1>3, <1>4 DEF DoAddress

(* The count of failed attempts, and the lock. *)
Marked(n, lock) == [failed |-> n, locked |-> lock]

LEMMA MarkHolds ==
    ASSUME DocsOK, NEW a \in Accounts, kind[a] = "admin",
           NEW n \in 0..MaxCalls, NEW l \in BOOLEAN,
           doc' = [doc EXCEPT ![a].failed = n, ![a].locked = l]
    PROVE  Sets(a, Marked(n, l))
<1>1. Holds(kind[a], doc[a]) /\ DOMAIN doc = Accounts
  BY DEF DocsOK
<1>2. /\ DOMAIN Schema(kind[a]) = {"known", "active", "super", "failed", "locked"}
      /\ Schema(kind[a])["failed"] = 0..MaxCalls /\ Schema(kind[a])["locked"] = BOOLEAN
  BY SchemaFields, SchemaValues
<1>3. DOMAIN doc[a] = DOMAIN Schema(kind[a])
  BY <1>1 DEF Holds
<1>4. PICK e : e = [doc[a] EXCEPT !.failed = n, !.locked = l]
  OBVIOUS
<1>5. DOMAIN doc' = Accounts /\ doc'[a] = e /\ \A b \in Accounts \ {a} : doc'[b] = doc[b]
  BY <1>1, <1>4
<1>6. /\ DOMAIN e = DOMAIN Schema(kind[a]) /\ e = [x \in DOMAIN Schema(kind[a]) |-> e[x]]
      /\ e["failed"] = n /\ e["locked"] = l
      /\ \A x \in DOMAIN Schema(kind[a]) \ {"failed", "locked"} : e[x] = doc[a][x]
  BY <1>2, <1>3, <1>4
<1>7. Holds(kind[a], e)
  BY <1>1, <1>2, <1>6 DEF Holds
<1>8. /\ DOMAIN Marked(n, l) = {"failed", "locked"}
      /\ Marked(n, l)["failed"] = n /\ Marked(n, l)["locked"] = l
  BY DEF Marked
<1> QED
  BY <1>5, <1>6, <1>7, <1>8 DEF Sets

LEMMA MissEffect ==
    ASSUME Base, NEW q \in Requests, DoMiss(q)
    PROVE  LET a == Account(q)
               n == Nxt(q).count
           IN  /\ Took(q) /\ Nxt(q).op = "miss" /\ n \in 1..calls /\ kind[a] = "admin"
               /\ Sets(a, Marked(n, doc[a].locked \/ n >= MaxAttempts))
               /\ misses' = [misses EXCEPT ![a] = @ + 1]
               /\ UNCHANGED <<live, spent, demoted, recalled>>
<1> DEFINE a == Account(q)
           n == Nxt(q).count
<1>1. RequestInv /\ TypeOK /\ DocsOK
  BY Typed DEF Base
<1>2. Busy(q) /\ Nxt(q).op = "miss" /\ Rest(q)
  BY DEF DoMiss, Due, Busy, Nxt
<1>3. Took(q)
  BY <1>1, <1>2, BusyOnes, Rested DEF DoMiss, Took, Kept
<1>4. a \in Accounts /\ kind[a] = "admin" /\ n \in 1..calls
  BY <1>2, <1>3 DEF Took, Fits
<1>5. n \in 0..MaxCalls
  <2>1. calls \in 0..MaxCalls /\ MaxCalls \in Nat
    BY <1>1, AccountsAssumption DEF TypeOK
  <2> QED
    BY <1>4, <2>1
<1>6. doc' = [doc EXCEPT ![a].failed = n, ![a].locked = @ \/ n >= MaxAttempts]
      /\ misses' = [misses EXCEPT ![a] = @ + 1] /\ UNCHANGED <<live, spent, demoted, recalled>>
  BY DEF DoMiss, Account, Nxt
<1> HIDE DEF a, n
<1>7. PICK l \in BOOLEAN : l = (doc[a].locked \/ n >= MaxAttempts)
  OBVIOUS
<1>8. doc' = [doc EXCEPT ![a].failed = n, ![a].locked = l]
  <2>1. DOMAIN doc = Accounts
    BY <1>1 DEF DocsOK
  <2>2. [doc[a] EXCEPT !.failed = n].locked = doc[a].locked
    OBVIOUS
  <2> QED
    BY <1>4, <1>6, <1>7, <2>1, <2>2
<1>9. Sets(a, Marked(n, l))
  BY <1>1, <1>4, <1>5, <1>8, MarkHolds
<1> QED
  BY <1>2, <1>3, <1>4, <1>6, <1>7, <1>9 DEF a, n

LEMMA ForgiveEffect ==
    ASSUME Base, NEW q \in Requests, DoForgive(q)
    PROVE  /\ Took(q) /\ Nxt(q).op = "forgive" /\ kind[Account(q)] = "admin"
           /\ Sets(Account(q), Marked(0, FALSE))
           /\ misses' = [misses EXCEPT ![Account(q)] = 0]
           /\ UNCHANGED <<live, spent, demoted, recalled>>
<1> DEFINE a == Account(q)
<1>1. RequestInv /\ TypeOK /\ DocsOK
  BY Typed DEF Base
<1>2. Busy(q) /\ Nxt(q).op = "forgive" /\ Rest(q)
  BY DEF DoForgive, Due, Busy, Nxt
<1>3. Took(q)
  BY <1>1, <1>2, BusyOnes, Rested DEF DoForgive, Took, Kept
<1>4. a \in Accounts /\ kind[a] = "admin" /\ 0 \in 0..MaxCalls
  BY <1>2, <1>3, AccountsAssumption DEF Took, Fits
<1>5. doc' = [doc EXCEPT ![a].failed = 0, ![a].locked = FALSE]
      /\ misses' = [misses EXCEPT ![a] = 0] /\ UNCHANGED <<live, spent, demoted, recalled>>
  BY DEF DoForgive, Account
<1>6. Sets(a, Marked(0, FALSE))
  BY <1>1, <1>4, <1>5, MarkHolds
<1> QED
  BY <1>2, <1>3, <1>4, <1>5, <1>6

LEMMA LockEndsEffect ==
    ASSUME Base, NEW a \in Accounts, LockEnds(a)
    PROVE  /\ kind[a] = "admin" /\ Sets(a, Marked(doc[a].failed, FALSE))
           /\ misses' = [misses EXCEPT ![a] = 0] /\ doc[a].failed \in 0..MaxCalls
           /\ UNCHANGED <<kind, req, raced, calls, faults, live, spent, refused, unchecked,
                          demoted, recalled>>
<1>1. TypeOK /\ DocsOK /\ kind[a] = "admin"
  BY Typed DEF Base, LockEnds
<1>2. Holds(kind[a], doc[a]) /\ DOMAIN doc[a] = {"known", "active", "super", "failed", "locked"}
      /\ doc[a].failed \in 0..MaxCalls /\ DOMAIN doc = Accounts
  BY <1>1, SchemaFields, SchemaValues DEF DocsOK, Holds
<1>3. doc' = [doc EXCEPT ![a].locked = FALSE] /\ misses' = [misses EXCEPT ![a] = 0]
  BY DEF LockEnds
<1>4. PICK n \in 0..MaxCalls : n = doc[a].failed
  BY <1>2
<1>5. [doc[a] EXCEPT !.locked = FALSE] = [doc[a] EXCEPT !.failed = n, !.locked = FALSE]
  BY <1>2, <1>4
<1>6. doc' = [doc EXCEPT ![a].failed = n, ![a].locked = FALSE]
  BY <1>2, <1>3, <1>5
<1>7. Sets(a, Marked(n, FALSE))
  BY <1>1, <1>6, MarkHolds
<1> QED
  BY <1>1, <1>2, <1>3, <1>4, <1>7 DEF LockEnds, Passes

LEMMA CodesExpireEffect ==
    ASSUME Base, NEW a \in Accounts, CodesExpire(a)
    PROVE  /\ Sets(a, [code |-> 0, mail |-> 0])
           /\ UNCHANGED <<kind, req, raced, calls, faults, live, history>>
<1>1. DocsOK
  BY Typed DEF Base
<1>2. Holds(kind[a], doc[a]) /\ DOMAIN doc = Accounts /\ DOMAIN doc[a] = DOMAIN Schema(kind[a])
  BY <1>1 DEF DocsOK, Holds
<1>3. doc' = [doc EXCEPT ![a] = [x \in DOMAIN @ |-> IF x \in {"code", "mail"} THEN 0 ELSE @[x]]]
  BY DEF CodesExpire
<1>4. PICK e : e = [x \in DOMAIN doc[a] |-> IF x \in {"code", "mail"} THEN 0 ELSE doc[a][x]]
  OBVIOUS
<1>5. DOMAIN doc' = Accounts /\ doc'[a] = e /\ \A b \in Accounts \ {a} : doc'[b] = doc[b]
  BY <1>2, <1>3, <1>4
<1>6. \A x \in DOMAIN Schema(kind[a]) : x \in {"code", "mail"} => 0 \in Schema(kind[a])[x]
  <2>1. 0 \in 0..MaxCalls
    BY AccountsAssumption
  <2>2. CASE kind[a] = "rider"
    <3>1. Schema(kind[a])["code"] = 0..MaxCalls
      BY <2>2, SchemaValues
    <3>2. "mail" \notin DOMAIN Schema(kind[a])
      BY <2>2, SchemaFields
    <3> QED
      BY <2>1, <3>1, <3>2
  <2>3. CASE kind[a] = "admin"
    BY <2>3, SchemaFields
  <2>4. CASE kind[a] \notin {"rider", "admin"}
    <3>1. Schema(kind[a])["code"] = 0..MaxCalls /\ Schema(kind[a])["mail"] = 0..MaxCalls
      BY <2>4, SchemaValues
    <3> QED
      BY <2>1, <3>1
  <2> QED
    BY <2>2, <2>3, <2>4
<1>7. Holds(kind[a], e)
  BY <1>2, <1>4, <1>6 DEF Holds
<1>8. LET f == [code |-> 0, mail |-> 0]
      IN  DOMAIN f = {"code", "mail"} /\ \A x \in DOMAIN f : f[x] = 0
  OBVIOUS
<1>9. Sets(a, [code |-> 0, mail |-> 0])
  BY <1>2, <1>4, <1>5, <1>7, <1>8 DEF Sets
<1> QED
  BY <1>9 DEF CodesExpire, Passes

Supers == {b \in Accounts : Admin(b) /\ doc[b].super /\ doc[b].active}

(* The steps that only look, and decide whether the request goes on. *)
LEMMA LookEffect ==
    ASSUME Base, NEW q \in Requests, DoFind(q) \/ DoCheck(q)
    PROVE  LET a == Account(q)
           IN  /\ Took(q) /\ Nxt(q).op \in {"find", "device", "supers", "carrying"}
               /\ UNCHANGED <<doc, live, history>>
               /\ Busy(q)' =>
                    /\ Nxt(q).op = "find" => live[a] = 0
                    /\ Nxt(q).op = "device" =>
                          \A b \in Accounts \ {a} : Rider(b) => doc[b].device # Nxt(q).device
                    /\ Nxt(q).op = "supers" => Cardinality(Supers) > 1
                    /\ Nxt(q).op = "carrying" => ~doc[a].carrying
<1> DEFINE a == Account(q)
<1>1. RequestInv
  BY DEF Base
<1>2. Busy(q) /\ UNCHANGED <<doc, live, history>> /\ Kept
  BY DEF DoFind, DoCheck, Due, Busy
<1>3. ASSUME NEW ok, Only(q, ok)
      PROVE  Took(q) /\ (Busy(q)' => ok)
  BY <1>1, <1>2, <1>3, BusyOnes, Onward DEF Took, Kept, history
<1>4. CASE DoFind(q)
  <2>1. Nxt(q).op = "find" /\ Only(q, live[a] = 0)
    BY <1>4 DEF DoFind, Due, Nxt, Account
  <2> QED
    BY <1>2, <1>3, <2>1
<1>5. CASE DoCheck(q) /\ Due(q, "device")
  <2>1. /\ Nxt(q).op = "device"
        /\ Only(q, ~\E b \in Accounts \ {a} : Rider(b) /\ doc[b].device = Nxt(q).device)
    BY <1>5 DEF DoCheck, Due, Nxt, Account
  <2>2. Took(q) /\ (Busy(q)' => ~\E b \in Accounts \ {a} : Rider(b) /\ doc[b].device = Nxt(q).device)
    BY <1>3, <2>1
  <2> QED
    BY <1>2, <2>1, <2>2
<1>6. CASE DoCheck(q) /\ Due(q, "supers")
  <2>1. /\ Nxt(q).op = "supers"
        /\ Only(q, Cardinality(Supers) > 1)
    BY <1>6 DEF DoCheck, Due, Nxt, Supers
  <2>2. CASE Cardinality(Supers) > 1
    <3>1. Only(q, TRUE)
      BY <2>1, <2>2 DEF Only
    <3> QED
      BY <1>2, <1>3, <2>1, <2>2, <3>1
  <2>3. CASE ~(Cardinality(Supers) > 1)
    <3>1. Only(q, FALSE)
      BY <2>1, <2>3 DEF Only
    <3> QED
      BY <1>2, <1>3, <2>1, <3>1
  <2> QED
    BY <2>2, <2>3
<1>7. CASE DoCheck(q) /\ Due(q, "carrying")
  <2>1. Nxt(q).op = "carrying" /\ Only(q, ~doc[a].carrying)
    BY <1>7 DEF DoCheck, Due, Nxt, Account
  <2>2. Took(q) /\ (Busy(q)' => ~doc[a].carrying)
    BY <1>3, <2>1
  <2> QED
    BY <1>2, <2>1, <2>2
<1> QED
  BY <1>4, <1>5, <1>6, <1>7 DEF DoCheck

LEMMA RevokeEffect ==
    ASSUME Base, NEW q \in Requests, DoRevoke(q)
    PROVE  /\ Took(q) /\ Nxt(q).op \in {"revokeAll", "revokeOne"} /\ UNCHANGED <<doc, history>>
           /\ live' \in [Accounts -> 0..MaxCalls]
           /\ \A b \in Accounts : live'[b] <= live[b]
           /\ Nxt(q).op = "revokeAll" => live'[Account(q)] = 0
<1>1. RequestInv /\ TypeOK
  BY DEF Base
<1>2. Busy(q) /\ Nxt(q).op \in {"revokeAll", "revokeOne"} /\ Rest(q)
  BY DEF DoRevoke, Due, Busy, Nxt
<1>3. Took(q)
  BY <1>1, <1>2, BusyOnes, Rested DEF DoRevoke, Took, Kept, history
<1>4. live \in [Accounts -> 0..MaxCalls] /\ MaxCalls \in Nat /\ Account(q) \in Accounts
  BY <1>1, <1>3, AccountsAssumption DEF TypeOK, Took
<1>5. CASE Due(q, "revokeAll") /\ live' = [live EXCEPT ![Account(q)] = 0]
  BY <1>2, <1>3, <1>4, <1>5 DEF DoRevoke
<1>6. CASE Due(q, "revokeOne") /\ live' = [live EXCEPT ![Account(q)] = IF @ = 0 THEN 0 ELSE @ - 1]
  BY <1>2, <1>3, <1>4, <1>6 DEF DoRevoke, Due, Nxt
<1> QED
  BY <1>5, <1>6 DEF DoRevoke, Account

LEMMA TokenEffect ==
    ASSUME Base, NEW q \in Requests, DoCreateToken(q)
    PROVE  /\ Took(q) /\ Nxt(q).op = "create" /\ UNCHANGED <<doc, history>>
           /\ live' = [live EXCEPT ![Account(q)] = @ + 1] /\ "session" \in req[q].groups
<1>1. RequestInv
  BY DEF Base
<1>2. Busy(q) /\ Nxt(q).op = "create" /\ Rest(q)
  BY DEF DoCreateToken, Due, Busy, Nxt
<1>3. Took(q)
  BY <1>1, <1>2, BusyOnes, Rested DEF DoCreateToken, Took, Kept, history
<1> QED
  BY <1>2, <1>3 DEF DoCreateToken, Account, Took, Fits

LEMMA FailEffect ==
    ASSUME Base, NEW q \in Requests, Fail(q)
    PROVE  /\ Busy(q) /\ OnTo(q) /\ req'[q] = Idle /\ faults' = faults + 1 /\ faults < MaxFaults
           /\ UNCHANGED <<kind, doc, live, raced, history, calls>>
  BY Dropped DEF Base, Fail, Busy

-----------------------------------------------------------------------------
(* What serving a request does.                                            *)

(* Step s may be the first of a request at account a; u is who is bound    *)
(* unchecked by then.                                                      *)
Ready(a, s, u) ==
    /\ s.op # "create"
    /\ s.op # "register" => doc[a].known
    /\ Gives(s, "device") => Looked(s.to.device, u)
    /\ s.op = "miss" => s.count = doc[a].failed + 1 /\ doc[a].locked = FALSE
    /\ Gives(s, "active") /\ kind[a] = "admin" => s.to.active = TRUE \/ doc[a].super = FALSE
    /\ Gives(s, "suspended") => s.to.suspended = FALSE
    /\ Gives(s, "code") => s.to.code = calls + 1
    /\ s.op = "spend" => doc[a].code = s.code
    /\ s.op = "addAddress" => Cardinality(doc[a].addresses) < MaxAddresses

(* The steps of a request are what its handler may plan. *)
Fine(k, G, s, n, u) ==
    /\ IsSequence(s)
    /\ \A i \in 1..Len(s) : Fits(k, G, s[i], n, u)
    /\ \A i \in 1..(Len(s) - 1) : Leads(k, s[i], s[i + 1], u)

Begins ==
    /\ UNCHANGED <<kind, doc, live, spent, misses, demoted, recalled, faults>>
    /\ unchecked \subseteq unchecked' /\ unchecked' \subseteq Devices \union {NoDevice}
    /\ refused' \subseteq 1..MaxCalls

(* Request q is served and is about account a. *)
Opens(q, a) ==
    /\ ~Busy(q) /\ calls < MaxCalls /\ calls' = calls + 1
    /\ DOMAIN req' = Requests
    /\ \A p \in Requests \ {q} : req'[p] = req[p]
    /\ \/ req'[q] = Idle
       \/ /\ Planned(req'[q], kind[a], calls + 1, unchecked')
          /\ req'[q].acct = a
          /\ Ready(a, Head(req'[q].todo), unchecked')
    /\ raced \subseteq raced'
    /\ \A p \in Requests \ {q} : Busy(p) /\ Busy(q)' =>
          \A g \in req[p].groups \intersect req'[q].groups :
             Account(p) = a \/ g \in Shared => <<g, a>> \in raced'
    /\ Begins

LEMMA NothingToDo ==
    ASSUME Base, NEW q \in Requests, NEW a \in Accounts, NEW G, Serve(q, a, G, <<>>), Begins
    PROVE  Opens(q, a)
<1>1. DOMAIN req = Requests
  BY DEF Base, RequestInv
<1>2. DOMAIN req' = Requests /\ req'[q] = Idle /\ \A p \in Requests \ {q} : req'[p] = req[p]
  BY <1>1 DEF Serve
<1> QED
  BY <1>2 DEF Serve, Opens, Busy, Idle

LEMMA Opened ==
    ASSUME Base, NEW q \in Requests, NEW a \in Accounts, NEW G \in SUBSET Groups, NEW s,
           Serve(q, a, G, s), Begins, s # <<>>,
           Fine(kind[a], G, s, calls + 1, unchecked'), Ready(a, Head(s), unchecked')
    PROVE  Opens(q, a)
<1>1. DOMAIN req = Requests
  BY DEF Base, RequestInv
<1>2. PICK r : r = [acct |-> a, groups |-> G, todo |-> s]
  OBVIOUS
<1>3. DOMAIN req' = Requests /\ req'[q] = r /\ \A p \in Requests \ {q} : req'[p] = req[p]
  BY <1>1, <1>2 DEF Serve
<1>4. r.acct = a /\ r.groups = G /\ r.todo = s
  BY <1>2
<1>5. Planned(r, kind[a], calls + 1, unchecked')
  BY <1>2, <1>4 DEF Planned, Fine
<1>6. ASSUME NEW p \in Requests \ {q}, Busy(p),
             NEW g \in req[p].groups \intersect G, Account(p) = a \/ g \in Shared
      PROVE  <<g, a>> \in raced'
  BY <1>6 DEF Serve, Busy, Account
<1>7. ~Busy(q) /\ calls < MaxCalls /\ calls' = calls + 1 /\ raced \subseteq raced'
  BY DEF Serve, Busy
<1> QED
  BY <1>3, <1>4, <1>5, <1>6, <1>7 DEF Opens

LEMMA OneStep ==
    ASSUME NEW k, NEW G, NEW n, NEW u, NEW x, Fits(k, G, x, n, u)
    PROVE  Fine(k, G, <<x>>, n, u) /\ <<x>> # <<>> /\ Head(<<x>>) = x
<1> DEFINE s == <<x>>
<1>1. s \in Seq({x}) /\ Len(s) = 1 /\ s[1] = x
  OBVIOUS
<1>2. 1..1 = {1} /\ 1..(1 - 1) = {}
  OBVIOUS
<1> HIDE DEF s
<1>3. Fine(k, G, s, n, u)
  BY <1>1, <1>2 DEF Fine, IsSequence
<1> QED
  BY <1>3 DEF s

LEMMA TwoSteps ==
    ASSUME NEW k, NEW G, NEW n, NEW u, NEW x, NEW y, Fits(k, G, x, n, u), Fits(k, G, y, n, u),
           Leads(k, x, y, u)
    PROVE  Fine(k, G, <<x, y>>, n, u) /\ <<x, y>> # <<>> /\ Head(<<x, y>>) = x
<1> DEFINE s == <<x, y>>
<1>1. s \in Seq({x, y}) /\ Len(s) = 2 /\ s[1] = x /\ s[2] = y
  OBVIOUS
<1>2. 1..2 = {1, 2} /\ 1..(2 - 1) = {1} /\ 1 + 1 = 2
  OBVIOUS
<1> HIDE DEF s
<1>3. Fine(k, G, s, n, u)
  <2>1. \A i \in 1..Len(s) : Fits(k, G, s[i], n, u)
    BY <1>1, <1>2
  <2>2. \A i \in 1..(Len(s) - 1) : Leads(k, s[i], s[i + 1], u)
    BY <1>1, <1>2
  <2> QED
    BY <1>1, <2>1, <2>2 DEF Fine, IsSequence
<1> QED
  BY <1>3 DEF s

LEMMA ThreeSteps ==
    ASSUME NEW k, NEW G, NEW n, NEW u, NEW x, NEW y, NEW z,
           Fits(k, G, x, n, u), Fits(k, G, y, n, u), Fits(k, G, z, n, u),
           Leads(k, x, y, u), Leads(k, y, z, u)
    PROVE  Fine(k, G, <<x, y, z>>, n, u) /\ <<x, y, z>> # <<>> /\ Head(<<x, y, z>>) = x
<1> DEFINE s == <<x, y, z>>
<1>1. s \in Seq({x, y, z}) /\ Len(s) = 3 /\ s[1] = x /\ s[2] = y /\ s[3] = z
  OBVIOUS
<1>2. 1..3 = {1, 2, 3} /\ 1..(3 - 1) = {1, 2} /\ 1 + 1 = 2 /\ 2 + 1 = 3
  OBVIOUS
<1> HIDE DEF s
<1>3. Fine(k, G, s, n, u)
  <2>1. \A i \in 1..Len(s) : Fits(k, G, s[i], n, u)
    BY <1>1, <1>2
  <2>2. \A i \in 1..(Len(s) - 1) : Leads(k, s[i], s[i + 1], u)
    BY <1>1, <1>2
  <2> QED
    BY <1>1, <2>1, <2>2 DEF Fine, IsSequence
<1> QED
  BY <1>3 DEF s

LEMMA Prepended ==
    ASSUME NEW k, NEW G, NEW n, NEW u, NEW x, NEW t, Fits(k, G, x, n, u), Fine(k, G, t, n, u),
           t # <<>>, Leads(k, x, Head(t), u)
    PROVE  Fine(k, G, <<x>> \o t, n, u) /\ <<x>> \o t # <<>> /\ Head(<<x>> \o t) = x
<1>1. PICK T : t \in Seq(T)
  BY DEF Fine, IsSequence
<1>2. PICK S : S = T \union {x}
  OBVIOUS
<1>3. PICK w \in Seq(S) : w = <<x>> /\ Len(w) = 1 /\ w[1] = x
  <2>1. <<x>> \in Seq({x}) /\ {x} \subseteq S
    BY <1>2
  <2>2. <<x>> \in Seq(S) /\ Len(<<x>>) = 1 /\ <<x>>[1] = x
    BY <2>1
  <2> QED
    BY <2>2
<1>4. t \in Seq(S) /\ Len(t) \in Nat \ {0} /\ Head(t) = t[1]
  BY <1>1, <1>2
<1>5. PICK s : s = w \o t
  OBVIOUS
<1>6. /\ s \in Seq(S) /\ Len(s) = 1 + Len(t)
      /\ \A i \in 1..(1 + Len(t)) : s[i] = IF i <= 1 THEN w[i] ELSE t[i - 1]
  BY <1>3, <1>4, <1>5, ConcatProperties
<1>7. ASSUME NEW i \in 1..Len(s)
      PROVE  Fits(k, G, s[i], n, u)
  <2>1. CASE i = 1
    BY <1>3, <1>4, <1>6, <2>1
  <2>2. CASE i # 1
    <3>1. i - 1 \in 1..Len(t) /\ s[i] = t[i - 1]
      BY <1>4, <1>6, <2>2
    <3> QED
      BY <3>1 DEF Fine
  <2> QED
    BY <2>1, <2>2
<1>8. ASSUME NEW i \in 1..(Len(s) - 1)
      PROVE  Leads(k, s[i], s[i + 1], u)
  <2>1. CASE i = 1
    <3>1. s[1] = x /\ s[i + 1] = Head(t)
      BY <1>3, <1>4, <1>6, <2>1
    <3> QED
      BY <2>1, <3>1
  <2>2. CASE i # 1
    <3>1. i - 1 \in 1..(Len(t) - 1) /\ s[i] = t[i - 1] /\ s[i + 1] = t[(i - 1) + 1]
      BY <1>4, <1>6, <2>2
    <3> QED
      BY <3>1 DEF Fine
  <2> QED
    BY <2>1, <2>2
<1>9. s # <<>> /\ Head(s) = x
  BY <1>3, <1>4, <1>6
<1>10. Fine(k, G, s, n, u)
  BY <1>6, <1>7, <1>8 DEF Fine, IsSequence
<1> QED
  BY <1>3, <1>5, <1>9, <1>10

(* What generateRefreshToken of the three services adds to a request. *)
LEMMA SessionsFit ==
    ASSUME NEW k, NEW G, "session" \in G, NEW n, NEW u
    PROVE  /\ \A s \in {FindToken, RevokeAll, RevokeOne, CreateToken} : Fits(k, G, s, n, u)
           /\ Leads(k, FindToken, RevokeAll, u) /\ Leads(k, RevokeAll, FindToken, u)
           /\ Leads(k, FindToken, CreateToken, u) /\ Leads(k, RevokeAll, CreateToken, u)
           /\ \A p : p.op # "create" => Leads(k, p, FindToken, u) /\ Leads(k, p, RevokeAll, u)
<1>1. /\ FindToken.op = "find" /\ RevokeAll.op = "revokeAll" /\ RevokeOne.op = "revokeOne"
      /\ CreateToken.op = "create"
  BY DEF FindToken, RevokeAll, RevokeOne, CreateToken
<1>2. \A s \in {FindToken, RevokeAll, RevokeOne, CreateToken} : Fits(k, G, s, n, u)
  BY <1>1 DEF Fits, Gives
<1>3. \A p : p.op # "create" => Leads(k, p, FindToken, u) /\ Leads(k, p, RevokeAll, u)
  BY <1>1 DEF Leads, Gives
<1>4. Leads(k, FindToken, CreateToken, u) /\ Leads(k, RevokeAll, CreateToken, u)
  BY <1>1 DEF Leads, Gives
<1> QED
  BY <1>1, <1>2, <1>3, <1>4

LEMMA Logs ==
    ASSUME NEW k, NEW G, NEW n, NEW u
    PROVE  /\ Fits(k, G, RevokeAll, n, u) /\ Fits(k, G, RevokeOne, n, u)
           /\ Fits(k, G, CheckSupers, n, u) /\ Fits(k, G, CheckCarrying, n, u)
           /\ \A v : Fits(k, G, CheckDevice(v), n, u)
  BY DEF Fits, Gives, RevokeAll, RevokeOne, CheckSupers, CheckCarrying, CheckDevice

(* A session, alone and after a first step. *)
LEMMA SessionAlone ==
    ASSUME NEW k, NEW G, "session" \in G, NEW n, NEW u
    PROVE  /\ Fine(k, G, CustomerSession, n, u) /\ CustomerSession # <<>>
           /\ Head(CustomerSession) = FindToken
           /\ Fine(k, G, RiderSession, n, u) /\ RiderSession # <<>>
           /\ Head(RiderSession) = RevokeAll
           /\ Fine(k, G, AdminSession, n, u) /\ AdminSession # <<>>
           /\ Head(AdminSession) = RevokeAll
<1>1. /\ \A s \in {FindToken, RevokeAll, RevokeOne, CreateToken} : Fits(k, G, s, n, u)
      /\ Leads(k, FindToken, RevokeAll, u) /\ Leads(k, RevokeAll, FindToken, u)
      /\ Leads(k, FindToken, CreateToken, u) /\ Leads(k, RevokeAll, CreateToken, u)
  BY SessionsFit
<1>2. LET s == <<FindToken, RevokeAll, CreateToken>>
      IN  Fine(k, G, s, n, u) /\ s # <<>> /\ Head(s) = FindToken
  BY <1>1, ThreeSteps
<1>3. LET s == <<RevokeAll, FindToken, CreateToken>>
      IN  Fine(k, G, s, n, u) /\ s # <<>> /\ Head(s) = RevokeAll
  BY <1>1, ThreeSteps
<1>4. LET s == <<RevokeAll, CreateToken>>
      IN  Fine(k, G, s, n, u) /\ s # <<>> /\ Head(s) = RevokeAll
  BY <1>1, TwoSteps
<1> QED
  BY <1>2, <1>3, <1>4 DEF CustomerSession, RiderSession, AdminSession

LEMMA SessionAfter ==
    ASSUME NEW k, NEW G, "session" \in G, NEW n, NEW u, NEW x, Fits(k, G, x, n, u), x.op # "create",
           NEW T \in {CustomerSession, RiderSession, AdminSession}
    PROVE  Fine(k, G, <<x>> \o T, n, u) /\ <<x>> \o T # <<>> /\ Head(<<x>> \o T) = x
<1>1. Fine(k, G, T, n, u) /\ T # <<>> /\ Head(T) \in {FindToken, RevokeAll}
  BY SessionAlone
<1>2. Leads(k, x, Head(T), u)
  BY <1>1, SessionsFit
<1> QED
  BY <1>1, <1>2, Prepended

(* What the handlers set. *)
Numbers == 0..MaxCalls

LEMMA CustomerChanges ==
    ASSUME NEW n \in Numbers, NEW b \in BOOLEAN
    PROVE  /\ Change("customer", [mail |-> n]) /\ Change("customer", [code |-> n])
           /\ Change("customer", [active |-> b]) /\ Change("customer", [confirmed |-> b])
           /\ Change("customer", [confirmed |-> b, mail |-> n])
<1>1. DOMAIN Schema("customer") = {"known", "active", "confirmed", "mail", "code", "addresses"}
  BY SchemaFields
<1>2. LET T == Schema("customer")
      IN  /\ T["active"] = BOOLEAN /\ T["confirmed"] = BOOLEAN
          /\ T["mail"] = Numbers /\ T["code"] = Numbers
  BY SchemaValues DEF Numbers
<1>3. Change("customer", [mail |-> n])
  BY <1>1, <1>2 DEF Change
<1>4. Change("customer", [code |-> n])
  BY <1>1, <1>2 DEF Change
<1>5. Change("customer", [active |-> b])
  BY <1>1, <1>2 DEF Change
<1>6. Change("customer", [confirmed |-> b])
  BY <1>1, <1>2 DEF Change
<1>7. Change("customer", [confirmed |-> b, mail |-> n])
  BY <1>1, <1>2 DEF Change
<1> QED
  BY <1>3, <1>4, <1>5, <1>6, <1>7

LEMMA RiderChanges ==
    /\ \A n \in Numbers : Change("rider", [code |-> n])
    /\ \A b \in BOOLEAN :
          /\ Change("rider", [online |-> b]) /\ Change("rider", [carrying |-> b])
          /\ Change("rider", [verified |-> b]) /\ Change("rider", [active |-> b])
          /\ Change("rider", [suspended |-> b])
    /\ \A b, c \in BOOLEAN : Change("rider", [suspended |-> b, online |-> c])
    /\ \A v \in Devices \union {NoDevice}, b \in BOOLEAN :
          Change("rider", [device |-> v]) /\ Change("rider", [mustChange |-> b, device |-> v])
<1>1. DOMAIN Schema("rider") = {"known", "active", "verified", "mustChange", "code", "device",
                                "suspended", "online", "carrying"}
  BY SchemaFields
<1>2. LET T == Schema("rider")
      IN  /\ T["active"] = BOOLEAN /\ T["verified"] = BOOLEAN /\ T["mustChange"] = BOOLEAN
          /\ T["code"] = Numbers /\ T["device"] = Devices \union {NoDevice}
          /\ T["suspended"] = BOOLEAN /\ T["online"] = BOOLEAN /\ T["carrying"] = BOOLEAN
  BY SchemaValues DEF Numbers
<1>3. \A n \in Numbers : Change("rider", [code |-> n])
  BY <1>1, <1>2 DEF Change
<1>4. ASSUME NEW b \in BOOLEAN
      PROVE  /\ Change("rider", [online |-> b]) /\ Change("rider", [carrying |-> b])
             /\ Change("rider", [verified |-> b]) /\ Change("rider", [active |-> b])
             /\ Change("rider", [suspended |-> b])
  <2>1. Change("rider", [online |-> b]) /\ Change("rider", [carrying |-> b])
    BY <1>1, <1>2 DEF Change
  <2>2. Change("rider", [verified |-> b]) /\ Change("rider", [active |-> b])
    BY <1>1, <1>2 DEF Change
  <2>3. Change("rider", [suspended |-> b])
    BY <1>1, <1>2 DEF Change
  <2> QED
    BY <2>1, <2>2, <2>3
<1>5. \A b, c \in BOOLEAN : Change("rider", [suspended |-> b, online |-> c])
  BY <1>1, <1>2 DEF Change
<1>6. \A v \in Devices \union {NoDevice}, b \in BOOLEAN :
        Change("rider", [device |-> v]) /\ Change("rider", [mustChange |-> b, device |-> v])
  BY <1>1, <1>2 DEF Change
<1> QED
  BY <1>3, <1>4, <1>5, <1>6

LEMMA AdminChanges ==
    ASSUME NEW b \in BOOLEAN
    PROVE  Change("admin", [super |-> b]) /\ Change("admin", [active |-> b])
  BY SchemaFields, SchemaValues DEF Change

LEMMA BegunBegins ==
    ASSUME TypeOK
    PROVE  /\ Begun => Begins /\ unchecked' = unchecked
           /\ \A v \in Devices \union {NoDevice} : Unlooked(v) => Begins /\ Looked(v, unchecked')
<1>1. refused \subseteq 1..MaxCalls /\ unchecked \subseteq Devices \union {NoDevice}
  BY DEF TypeOK
<1>2. Begun => Begins /\ unchecked' = unchecked
  BY <1>1 DEF Begun, Begins, history
<1>3. ASSUME NEW v \in Devices \union {NoDevice}, Unlooked(v)
      PROVE  Begins /\ Looked(v, unchecked')
  BY <1>1, <1>3 DEF Unlooked, Begins, Looked
<1> QED
  BY <1>2, <1>3

(* What is known whenever a request is served. *)
LEMMA Serving ==
    ASSUME Base, NEW q \in Requests, NEW a \in Accounts, NEW G, NEW s, Serve(q, a, G, s)
    PROVE  /\ TypeOK /\ calls \in Nat /\ calls + 1 \in 1..MaxCalls
           /\ calls + 1 \in Numbers /\ 0 \in Numbers /\ Holds(kind[a], doc[a])
           /\ Rider(a) <=> kind[a] = "rider"
           /\ Admin(a) <=> kind[a] = "admin"
           /\ Customer(a) <=> kind[a] = "customer"
<1>1. TypeOK /\ calls \in 0..MaxCalls /\ calls < MaxCalls /\ MaxCalls \in Nat
  BY AccountsAssumption DEF Base, Serve, TypeOK
<1>2. DocsOK
  BY <1>1, Typed
<1> QED
  BY <1>1, <1>2, Typed DEF DocsOK, Numbers

LEMMA UpdateFits ==
    ASSUME NEW k, NEW G, NEW n, NEW u, NEW f, Change(k, f), k = "admin" => "super" \in G,
           "code" \in DOMAIN f => f.code \in 1..n,
           "carrying" \in DOMAIN f => "work" \in G /\ DOMAIN f = {"carrying"},
           "suspended" \in DOMAIN f =>
               "work" \in G /\ (f.suspended => "online" \in DOMAIN f /\ f.online = FALSE),
           "device" \in DOMAIN f => "device" \in G \/ Looked(f.device, u)
    PROVE  Fits(k, G, Update(f), n, u) /\ Update(f).op = "update" /\ Update(f).to = f
<1>1. Update(f).op = "update" /\ Update(f).to = f
  BY DEF Update
<1> QED
  BY <1>1 DEF Fits, Gives

LEMMA UpdateReady ==
    ASSUME NEW a, NEW f, NEW u, doc[a].known,
           kind[a] = "admin" /\ "active" \in DOMAIN f => f.active = TRUE \/ doc[a].super = FALSE,
           "code" \in DOMAIN f => f.code = calls + 1,
           "suspended" \in DOMAIN f => f.suspended = FALSE,
           "device" \in DOMAIN f => Looked(f.device, u)
    PROVE  Ready(a, Update(f), u)
<1>1. Update(f).op = "update" /\ Update(f).to = f
  BY DEF Update
<1> QED
  BY <1>1 DEF Ready, Gives

(* A handler that only updates the account. *)
LEMMA Updates ==
    ASSUME Base, NEW q \in Requests, NEW a \in Accounts, NEW G \in SUBSET Groups, NEW f,
           Serve(q, a, G, <<Update(f)>>), Begins, doc[a].known, Change(kind[a], f),
           kind[a] = "admin" => "super" \in G,
           kind[a] = "admin" /\ "active" \in DOMAIN f => f.active = TRUE \/ doc[a].super = FALSE,
           "code" \in DOMAIN f => f.code = calls + 1,
           "carrying" \in DOMAIN f => "work" \in G /\ DOMAIN f = {"carrying"},
           "suspended" \in DOMAIN f => "work" \in G /\ f.suspended = FALSE,
           "device" \in DOMAIN f => Looked(f.device, unchecked')
    PROVE  Opens(q, a)
<1>1. PICK u : u = unchecked'
  OBVIOUS
<1>2. calls + 1 \in 1..(calls + 1)
  BY Serving
<1>3. Fits(kind[a], G, Update(f), calls + 1, u)
  BY <1>1, <1>2, UpdateFits
<1>4. Ready(a, Update(f), u)
  BY <1>1, UpdateReady
<1>5. PICK s : s = <<Update(f)>> /\ s # <<>> /\ Head(s) = Update(f) /\ Fine(kind[a], G, s, calls + 1, u)
  BY <1>3, OneStep
<1> QED
  BY <1>1, <1>4, <1>5, Opened

(* A handler with a single step, and one with a session after it. *)
LEMMA Single ==
    ASSUME Base, NEW q \in Requests, NEW a \in Accounts, NEW G \in SUBSET Groups, NEW x,
           Serve(q, a, G, <<x>>), Begins, Fits(kind[a], G, x, calls + 1, unchecked'),
           Ready(a, x, unchecked')
    PROVE  Opens(q, a)
<1>1. PICK u : u = unchecked'
  OBVIOUS
<1>2. PICK s : s = <<x>> /\ s # <<>> /\ Head(s) = x /\ Fine(kind[a], G, s, calls + 1, u)
  BY <1>1, OneStep
<1> QED
  BY <1>1, <1>2, Opened

LEMMA Double ==
    ASSUME Base, NEW q \in Requests, NEW a \in Accounts, NEW G \in SUBSET Groups, NEW x, NEW y,
           Serve(q, a, G, <<x, y>>), Begins, Fits(kind[a], G, x, calls + 1, unchecked'),
           Fits(kind[a], G, y, calls + 1, unchecked'), Leads(kind[a], x, y, unchecked'),
           Ready(a, x, unchecked')
    PROVE  Opens(q, a)
<1>1. PICK u : u = unchecked'
  OBVIOUS
<1>2. PICK s : s = <<x, y>> /\ s # <<>> /\ Head(s) = x /\ Fine(kind[a], G, s, calls + 1, u)
  BY <1>1, TwoSteps
<1> QED
  BY <1>1, <1>2, Opened

LEMMA SingleSession ==
    ASSUME Base, NEW q \in Requests, NEW a \in Accounts, NEW G \in SUBSET Groups, "session" \in G,
           NEW x, NEW T \in {CustomerSession, RiderSession, AdminSession},
           Serve(q, a, G, <<x>> \o T), Begins, Fits(kind[a], G, x, calls + 1, unchecked'),
           Ready(a, x, unchecked')
    PROVE  Opens(q, a)
<1>1. PICK u : u = unchecked'
  OBVIOUS
<1>2. x.op # "create"
  BY DEF Ready
<1>3. PICK s : s = <<x>> \o T
  OBVIOUS
<1>4. s # <<>> /\ Head(s) = x /\ Fine(kind[a], G, s, calls + 1, u)
  BY <1>1, <1>2, <1>3, SessionAfter
<1> QED
  BY <1>1, <1>3, <1>4, Opened

LEMMA SessionOpens ==
    ASSUME Base, NEW q \in Requests, NEW a \in Accounts, NEW T \in {CustomerSession, RiderSession},
           Serve(q, a, {"session"}, T), Begins, doc[a].known
    PROVE  Opens(q, a)
<1>1. PICK u : u = unchecked'
  OBVIOUS
<1>2. PICK G \in SUBSET Groups : G = {"session"}
  BY DEF Groups
<1>3. T # <<>> /\ Head(T) \in {FindToken, RevokeAll} /\ Fine(kind[a], G, T, calls + 1, u)
  BY <1>2, SessionAlone
<1>4. \A x \in {FindToken, RevokeAll} : Ready(a, x, u)
  BY DEF Ready, Gives, FindToken, RevokeAll
<1> QED
  BY <1>1, <1>2, <1>3, <1>4, Opened

LEMMA LogsOpen ==
    ASSUME Base, NEW q \in Requests, NEW a \in Accounts, NEW step \in {RevokeAll, RevokeOne},
           Serve(q, a, {"logout"}, <<step>>), Begins, doc[a].known
    PROVE  Opens(q, a)
<1>1. Ready(a, step, unchecked') /\ Fits(kind[a], {"logout"}, step, calls + 1, unchecked')
  BY DEF Ready, Fits, Gives, RevokeAll, RevokeOne
<1> QED
  BY <1>1, Single DEF Groups

LEMMA SpendOpens ==
    ASSUME Base, NEW q \in Requests, NEW a \in Accounts, NEW c \in 1..MaxCalls,
           Serve(q, a, {"code"}, <<Spend(c)>>), Begins, doc[a].known, doc[a].code = c,
           kind[a] # "admin", c <= calls
    PROVE  Opens(q, a)
<1>1. Spend(c).op = "spend" /\ Spend(c).code = c
  BY DEF Spend
<1>2. c \in 1..(calls + 1)
  BY Serving
<1>3. Fits(kind[a], {"code"}, Spend(c), calls + 1, unchecked')
  BY <1>1, <1>2 DEF Fits, Gives
<1>4. Ready(a, Spend(c), unchecked')
  BY <1>1 DEF Ready, Gives
<1> QED
  BY <1>3, <1>4, Single DEF Groups

LEMMA CreateFits ==
    ASSUME NEW k, NEW G, NEW n, NEW u, NEW f, Change(k, f),
           DOMAIN f \subseteq {"mail", "confirmed", "verified", "super"}, k = "admin" => "super" \in G
    PROVE  Fits(k, G, Create(f), n, u)
<1>1. Create(f).op = "register" /\ Create(f).to = f
  BY DEF Create
<1> QED
  BY <1>1 DEF Fits, Gives

LEMMA CreateReady ==
    ASSUME NEW a, NEW u, NEW f
    PROVE  Ready(a, Create(f), u)
<1>1. Create(f).op = "register"
  BY DEF Create
<1> QED
  BY <1>1 DEF Ready, Gives

LEMMA Fields ==
    /\ \A n : DOMAIN [mail |-> n] = {"mail"}
    /\ \A n : DOMAIN [code |-> n] = {"code"} /\ [code |-> n].code = n
    /\ \A b : DOMAIN [confirmed |-> b] = {"confirmed"}
    /\ \A b : DOMAIN [super |-> b] = {"super"}
    /\ DOMAIN [code |-> 0, mail |-> 0] = {"code", "mail"} /\ [code |-> 0, mail |-> 0]["code"] = 0
    /\ \A A : DOMAIN [addresses |-> A] = {"addresses"} /\ [addresses |-> A].addresses = A
    /\ \A n, l : DOMAIN Marked(n, l) = {"failed", "locked"} /\ Marked(n, l)["failed"] = n
                /\ Marked(n, l)["locked"] = l
    /\ \A b : DOMAIN [active |-> b] = {"active"} /\ [active |-> b].active = b
  BY DEF Marked

LEMMA MailFields ==
    \A n, b : DOMAIN [confirmed |-> b, mail |-> n] = {"confirmed", "mail"}
  OBVIOUS

LEMMA AuthOpens ==
    ASSUME Base, NEW q \in Requests, NEW a \in Accounts, AuthNext(q, a)
    PROVE  Opens(q, a)
<1>1. TypeOK /\ Counted /\ DocsOK
  BY Typed DEF Base
<1>2. Begun => Begins
  BY <1>1, BegunBegins
<1>3. CASE RegisterUser(q, a)
  <2>1. Serve(q, a, {"session"}, <<Create([mail |-> Fresh])>>) /\ Begins /\ Customer(a)
    BY <1>2, <1>3 DEF RegisterUser
  <2>2. PICK f : f = [mail |-> Fresh] /\ DOMAIN f = {"mail"}
    BY Fields
  <2>3. Change(kind[a], f) /\ kind[a] = "customer"
    BY <2>1, <2>2, Serving, CustomerChanges DEF Fresh
  <2>4. Fits(kind[a], {"session"}, Create(f), calls + 1, unchecked')
    BY <2>2, <2>3, CreateFits
  <2> QED
    BY <2>1, <2>2, <2>4, CreateReady, Single DEF Groups
<1>4. CASE Login(q, a)
  <2>1. CASE doc[a].confirmed
    BY <1>2, <1>4, <2>1, SessionOpens DEF Login, VerifyUser
  <2>2. CASE ~doc[a].confirmed
    <3>1. PICK f : f = [mail |-> Fresh] /\ DOMAIN f = {"mail"}
      BY Fields
    <3>2. Serve(q, a, {"session"}, <<Update(f)>>) /\ Begins /\ Customer(a) /\ doc[a].known
      BY <1>2, <1>4, <2>2, <3>1 DEF Login, VerifyUser
    <3>3. Change(kind[a], f) /\ kind[a] = "customer"
      BY <3>1, <3>2, Serving, CustomerChanges DEF Fresh
    <3> QED
      BY <3>1, <3>2, <3>3, Updates DEF Groups
  <2> QED
    BY <2>1, <2>2
<1>5. CASE GoogleSignIn(q, a)
  <2>1. CASE doc[a].known
    BY <1>2, <1>5, <2>1, SessionOpens DEF GoogleSignIn
  <2>2. CASE ~doc[a].known
    <3>1. PICK f : f = [confirmed |-> TRUE] /\ DOMAIN f = {"confirmed"}
      BY Fields
    <3>2. Serve(q, a, {"session"}, <<Create(f)>> \o CustomerSession) /\ Begins /\ Customer(a)
      BY <1>2, <1>5, <2>2, <3>1 DEF GoogleSignIn
    <3>3. Change(kind[a], f) /\ kind[a] = "customer"
      BY <3>1, <3>2, Serving, CustomerChanges
    <3>4. Fits(kind[a], {"session"}, Create(f), calls + 1, unchecked')
      BY <3>1, <3>3, CreateFits
    <3> QED
      BY <3>2, <3>4, CreateReady, SingleSession DEF Groups
  <2> QED
    BY <2>1, <2>2
<1>6. ASSUME NEW c \in 1..MaxCalls, VerifyEmailOtp(q, a, c)
      PROVE  Opens(q, a)
  <2>1. PICK f : f = [confirmed |-> TRUE, mail |-> 0] /\ DOMAIN f = {"confirmed", "mail"}
    BY MailFields
  <2>2. /\ Serve(q, a, {"session"}, <<Update(f)>> \o CustomerSession) /\ Begins /\ Customer(a)
        /\ doc[a].known
    BY <1>2, <1>6, <2>1 DEF VerifyEmailOtp
  <2>3. Change(kind[a], f) /\ kind[a] = "customer"
    BY <2>1, <2>2, Serving, CustomerChanges
  <2>4. Fits(kind[a], {"session"}, Update(f), calls + 1, unchecked')
    BY <2>1, <2>3, UpdateFits
  <2>5. Ready(a, Update(f), unchecked')
    BY <2>1, <2>2, <2>3, UpdateReady
  <2> QED
    BY <2>2, <2>4, <2>5, SingleSession DEF Groups
<1>7. ASSUME NEW c \in 1..MaxCalls, ResetPassword(q, a, c)
      PROVE  Opens(q, a)
  <2>1. Begins
    BY <1>1, <1>7 DEF ResetPassword, Begins, TypeOK
  <2> QED
    BY <1>7, <2>1, NothingToDo DEF ResetPassword
<1>8. CASE ResendEmailOtp(q, a)
  <2>1. PICK f : f = [mail |-> Fresh] /\ DOMAIN f = {"mail"}
    BY Fields
  <2>2. Serve(q, a, {"mail"}, <<Update(f)>>) /\ Begins /\ Customer(a) /\ doc[a].known
    BY <1>2, <1>8, <2>1 DEF ResendEmailOtp
  <2>3. Change(kind[a], f) /\ kind[a] = "customer"
    BY <2>1, <2>2, Serving, CustomerChanges DEF Fresh
  <2> QED
    BY <2>1, <2>2, <2>3, Updates DEF Groups
<1>9. CASE ForgotPassword(q, a)
  <2>1. PICK f : f = [code |-> Fresh] /\ DOMAIN f = {"code"} /\ f.code = Fresh
    BY Fields
  <2>2. Serve(q, a, {"request"}, <<Update(f)>>) /\ Begins /\ Customer(a) /\ doc[a].known
    BY <1>2, <1>9, <2>1 DEF ForgotPassword
  <2>3. Change(kind[a], f) /\ kind[a] = "customer"
    BY <2>1, <2>2, Serving, CustomerChanges DEF Fresh
  <2> QED
    BY <2>1, <2>2, <2>3, Updates DEF Groups, Fresh
<1>10. ASSUME NEW step \in {RevokeAll, RevokeOne}, Logout(q, a, step)
       PROVE  Opens(q, a)
  BY <1>2, <1>10, LogsOpen DEF Logout
<1> QED
  BY <1>3, <1>4, <1>5, <1>6, <1>7, <1>8, <1>9, <1>10 DEF AuthNext

(* A new reset code. *)
LEMMA CodeOpens ==
    ASSUME Base, NEW q \in Requests, NEW a \in Accounts, kind[a] \in {"customer", "rider"},
           Serve(q, a, {"request"}, <<Update([code |-> Fresh])>>), Begins, doc[a].known
    PROVE  Opens(q, a)
<1>1. PICK f : f = [code |-> Fresh] /\ DOMAIN f = {"code"} /\ f.code = Fresh
  BY Fields
<1>2. Change(kind[a], f)
  BY <1>1, Serving, CustomerChanges, RiderChanges DEF Fresh
<1> QED
  BY <1>1, <1>2, Updates DEF Groups, Fresh

LEMMA UserOpens ==
    ASSUME Base, NEW q \in Requests, NEW a \in Accounts,
           UserNext(q, a) \/ UserManagementNext(q, a)
    PROVE  Opens(q, a)
<1>1. TypeOK /\ Counted
  BY DEF Base
<1>2. Begun => Begins
  BY <1>1, BegunBegins
<1>3. Customer(a) <=> kind[a] = "customer"
  BY <1>1, Typed
<1>4. CASE RequestChangePasswordOtp(q, a)
  BY <1>2, <1>3, <1>4, CodeOpens DEF RequestChangePasswordOtp
<1>5. ASSUME NEW c \in 1..MaxCalls, ConfirmChangePassword(q, a, c)
      PROVE  Opens(q, a)
  <2>1. c <= calls
    BY <1>1, <1>3, <1>5 DEF ConfirmChangePassword, Counted, Admin
  <2> QED
    BY <1>2, <1>3, <1>5, <2>1, SpendOpens DEF ConfirmChangePassword
<1>6. ASSUME NEW b \in BOOLEAN, Serve(q, a, {"active"}, <<Update([active |-> b])>>), Begun,
             Customer(a), doc[a].known
      PROVE  Opens(q, a)
  <2>1. PICK f : f = [active |-> b] /\ DOMAIN f = {"active"}
    BY Fields
  <2>2. Change(kind[a], f)
    BY <1>3, <1>6, <2>1, Serving, CustomerChanges
  <2> QED
    BY <1>2, <1>3, <1>6, <2>1, <2>2, Updates DEF Groups
<1>7. CASE DeleteAccount(q, a)
  BY <1>6, <1>7 DEF DeleteAccount
<1>8. CASE UserManagementNext(q, a)
  BY <1>6, <1>8 DEF UserManagementNext, SuspendUser
<1>9. CASE CreateSavedAddress(q, a)
  <2>1. AddAddress(Fresh).op = "addAddress" /\ AddAddress(Fresh).id = calls + 1
    BY DEF AddAddress, Fresh
  <2>2. calls + 1 \in 1..(calls + 1)
    BY <1>9, Serving DEF CreateSavedAddress
  <2>3. Fits(kind[a], {"address"}, AddAddress(Fresh), calls + 1, unchecked')
    BY <1>3, <1>9, <2>1, <2>2 DEF Fits, Gives, CreateSavedAddress
  <2>4. Ready(a, AddAddress(Fresh), unchecked')
    BY <1>9, <2>1 DEF Ready, Gives, CreateSavedAddress
  <2> QED
    BY <1>2, <1>9, <2>3, <2>4, Single DEF Groups, CreateSavedAddress
<1>10. ASSUME NEW n \in 1..MaxCalls, DeleteSavedAddress(q, a, n)
       PROVE  Opens(q, a)
  <2>1. DropAddress(n).op = "dropAddress"
    BY DEF DropAddress
  <2>2. Fits(kind[a], {"address"}, DropAddress(n), calls + 1, unchecked')
    BY <1>3, <1>10, <2>1 DEF Fits, Gives, DeleteSavedAddress
  <2>3. Ready(a, DropAddress(n), unchecked')
    BY <1>10, <2>1 DEF Ready, Gives, DeleteSavedAddress
  <2> QED
    BY <1>2, <1>10, <2>2, <2>3, Single DEF Groups, DeleteSavedAddress
<1> QED
  BY <1>4, <1>5, <1>7, <1>8, <1>9, <1>10 DEF UserNext

LEMMA StepFields ==
    /\ \A f : Update(f).op = "update" /\ Update(f).to = f
    /\ \A v : CheckDevice(v).op = "device" /\ CheckDevice(v).device = v
    /\ CheckCarrying.op = "carrying" /\ CheckSupers.op = "supers" /\ Forgive.op = "forgive"
    /\ \A n : Miss(n).op = "miss" /\ Miss(n).count = n
  BY DEF Update, CheckDevice, CheckCarrying, CheckSupers, Forgive, Miss

LEMMA RiderFields ==
    /\ \A b : DOMAIN [online |-> b] = {"online"}
    /\ \A b : DOMAIN [verified |-> b] = {"verified"}
    /\ \A b : DOMAIN [carrying |-> b] = {"carrying"}
    /\ \A b : DOMAIN [suspended |-> b] = {"suspended"} /\ [suspended |-> b].suspended = b
    /\ \A v : DOMAIN [device |-> v] = {"device"} /\ [device |-> v].device = v
  OBVIOUS

LEMMA ResetFields ==
    ASSUME NEW b, NEW v, NEW f, f = [mustChange |-> b, device |-> v]
    PROVE  DOMAIN f = {"mustChange", "device"} /\ f.device = v
  OBVIOUS

LEMMA SuspensionFields ==
    ASSUME NEW b, NEW c, NEW f, f = [suspended |-> b, online |-> c]
    PROVE  DOMAIN f = {"suspended", "online"} /\ f.suspended = b /\ f.online = c
  OBVIOUS

(* A rider's update that touches neither work, device nor code. *)
LEMMA PlainUpdates ==
    ASSUME Base, NEW q \in Requests, NEW a \in Accounts, Rider(a), NEW G \in SUBSET Groups, NEW f,
           Serve(q, a, G, <<Update(f)>>), Begins, doc[a].known, Change("rider", f),
           DOMAIN f \subseteq {"online", "verified", "active"}
    PROVE  Opens(q, a)
<1>1. kind[a] = "rider"
  BY Serving
<1> QED
  BY <1>1, Updates

LEMMA RiderWorkOpens ==
    ASSUME Base, NEW q \in Requests, NEW a \in Accounts, RiderWorkNext(q, a)
    PROVE  Opens(q, a)
<1>1. Begun => Begins
  BY BegunBegins DEF Base
<1>2. CASE ToggleOnlineStatus(q, a)
  <2>1. Serve(q, a, {"toggle"}, <<Update([online |-> ~doc[a].online])>>) /\ Begins /\ Rider(a) /\ doc[a].known
    BY <1>1, <1>2 DEF ToggleOnlineStatus, VerifyRider
  <2>2. PICK b \in BOOLEAN : b = ~doc[a].online
    OBVIOUS
  <2>3. PICK f : f = [online |-> b] /\ DOMAIN f = {"online"}
    BY RiderFields
  <2>4. Change("rider", f)
    BY <2>2, <2>3, RiderChanges
  <2> QED
    BY <2>1, <2>2, <2>3, <2>4, PlainUpdates DEF Groups
<1>3. ASSUME NEW b \in BOOLEAN, Serve(q, a, {"work"}, <<Update([carrying |-> b])>>), Begun,
             Rider(a), doc[a].known
      PROVE  Opens(q, a)
  <2>1. PICK f : f = [carrying |-> b] /\ DOMAIN f = {"carrying"}
    BY RiderFields
  <2>2. Change(kind[a], f) /\ kind[a] = "rider"
    BY <1>3, <2>1, Serving, RiderChanges
  <2> QED
    BY <1>1, <1>3, <2>1, <2>2, Updates DEF Groups
<1>4. CASE AcceptDelivery(q, a)
  BY <1>3, <1>4 DEF AcceptDelivery, VerifyRider
<1>5. CASE AssignRider(q, a)
  BY <1>3, <1>5 DEF AssignRider
<1>6. CASE DeliveryEnds(q, a)
  BY <1>3, <1>6 DEF DeliveryEnds
<1> QED
  BY <1>2, <1>4, <1>5, <1>6 DEF RiderWorkNext

LEMMA RiderAuthOpens ==
    ASSUME Base, NEW q \in Requests, NEW a \in Accounts, RiderAuthNext(q, a)
    PROVE  Opens(q, a)
<1>1. TypeOK /\ Counted
  BY DEF Base
<1>2. Begun => Begins /\ unchecked' = unchecked
  BY <1>1, BegunBegins
<1>3. Rider(a) <=> kind[a] = "rider"
  BY <1>1, Typed
<1>4. ASSUME NEW v \in Devices, LoginRider(q, a, v)
      PROVE  Opens(q, a)
  BY <1>2, <1>4, SessionOpens DEF LoginRider, VerifyRider
<1>5. ASSUME NEW v \in Devices, ChangeRiderPassword(q, a, v)
      PROVE  Opens(q, a)
  <2>1. PICK f : f = [mustChange |-> FALSE, device |-> v] /\ DOMAIN f = {"mustChange", "device"}
                 /\ f.device = v
    <3>1. PICK f : f = [mustChange |-> FALSE, device |-> v]
      OBVIOUS
    <3> QED
      BY <3>1, ResetFields
  <2>2. /\ Serve(q, a, {"session"}, <<Update(f)>> \o RiderSession) /\ Rider(a) /\ doc[a].known
        /\ Begins /\ Looked(v, unchecked')
    BY <1>1, <1>5, <2>1, BegunBegins DEF ChangeRiderPassword, VerifyRider
  <2>3. Change(kind[a], f) /\ kind[a] = "rider"
    <3>1. PICK b \in BOOLEAN : f = [mustChange |-> b, device |-> v]
      BY <2>1
    <3>2. Change("rider", f)
      BY <3>1, RiderChanges
    <3> QED
      BY <2>2, <3>2, Serving
  <2>4. Fits(kind[a], {"session"}, Update(f), calls + 1, unchecked')
    BY <2>1, <2>2, <2>3, UpdateFits
  <2>5. Ready(a, Update(f), unchecked')
    BY <2>1, <2>2, <2>3, UpdateReady
  <2> QED
    BY <2>2, <2>4, <2>5, SingleSession DEF Groups
<1>6. ASSUME NEW v \in Devices, BindDevice(q, a, v)
      PROVE  Opens(q, a)
  <2>1. PICK f : f = [device |-> v] /\ DOMAIN f = {"device"} /\ f.device = v
    BY RiderFields
  <2>3. PICK x : x = CheckDevice(v) /\ x.op = "device" /\ x.device = v
    BY StepFields
  <2>4. PICK y : y = Update(f) /\ y.op = "update" /\ y.to = f
    BY StepFields
  <2>5. /\ Serve(q, a, {"device"}, <<x, y>>) /\ Rider(a) /\ doc[a].known /\ Begins
    BY <1>2, <1>6, <2>1, <2>3, <2>4 DEF BindDevice, VerifyRider
  <2>6. Change(kind[a], f) /\ kind[a] = "rider"
    BY <2>1, <2>5, Serving, RiderChanges
  <2>7. Fits(kind[a], {"device"}, x, calls + 1, unchecked')
    BY <2>3 DEF Fits, Gives
  <2>8. Fits(kind[a], {"device"}, y, calls + 1, unchecked')
    BY <2>1, <2>4, <2>6, UpdateFits
  <2>9. Leads(kind[a], x, y, unchecked')
    BY <2>1, <2>3, <2>4, <2>6 DEF Leads, Gives
  <2>10. Ready(a, x, unchecked')
    BY <2>3, <2>5 DEF Ready, Gives
  <2> QED
    BY <2>5, <2>7, <2>8, <2>9, <2>10, Double DEF Groups
<1>7. CASE ForgotRiderPassword(q, a)
  BY <1>2, <1>3, <1>7, CodeOpens DEF ForgotRiderPassword
<1>8. ASSUME NEW c \in 1..MaxCalls, SpendRiderCode(q, a, c)
      PROVE  Opens(q, a)
  <2>1. c <= calls
    BY <1>1, <1>8 DEF SpendRiderCode, Counted, Admin, Rider
  <2> QED
    BY <1>2, <1>3, <1>8, <2>1, SpendOpens DEF SpendRiderCode
<1>9. ASSUME NEW step \in {RevokeAll, RevokeOne}, LogoutRider(q, a, step)
      PROVE  Opens(q, a)
  <2>1. PICK f : f = [online |-> FALSE] /\ DOMAIN f = {"online"}
    BY RiderFields
  <2>3. PICK y : y = Update(f) /\ y.op = "update" /\ y.to = f
    BY StepFields
  <2>4. /\ Serve(q, a, {"logout"}, <<step, y>>) /\ Rider(a) /\ doc[a].known /\ Begins
    BY <1>2, <1>9, <2>1, <2>3 DEF LogoutRider, VerifyRider
  <2>5. Change(kind[a], f) /\ kind[a] = "rider"
    BY <2>1, <2>4, Serving, RiderChanges
  <2>6. Fits(kind[a], {"logout"}, step, calls + 1, unchecked') /\ step.op \in {"revokeAll", "revokeOne"}
    BY Logs DEF RevokeAll, RevokeOne
  <2>7. Fits(kind[a], {"logout"}, y, calls + 1, unchecked')
    BY <2>1, <2>3, <2>5, UpdateFits
  <2>8. Leads(kind[a], step, y, unchecked')
    BY <2>1, <2>3, <2>5, <2>6 DEF Leads, Gives
  <2>9. Ready(a, step, unchecked')
    BY <2>4, <2>6 DEF Ready, Gives
  <2> QED
    BY <2>4, <2>6, <2>7, <2>8, <2>9, Double DEF Groups
<1> QED
  BY <1>4, <1>5, <1>6, <1>7, <1>8, <1>9 DEF RiderAuthNext

LEMMA RiderManagementOpens ==
    ASSUME Base, NEW q \in Requests, NEW a \in Accounts, RiderManagementNext(q, a)
    PROVE  Opens(q, a)
<1>1. TypeOK
  BY DEF Base
<1>2. Begun => Begins
  BY <1>1, BegunBegins
<1>3. CASE CreateRider(q, a)
  <2>1. PICK f : f = [verified |-> FALSE] /\ DOMAIN f = {"verified"}
    BY RiderFields
  <2>2. Serve(q, a, {"session"}, <<Create(f)>>) /\ Begins /\ Rider(a)
    BY <1>2, <1>3, <2>1 DEF CreateRider
  <2>3. Change(kind[a], f) /\ kind[a] = "rider"
    BY <2>1, <2>2, Serving, RiderChanges
  <2>4. Fits(kind[a], {"session"}, Create(f), calls + 1, unchecked')
    BY <2>1, <2>3, CreateFits
  <2> QED
    BY <2>2, <2>4, CreateReady, Single DEF Groups
<1>4. ASSUME NEW b \in BOOLEAN, VerifyRiderPapers(q, a, b)
      PROVE  Opens(q, a)
  <2>1. PICK f : f = [verified |-> b] /\ DOMAIN f = {"verified"}
    BY RiderFields
  <2>2. Change("rider", f)
    BY <2>1, RiderChanges
  <2> QED
    BY <1>2, <1>4, <2>1, <2>2, PlainUpdates DEF VerifyRiderPapers, Groups
<1>5. ASSUME NEW b \in BOOLEAN, UpdateRider(q, a, b)
      PROVE  Opens(q, a)
  <2>1. PICK f : f = [active |-> b] /\ DOMAIN f = {"active"}
    BY Fields
  <2>2. Change("rider", f)
    BY <2>1, RiderChanges
  <2> QED
    BY <1>2, <1>5, <2>1, <2>2, PlainUpdates DEF UpdateRider, Groups
<1>6. CASE SuspendRider(q, a)
  <2>1. PICK f : /\ f = [suspended |-> TRUE, online |-> FALSE] /\ DOMAIN f = {"suspended", "online"}
                 /\ f.suspended = TRUE /\ f.online = FALSE
    <3>1. PICK f : f = [suspended |-> TRUE, online |-> FALSE]
      OBVIOUS
    <3> QED
      BY <3>1, SuspensionFields
  <2>2. PICK x : x = CheckCarrying /\ x.op = "carrying"
    BY StepFields
  <2>3. PICK y : y = Update(f) /\ y.op = "update" /\ y.to = f
    BY StepFields
  <2>4. /\ Serve(q, a, {"work"}, <<x, y>>) /\ Rider(a) /\ doc[a].known /\ Begins
    BY <1>2, <1>6, <2>1, <2>2, <2>3 DEF SuspendRider
  <2>5. Change(kind[a], f) /\ kind[a] = "rider"
    BY <2>1, <2>4, Serving, RiderChanges
  <2>6. Fits(kind[a], {"work"}, x, calls + 1, unchecked')
    BY <2>2 DEF Fits, Gives
  <2>7. Fits(kind[a], {"work"}, y, calls + 1, unchecked')
    BY <2>1, <2>3, <2>5, UpdateFits
  <2>8. Leads(kind[a], x, y, unchecked')
    BY <2>1, <2>2, <2>3, <2>5 DEF Leads, Gives
  <2>9. Ready(a, x, unchecked')
    BY <2>2, <2>4 DEF Ready, Gives
  <2> QED
    BY <2>4, <2>6, <2>7, <2>8, <2>9, Double DEF Groups
<1>7. CASE UnsuspendRider(q, a)
  <2>1. PICK f : f = [suspended |-> FALSE] /\ DOMAIN f = {"suspended"} /\ f.suspended = FALSE
    BY RiderFields
  <2>2. Serve(q, a, {"work"}, <<Update(f)>>) /\ Begins /\ Rider(a) /\ doc[a].known
    BY <1>2, <1>7, <2>1 DEF UnsuspendRider
  <2>3. Change(kind[a], f) /\ kind[a] = "rider"
    BY <2>1, <2>2, Serving, RiderChanges
  <2> QED
    BY <2>1, <2>2, <2>3, Updates DEF Groups
<1>8. CASE ResetRiderPassword(q, a)
  <2>1. PICK f : f = [mustChange |-> TRUE, device |-> NoDevice] /\ DOMAIN f = {"mustChange", "device"}
                 /\ f.device = NoDevice
    <3>1. PICK f : f = [mustChange |-> TRUE, device |-> NoDevice]
      OBVIOUS
    <3> QED
      BY <3>1, ResetFields
  <2>2. Serve(q, a, {"reset"}, <<Update(f)>>) /\ Begins /\ Rider(a) /\ doc[a].known
    BY <1>2, <1>8, <2>1 DEF ResetRiderPassword
  <2>3. Change(kind[a], f) /\ kind[a] = "rider"
    <3>1. PICK b \in BOOLEAN : f = [mustChange |-> b, device |-> NoDevice]
      BY <2>1
    <3>2. Change("rider", f)
      BY <3>1, RiderChanges
    <3> QED
      BY <2>2, <3>2, Serving
  <2>4. Looked(f.device, unchecked')
    BY <2>1 DEF Looked
  <2> QED
    BY <2>1, <2>2, <2>3, <2>4, Updates DEF Groups
<1>9. ASSUME NEW v \in Devices \union {NoDevice}, UpdateDeviceBinding(q, a, v)
      PROVE  Opens(q, a)
  <2>1. PICK f : f = [device |-> v] /\ DOMAIN f = {"device"} /\ f.device = v
    BY RiderFields
  <2>2. /\ Serve(q, a, {"device"}, <<Update(f)>>) /\ Rider(a) /\ doc[a].known
        /\ Begins /\ Looked(v, unchecked')
    BY <1>1, <1>9, <2>1, BegunBegins DEF UpdateDeviceBinding
  <2>3. Change(kind[a], f) /\ kind[a] = "rider"
    BY <2>1, <2>2, Serving, RiderChanges
  <2> QED
    BY <2>1, <2>2, <2>3, Updates DEF Groups
<1> QED
  BY <1>3, <1>4, <1>5, <1>6, <1>7, <1>8, <1>9 DEF RiderManagementNext

LEMMA AdminAuthOpens ==
    ASSUME Base, NEW q \in Requests, NEW a \in Accounts, AdminAuthNext(q, a)
    PROVE  Opens(q, a)
<1>1. TypeOK /\ Counted /\ DocsOK
  BY Typed DEF Base
<1>2. Begun => Begins
  BY <1>1, BegunBegins
<1>3. Admin(a) <=> kind[a] = "admin"
  BY <1>1, Typed
<1>4. ASSUME Admin(a)
      PROVE  doc[a].locked \in BOOLEAN /\ doc[a].super \in BOOLEAN /\ doc[a].failed \in 0..MaxCalls
  BY <1>1, <1>3, <1>4, SchemaFields, SchemaValues DEF DocsOK, Holds
<1>5. \A G : "attempt" \in G /\ Admin(a) => Fits(kind[a], G, Forgive, calls + 1, unchecked')
  BY <1>3, StepFields DEF Fits, Gives
<1>6. doc[a].known => Ready(a, Forgive, unchecked')
  BY StepFields DEF Ready, Gives
<1>7. CASE LoginAdmin(q, a)
  <2>1. /\ Serve(q, a, {"attempt", "session"}, <<Forgive>> \o AdminSession) /\ Begins
        /\ Admin(a) /\ doc[a].known
    BY <1>2, <1>7 DEF LoginAdmin, VerifyAdmin
  <2> QED
    BY <1>5, <1>6, <2>1, SingleSession DEF Groups
<1>8. CASE FailAttempt(q, a)
  <2>1. PICK n : n = doc[a].failed + 1
    OBVIOUS
  <2>2. PICK x : x = Miss(n) /\ x.op = "miss" /\ x.count = n
    BY StepFields
  <2>3. /\ Serve(q, a, {"attempt"}, <<x>>) /\ Begins /\ Admin(a) /\ doc[a].known
        /\ doc[a].locked = FALSE
    BY <1>2, <1>4, <1>8, <2>1, <2>2 DEF FailAttempt, VerifyAdmin
  <2>4. n \in 1..(calls + 1)
    BY <1>1, <1>4, <2>1, <2>3, Serving DEF Counted
  <2>5. Fits(kind[a], {"attempt"}, x, calls + 1, unchecked')
    BY <1>3, <2>2, <2>3, <2>4 DEF Fits, Gives
  <2>6. Ready(a, x, unchecked')
    BY <2>1, <2>2, <2>3 DEF Ready, Gives
  <2> QED
    BY <2>3, <2>5, <2>6, Single DEF Groups
<1>9. ASSUME NEW step \in {RevokeAll, RevokeOne}, LogoutAdmin(q, a, step)
      PROVE  Opens(q, a)
  BY <1>2, <1>9, LogsOpen DEF LogoutAdmin
<1>10. ASSUME NEW by \in Accounts, ResetAdminPassword(q, a, by)
       PROVE  Opens(q, a)
  BY <1>2, <1>5, <1>6, <1>10, Single DEF ResetAdminPassword, Groups
<1>11. ASSUME NEW by \in Accounts, NEW s \in BOOLEAN, CreateAdmin(q, a, by, s)
       PROVE  Opens(q, a)
  <2>1. PICK f : f = [super |-> s] /\ DOMAIN f = {"super"}
    BY Fields
  <2>2. Serve(q, a, {"super"}, <<Create(f)>>) /\ Begins /\ Admin(a)
    BY <1>2, <1>11, <2>1 DEF CreateAdmin
  <2>3. Change(kind[a], f)
    BY <1>3, <2>1, <2>2, AdminChanges
  <2>4. Fits(kind[a], {"super"}, Create(f), calls + 1, unchecked')
    BY <2>1, <2>3, CreateFits
  <2> QED
    BY <2>2, <2>4, CreateReady, Single DEF Groups
<1>12. ASSUME NEW f, Change("admin", f), DOMAIN f \subseteq {"super", "active"},
              Serve(q, a, {"super"}, <<Update(f)>>), Begun, Admin(a), doc[a].known,
              "active" \in DOMAIN f => f.active = TRUE \/ doc[a].super = FALSE
       PROVE  Opens(q, a)
  BY <1>2, <1>3, <1>12, Updates DEF Groups
<1>13. PICK f : f = [active |-> FALSE] /\ DOMAIN f = {"active"} /\ f.active = FALSE
  BY Fields
<1>14. Change("admin", f)
  BY <1>13, AdminChanges
<1>15. ASSUME NEW by \in Accounts, DeleteAdmin(q, a, by)
       PROVE  Opens(q, a)
  BY <1>4, <1>12, <1>13, <1>14, <1>15 DEF DeleteAdmin
<1>16. ASSUME NEW by \in Accounts, DeactivateAdmin(q, a, by)
       PROVE  Opens(q, a)
  <2>1. CASE doc[a].super
    <3>1. PICK x : x = CheckSupers /\ x.op = "supers"
      BY StepFields
    <3>2. PICK y : y = Update(f) /\ y.op = "update" /\ y.to = f
      BY StepFields
    <3>3. Serve(q, a, {"super"}, <<x>> \o <<y>>) /\ Admin(a) /\ doc[a].known /\ Begins
      BY <1>2, <1>13, <1>16, <2>1, <3>1, <3>2 DEF DeactivateAdmin
    <3>4. Fits(kind[a], {"super"}, x, calls + 1, unchecked')
      BY <3>1 DEF Fits, Gives
    <3>5. Fits(kind[a], {"super"}, y, calls + 1, unchecked')
      <4>1. kind[a] = "admin" /\ Change(kind[a], f)
        BY <1>3, <1>14, <3>3
      <4>2. "code" \notin DOMAIN f /\ "carrying" \notin DOMAIN f /\ "suspended" \notin DOMAIN f
            /\ "device" \notin DOMAIN f
        BY <1>13
      <4> QED
        BY <3>2, <4>1, <4>2, UpdateFits
    <3>6. Leads(kind[a], x, y, unchecked')
      BY <1>13, <3>1, <3>2 DEF Leads, Gives
    <3>7. Ready(a, x, unchecked')
      BY <3>1, <3>3 DEF Ready, Gives
    <3>8. PICK u : u = unchecked'
      OBVIOUS
    <3>9. PICK t : t = <<y>> /\ t # <<>> /\ Head(t) = y /\ Fine(kind[a], {"super"}, t, calls + 1, u)
      BY <3>5, <3>8, OneStep
    <3>10. PICK s : s = <<x>> \o t
      OBVIOUS
    <3>11. Fine(kind[a], {"super"}, s, calls + 1, u) /\ s # <<>> /\ Head(s) = x
      BY <3>4, <3>6, <3>8, <3>9, <3>10, Prepended
    <3> QED
      BY <3>3, <3>7, <3>8, <3>9, <3>10, <3>11, Opened DEF Groups
  <2>2. CASE ~doc[a].super
    <3>1. <<>> \o <<Update(f)>> = <<Update(f)>>
      OBVIOUS
    <3> QED
      BY <1>4, <1>12, <1>13, <1>14, <1>16, <2>2, <3>1 DEF DeactivateAdmin
  <2> QED
    BY <2>1, <2>2
<1>17. ASSUME NEW by \in Accounts,
              NEW g \in {[super |-> TRUE], [super |-> FALSE], [active |-> TRUE]},
              UpdateAdmin(q, a, by, g)
       PROVE  Opens(q, a)
  <2>1. Change("admin", g) /\ DOMAIN g \subseteq {"super", "active"}
        /\ ("active" \in DOMAIN g => g.active = TRUE)
    BY AdminChanges, Fields
  <2> QED
    BY <1>12, <1>17, <2>1 DEF UpdateAdmin
<1> QED
  BY <1>7, <1>8, <1>9, <1>10, <1>11, <1>15, <1>16, <1>17 DEF AdminAuthNext

-----------------------------------------------------------------------------
(* Base is kept.                                                           *)

(* What was planned may still be done after more calls and more devices.   *)
LEMMA Later ==
    ASSUME NEW r, NEW k, NEW n \in Nat, NEW m \in Nat, n <= m, NEW u, NEW w, u \subseteq w,
           Planned(r, k, n, u)
    PROVE  Planned(r, k, m, w)
<1>1. 1..n \subseteq 1..m
  OBVIOUS
<1>2. \A v : Looked(v, u) => Looked(v, w)
  BY DEF Looked
<1>3. ASSUME NEW i \in 1..Len(r.todo)
      PROVE  Fits(k, r.groups, r.todo[i], m, w)
  <2>1. PICK s : s = r.todo[i]
    OBVIOUS
  <2>2. Fits(k, r.groups, s, n, u)
    BY <2>1 DEF Planned
  <2>3. /\ Gives(s, "code") => s.to.code \in 1..m
        /\ s.op = "spend" => s.code \in 1..m
        /\ s.op = "addAddress" => s.id \in 1..m
        /\ s.op = "miss" => s.count \in 1..m
    BY <1>1, <2>2 DEF Fits
  <2>4. Gives(s, "device") => "device" \in r.groups \/ Looked(s.to.device, w)
    BY <1>2, <2>2 DEF Fits
  <2>5. Fits(k, r.groups, s, m, w)
    BY <2>2, <2>3, <2>4 DEF Fits
  <2> QED
    BY <2>1, <2>5
<1>4. ASSUME NEW i \in 1..(Len(r.todo) - 1)
      PROVE  Leads(k, r.todo[i], r.todo[i + 1], w)
  <2>1. PICK s : s = r.todo[i]
    OBVIOUS
  <2>2. PICK t : t = r.todo[i + 1]
    OBVIOUS
  <2>3. Leads(k, s, t, u)
    BY <2>1, <2>2 DEF Planned
  <2>4. Leads(k, s, t, w)
    BY <1>2, <2>3 DEF Leads
  <2> QED
    BY <2>1, <2>2, <2>4
<1> QED
  BY <1>3, <1>4 DEF Planned

LEMMA OpensRequests ==
    ASSUME Base, NEW q \in Requests, NEW a \in Accounts, Opens(q, a)
    PROVE  RequestInv' /\ Overlaps'
<1>1. RequestInv /\ Overlaps /\ calls \in Nat /\ calls + 1 \in Nat /\ calls <= calls + 1
  BY DEF Base, TypeOK
<1>2. kind' = kind /\ doc' = doc /\ calls' = calls + 1 /\ unchecked \subseteq unchecked'
  BY DEF Opens, Begins
<1>3. PICK u : u = unchecked'
  OBVIOUS
<1>4. ASSUME NEW p \in Requests, req'[p] # Idle
      PROVE  /\ Planned(req'[p], kind[req'[p].acct], calls + 1, u)
             /\ Head(req'[p].todo).op # "register" => doc[req'[p].acct].known
             /\ p = q => req'[p].acct = a
             /\ p # q => Busy(p) /\ req'[p] = req[p]
  <2>1. CASE p = q
    BY <1>3, <1>4, <2>1 DEF Opens, Ready
  <2>2. CASE p # q
    <3>1. req'[p] = req[p]
      BY <2>2 DEF Opens
    <3>2. Busy(p) /\ Planned(req[p], kind[Account(p)], calls, unchecked)
          /\ (Nxt(p).op # "register" => doc[Account(p)].known)
      BY <1>1, <1>4, <3>1, BusyOnes
    <3>3. Planned(req[p], kind[Account(p)], calls + 1, u)
      BY <1>1, <1>2, <1>3, <3>2, Later
    <3> QED
      BY <2>2, <3>1, <3>2, <3>3 DEF Account, Nxt
  <2> QED
    BY <2>1, <2>2
<1>5. RequestInv'
  BY <1>2, <1>3, <1>4 DEF RequestInv, Opens, Account, Nxt
<1>6. Idle.todo = <<>>
  BY DEF Idle
<1>7. \A p \in Requests : Busy(p)' => req'[p] # Idle
  BY <1>6 DEF Busy
<1>8. raced \subseteq raced'
  BY DEF Opens
<1>9. ASSUME NEW p \in Requests \ {q}, Busy(p)', Busy(q)',
             NEW g \in req'[p].groups \intersect req'[q].groups,
             Account(p)' = a \/ g \in Shared
      PROVE  <<g, a>> \in raced'
  <2>1. Busy(p) /\ req'[p] = req[p]
    BY <1>4, <1>7, <1>9
  <2> QED
    BY <1>9, <2>1 DEF Opens, Account
<1>10. ASSUME NEW p \in Requests, NEW r \in Requests, p # r, Busy(p)', Busy(r)',
              NEW g \in req'[p].groups \intersect req'[r].groups
       PROVE  /\ Account(p)' = Account(r)' => Raced(g, Account(p))'
              /\ g \in Shared => Raced(g, Account(p))' \/ Raced(g, Account(r))'
  <2>1. CASE p = q
    <3>1. Account(p)' = a
      BY <1>4, <1>7, <1>10, <2>1 DEF Account
    <3> QED
      BY <1>9, <1>10, <2>1, <3>1 DEF Raced
  <2>2. CASE r = q
    <3>1. Account(r)' = a
      BY <1>4, <1>7, <1>10, <2>2 DEF Account
    <3> QED
      BY <1>9, <1>10, <2>2, <3>1 DEF Raced
  <2>3. CASE p # q /\ r # q
    <3>1. Busy(p) /\ req'[p] = req[p] /\ Busy(r) /\ req'[r] = req[r]
      BY <1>4, <1>7, <1>10, <2>3
    <3>2. /\ Account(p) = Account(r) => Raced(g, Account(p))
          /\ g \in Shared => Raced(g, Account(p)) \/ Raced(g, Account(r))
      BY <1>1, <1>10, <3>1 DEF Overlaps
    <3> QED
      BY <1>8, <3>1, <3>2 DEF Raced, Account
  <2> QED
    BY <2>1, <2>2, <2>3
<1>11. Overlaps'
  BY <1>10 DEF Overlaps
<1> QED
  BY <1>5, <1>11

(* The numbers in a document. *)
LEMMA NumbersOf ==
    ASSUME NEW k, NEW d, Holds(k, d)
    PROVE  /\ k = "admin" => d["failed"] \in 0..MaxCalls
           /\ k # "admin" => d["code"] \in 0..MaxCalls
           /\ "known" \in DOMAIN Schema(k) /\ d["known"] \in BOOLEAN
<1>1. CASE k = "rider"
  BY <1>1, SchemaFields, SchemaValues DEF Holds
<1>2. CASE k = "admin"
  BY <1>2, SchemaFields, SchemaValues DEF Holds
<1>3. CASE k \notin {"rider", "admin"}
  <2>1. /\ DOMAIN Schema(k) = {"known", "active", "confirmed", "mail", "code", "addresses"}
        /\ Schema(k)["code"] = 0..MaxCalls /\ Schema(k)["known"] = BOOLEAN
    BY <1>3, SchemaFields, SchemaValues
  <2> QED
    BY <1>3, <2>1 DEF Holds
<1> QED
  BY <1>1, <1>2, <1>3

LEMMA OpensBase ==
    ASSUME Base, NEW q \in Requests, NEW a \in Accounts, Opens(q, a)
    PROVE  Base'
<1>1. RequestInv' /\ Overlaps'
  BY OpensRequests
<1>2. /\ TypeOK /\ DocsOK /\ TokensCounted /\ Counted /\ calls \in Nat /\ calls + 1 \in 0..MaxCalls
      /\ live \in [Accounts -> 0..MaxCalls]
  <2>1. TypeOK /\ TokensCounted /\ Counted
    BY DEF Base
  <2>2. DocsOK
    BY <2>1, Typed
  <2>3. calls \in 0..MaxCalls /\ live \in [Accounts -> 0..MaxCalls]
    BY <2>1 DEF TypeOK
  <2>4. calls < MaxCalls
    BY DEF Opens
  <2>5. calls \in Nat /\ calls + 1 \in 0..MaxCalls
    BY <2>3, <2>4, AccountsAssumption
  <2> QED
    BY <2>1, <2>2, <2>3, <2>5
<1>3. UNCHANGED <<kind, doc, live, spent, misses, demoted, recalled, faults>> /\ calls' = calls + 1
  BY DEF Opens, Begins
<1>4. TypeOK'
  <2>1. DocsOK'
    BY <1>2, <1>3 DEF DocsOK
  <2> QED
    BY <1>1, <1>2, <1>3, <2>1, DocsTyped DEF TypeOK, Opens, Begins
<1>5. Counted'
  <2>1. ASSUME NEW b \in Accounts
        PROVE  /\ Admin(b) => doc[b].failed <= calls + 1
               /\ ~Admin(b) => doc[b].code <= calls + 1
    <3>1. /\ kind[b] = "admin" => doc[b].failed \in 0..MaxCalls
          /\ kind[b] # "admin" => doc[b].code \in 0..MaxCalls
      BY <1>2, NumbersOf DEF DocsOK
    <3>2. CASE kind[b] = "admin"
      <4>1. doc[b].failed \in 0..MaxCalls /\ doc[b].failed <= calls
        BY <1>2, <3>1, <3>2 DEF Counted, Admin
      <4>2. doc[b].failed <= calls + 1
        BY <1>2, <4>1
      <4> QED
        BY <3>2, <4>2 DEF Admin
    <3>3. CASE kind[b] # "admin"
      <4>1. doc[b].code \in 0..MaxCalls /\ doc[b].code <= calls
        BY <1>2, <3>1, <3>3 DEF Counted, Admin
      <4>2. doc[b].code <= calls + 1
        BY <1>2, <4>1
      <4> QED
        BY <3>3, <4>2 DEF Admin
    <3> QED
      BY <3>2, <3>3
  <2> QED
    BY <1>3, <2>1 DEF Counted, Admin
<1>6. TokensCounted'
  <2>1. ASSUME NEW b \in Accounts
        PROVE  live[b] + Cardinality(Creating(b)') <= calls + 1
    <3>1. Creating(b)' \subseteq Creating(b) \union {q}
      BY DEF Creating, Opens, Busy, Account
    <3>2. IsFiniteSet(Creating(b)) /\ Cardinality(Creating(b)) \in Nat
      BY AccountsAssumption, FS_Subset, FS_CardinalityType DEF Creating
    <3>3. /\ IsFiniteSet(Creating(b) \union {q})
          /\ Cardinality(Creating(b) \union {q}) \in Nat
          /\ Cardinality(Creating(b) \union {q}) <= Cardinality(Creating(b)) + 1
      <4>1. PICK C : C = Creating(b)
        OBVIOUS
      <4>2. IsFiniteSet(C \union {q})
            /\ Cardinality(C \union {q}) = IF q \in C THEN Cardinality(C) ELSE Cardinality(C) + 1
        BY <3>2, <4>1, FS_AddElement
      <4> QED
        BY <3>2, <4>1, <4>2
    <3>4. Cardinality(Creating(b)') \in Nat
          /\ Cardinality(Creating(b)') <= Cardinality(Creating(b) \union {q})
      BY <3>1, <3>3, FS_Subset, FS_CardinalityType
    <3>5. live[b] \in Nat /\ live[b] + Cardinality(Creating(b)) <= calls
      BY <1>2 DEF TokensCounted
    <3> QED
      BY <1>2, <3>2, <3>3, <3>4, <3>5
  <2> QED
    BY <1>3, <2>1 DEF TokensCounted
<1> QED
  BY <1>1, <1>4, <1>5, <1>6 DEF Base

LEMMA SetsKept ==
    ASSUME TypeOK, Counted, NEW a \in Accounts, NEW f, Sets(a, f), UNCHANGED <<kind, calls>>,
           "known" \in DOMAIN f => f["known"] = TRUE,
           kind[a] # "admin" /\ "code" \in DOMAIN f => f["code"] <= calls,
           kind[a] = "admin" /\ "failed" \in DOMAIN f => f["failed"] <= calls
    PROVE  DocsOK' /\ Counted' /\ \A b \in Accounts : doc[b].known => doc'[b].known
<1>1. DocsOK
  BY Typed
<1>2. DocsOK'
  BY <1>1 DEF DocsOK, Sets
<1>3. Holds(kind[a], doc[a])
  BY <1>1 DEF DocsOK
<1>4. \A b \in Accounts : doc[b].known => doc'[b].known
  <2>1. doc[a].known => doc'[a].known
    BY <1>3, NumbersOf DEF Sets
  <2> QED
    BY <2>1 DEF Sets
<1>5. Counted'
  <2>1. ASSUME NEW b \in Accounts, b # a
        PROVE  /\ Admin(b) => doc'[b].failed <= calls
               /\ ~Admin(b) => doc'[b].code <= calls
    BY <2>1 DEF Sets, Counted
  <2>2. Admin(a) => doc'[a].failed <= calls
    <3>1. ASSUME Admin(a)
          PROVE  doc'[a].failed <= calls
      <4>1. "failed" \in DOMAIN Schema(kind[a])
        BY <3>1, SchemaFields DEF Admin
      <4>2. doc'[a]["failed"] = IF "failed" \in DOMAIN f THEN f["failed"] ELSE doc[a]["failed"]
        BY <4>1 DEF Sets
      <4> QED
        BY <3>1, <4>2 DEF Counted, Admin
    <3> QED
      BY <3>1
  <2>3. ~Admin(a) => doc'[a].code <= calls
    <3>1. ASSUME ~Admin(a)
          PROVE  doc'[a].code <= calls
      <4>1. "code" \in DOMAIN Schema(kind[a])
        BY <3>1, SchemaFields DEF Admin
      <4>2. doc'[a]["code"] = IF "code" \in DOMAIN f THEN f["code"] ELSE doc[a]["code"]
        BY <4>1 DEF Sets
      <4> QED
        BY <3>1, <4>2 DEF Counted, Admin
    <3> QED
      BY <3>1
  <2> QED
    BY <2>1, <2>2, <2>3 DEF Counted, Admin
<1> QED
  BY <1>2, <1>4, <1>5

LEMMA TokensLess ==
    ASSUME Base, NEW q \in Requests, Busy(q), OnTo(q), calls' = calls,
           live' \in [Accounts -> 0..MaxCalls], \A b \in Accounts : live'[b] <= live[b]
    PROVE  TokensCounted'
<1>1. RequestInv /\ TokensCounted /\ live \in [Accounts -> 0..MaxCalls] /\ calls \in 0..MaxCalls
      /\ MaxCalls \in Nat
  BY AccountsAssumption DEF Base, TypeOK
<1>2. ASSUME NEW b \in Accounts
      PROVE  live'[b] + Cardinality(Creating(b)') <= calls
  <2>1. live[b] + Cardinality(Creating(b)) <= calls
    BY <1>1 DEF TokensCounted
  <2>2. /\ Cardinality(Creating(b)) \in Nat /\ Cardinality(Creating(b)') \in Nat
        /\ Cardinality(Creating(b)') <= Cardinality(Creating(b))
    BY <1>1, CreatesLess
  <2>3. live'[b] <= live[b] /\ live'[b] \in Nat /\ live[b] \in Nat
    BY <1>1
  <2> QED
    BY <1>1, <2>1, <2>2, <2>3
<1> QED
  BY <1>2 DEF TokensCounted

LEMMA BaseKept ==
    ASSUME Base, NEW q \in Requests, Busy(q), OnTo(q),
           UNCHANGED <<kind, raced, calls, unchecked, refused>>,
           \A a \in Accounts : doc[a].known => doc'[a].known,
           Busy(q)' /\ Nxt(q).op = "register" => doc'[Account(q)].known,
           DocsOK', Counted', TokensCounted',
           live' \in [Accounts -> 0..MaxCalls], misses' \in [Accounts -> Nat],
           spent' \in [1..MaxCalls -> Nat], demoted' \in BOOLEAN,
           recalled' \subseteq Accounts, faults' \in 0..MaxFaults
    PROVE  Base'
<1>1. RequestInv' /\ Overlaps'
  BY RequestsKept
<1>2. TypeOK'
  BY <1>1, DocsTyped DEF Base, TypeOK
<1> QED
  BY <1>1, <1>2 DEF Base

(* A step that leaves the documents alone. *)
LEMMA DocsKept ==
    ASSUME Base, UNCHANGED <<kind, doc, calls>>
    PROVE  DocsOK' /\ Counted' /\ \A b \in Accounts : doc[b].known => doc'[b].known
<1>1. DocsOK /\ Counted
  BY Typed DEF Base
<1> QED
  BY <1>1 DEF DocsOK, Counted, Admin

LEMMA StepBase ==
    ASSUME Base, NEW q \in Requests, Step(q)
    PROVE  Base'
<1>1. /\ TypeOK /\ Counted /\ calls \in Nat /\ MaxCalls \in Nat /\ 0 <= calls
      /\ live \in [Accounts -> 0..MaxCalls] /\ misses \in [Accounts -> Nat]
      /\ spent \in [1..MaxCalls -> Nat] /\ demoted \in BOOLEAN /\ recalled \subseteq Accounts
      /\ faults \in 0..MaxFaults /\ \A b \in Accounts : live[b] <= live[b]
  BY AccountsAssumption DEF Base, TypeOK
<1>2. CASE DoUpdate(q)
  <2>1. /\ Took(q) /\ Nxt(q).op = "update" /\ Sets(Account(q), Nxt(q).to)
        /\ Change(kind[Account(q)], Nxt(q).to) /\ UNCHANGED <<live, spent, misses>>
    BY <1>2, UpdateEffect
  <2>2. Account(q) \in Accounts /\ Busy(q) /\ OnTo(q)
    BY <2>1 DEF Took
  <2>3. PICK f : f = Nxt(q).to
    OBVIOUS
  <2>4. "known" \notin DOMAIN f /\ "failed" \notin DOMAIN f
    BY <2>1, <2>3 DEF Change
  <2>5. "code" \in DOMAIN f => f["code"] <= calls
    BY <1>1, <2>1, <2>3 DEF Took, Fits, Gives
  <2>6. DocsOK' /\ Counted' /\ \A b \in Accounts : doc[b].known => doc'[b].known
    BY <1>1, <2>1, <2>2, <2>3, <2>4, <2>5, SetsKept DEF Took
  <2>7. TokensCounted'
    BY <1>1, <2>1, <2>2, TokensLess DEF Took
  <2>8. demoted' \in BOOLEAN /\ recalled' \subseteq Accounts
    BY <1>1, <1>2, <2>2 DEF DoUpdate, Account
  <2> QED
    BY <1>1, <2>1, <2>2, <2>6, <2>7, <2>8, BaseKept DEF Took
<1>3. CASE DoCreate(q)
  <2> DEFINE a == Account(q)
             f == Merged(Blank(a), Nxt(q).to)
  <2>1. /\ Took(q) /\ Nxt(q).op = "register" /\ UNCHANGED <<live, history>>
        /\ DOMAIN Nxt(q).to \subseteq {"mail", "confirmed", "verified", "super"}
        /\ \/ doc[a].known /\ doc' = doc /\ req'[q] = Idle
           \/ ~doc[a].known /\ Sets(a, f)
    BY <1>3, CreateEffect
  <2>2. a \in Accounts /\ Busy(q) /\ OnTo(q) /\ UNCHANGED <<kind, calls>>
    BY <2>1 DEF Took
  <2>3. TokensCounted'
    BY <1>1, <2>1, <2>2, TokensLess DEF Took
  <2>4. CASE doc' = doc /\ req'[q] = Idle
    <3>1. ~Busy(q)'
      BY <2>4 DEF Busy, Idle
    <3> QED
      BY <1>1, <2>1, <2>2, <2>3, <2>4, <3>1, DocsKept, BaseKept DEF Took, history
  <2>5. CASE Sets(a, f)
    <3>1. /\ Holds(kind[a], Blank(a)) /\ Blank(a).known = TRUE
          /\ ~Admin(a) => Blank(a).code = 0
          /\ Admin(a) => Blank(a).failed = 0
      BY <1>1, <2>2, BlankHolds
    <3>2. DOMAIN Blank(a) = DOMAIN Schema(kind[a])
      BY <3>1 DEF Holds
    <3>3. \A x : x \in DOMAIN f => f[x] = IF x \in DOMAIN Nxt(q).to THEN Nxt(q).to[x] ELSE Blank(a)[x]
      BY MergedFields
    <3>4. /\ "known" \in DOMAIN f => f["known"] = TRUE
          /\ kind[a] # "admin" /\ "code" \in DOMAIN f => f["code"] = 0
          /\ kind[a] = "admin" /\ "failed" \in DOMAIN f => f["failed"] = 0
      BY <2>1, <3>1, <3>3 DEF Admin
    <3> HIDE DEF f, a
    <3>5. DocsOK' /\ Counted' /\ \A b \in Accounts : doc[b].known => doc'[b].known
      BY <1>1, <2>2, <2>5, <3>4, SetsKept
    <3>6. doc'[a].known
      <4>1. "known" \in DOMAIN Schema(kind[a])
        BY <3>1, NumbersOf
      <4>2. DOMAIN f = DOMAIN Schema(kind[a])
        BY <3>2, MergedFields DEF f
      <4> QED
        BY <2>5, <3>4, <4>1, <4>2 DEF Sets
    <3> QED
      BY <1>1, <2>1, <2>2, <2>3, <3>5, <3>6, BaseKept DEF Took, history, a
  <2> QED
    BY <2>1, <2>4, <2>5
<1>4. CASE DoSpend(q)
  <2>1. /\ Took(q) /\ Nxt(q).op = "spend" /\ Sets(Account(q), [code |-> 0])
        /\ spent' = [spent EXCEPT ![Nxt(q).code] = @ + 1]
        /\ UNCHANGED <<live, misses, demoted, recalled>>
    BY <1>4, SpendEffect
  <2>2. Account(q) \in Accounts /\ Busy(q) /\ OnTo(q)
    BY <2>1 DEF Took
  <2>3. PICK f : f = [code |-> 0] /\ DOMAIN f = {"code"} /\ f["code"] = 0
    BY Fields
  <2>4. DocsOK' /\ Counted' /\ \A b \in Accounts : doc[b].known => doc'[b].known
    <3>1. Sets(Account(q), f) /\ f["code"] <= calls
      BY <1>1, <2>1, <2>3
    <3> QED
      BY <1>1, <2>1, <2>2, <2>3, <3>1, SetsKept DEF Took
  <2>5. TokensCounted'
    BY <1>1, <2>1, <2>2, TokensLess DEF Took
  <2>6. spent' \in [1..MaxCalls -> Nat]
    <3>1. PICK c : c = Nxt(q).code
      OBVIOUS
    <3>2. c \in 1..MaxCalls
      <4>1. c \in 1..calls
        BY <2>1, <3>1 DEF Took, Fits
      <4> QED
        BY <1>1, <4>1 DEF TypeOK
    <3>3. spent' = [spent EXCEPT ![c] = @ + 1]
      BY <2>1, <3>1
    <3> QED
      BY <1>1, <3>2, <3>3
  <2> QED
    BY <1>1, <2>1, <2>2, <2>4, <2>5, <2>6, BaseKept DEF Took
<1>5. CASE DoAddress(q)
  <2>1. /\ Took(q) /\ Nxt(q).op \in {"addAddress", "dropAddress"}
        /\ Sets(Account(q), [addresses |-> Saved(q, doc[Account(q)].addresses)])
        /\ UNCHANGED <<live, history>>
    BY <1>5, AddressEffect
  <2>2. Account(q) \in Accounts /\ Busy(q) /\ OnTo(q)
    BY <2>1 DEF Took
  <2>3. PICK f : f = [addresses |-> Saved(q, doc[Account(q)].addresses)] /\ DOMAIN f = {"addresses"}
    BY Fields
  <2>4. DocsOK' /\ Counted' /\ \A b \in Accounts : doc[b].known => doc'[b].known
    BY <1>1, <2>1, <2>2, <2>3, SetsKept DEF Took
  <2>5. TokensCounted'
    BY <1>1, <2>1, <2>2, TokensLess DEF Took
  <2> QED
    BY <1>1, <2>1, <2>2, <2>4, <2>5, BaseKept DEF Took, history
<1>6. CASE DoMiss(q)
  <2> DEFINE a == Account(q)
             n == Nxt(q).count
  <2>1. /\ Took(q) /\ Nxt(q).op = "miss" /\ n \in 1..calls /\ kind[a] = "admin"
        /\ Sets(a, Marked(n, doc[a].locked \/ n >= MaxAttempts))
        /\ misses' = [misses EXCEPT ![a] = @ + 1]
        /\ UNCHANGED <<live, spent, demoted, recalled>>
    BY <1>6, MissEffect
  <2>2. a \in Accounts /\ Busy(q) /\ OnTo(q)
    BY <2>1 DEF Took
  <2>3. PICK f : f = Marked(n, doc[a].locked \/ n >= MaxAttempts) /\ DOMAIN f = {"failed", "locked"}
                 /\ f["failed"] = n
    BY Fields
  <2>4. DocsOK' /\ Counted' /\ \A b \in Accounts : doc[b].known => doc'[b].known
    <3>1. n <= calls
      BY <1>1, <2>1
    <3> QED
      BY <1>1, <2>1, <2>2, <2>3, <3>1, SetsKept DEF Took
  <2>5. TokensCounted'
    BY <1>1, <2>1, <2>2, TokensLess DEF Took
  <2>6. misses' \in [Accounts -> Nat]
    BY <1>1, <2>1, <2>2
  <2> QED
    BY <1>1, <2>1, <2>2, <2>4, <2>5, <2>6, BaseKept DEF Took
<1>7. CASE DoForgive(q)
  <2>1. /\ Took(q) /\ Nxt(q).op = "forgive" /\ kind[Account(q)] = "admin"
        /\ Sets(Account(q), Marked(0, FALSE))
        /\ misses' = [misses EXCEPT ![Account(q)] = 0]
        /\ UNCHANGED <<live, spent, demoted, recalled>>
    BY <1>7, ForgiveEffect
  <2>2. Account(q) \in Accounts /\ Busy(q) /\ OnTo(q)
    BY <2>1 DEF Took
  <2>3. PICK f : f = Marked(0, FALSE) /\ DOMAIN f = {"failed", "locked"} /\ f["failed"] = 0
    <3>1. PICK l : l = FALSE
      OBVIOUS
    <3>2. DOMAIN Marked(0, l) = {"failed", "locked"} /\ Marked(0, l)["failed"] = 0
      BY Fields
    <3> QED
      BY <3>1, <3>2
  <2>4. DocsOK' /\ Counted' /\ \A b \in Accounts : doc[b].known => doc'[b].known
    <3>1. Sets(Account(q), f) /\ f["failed"] <= calls
      BY <1>1, <2>1, <2>3
    <3> QED
      BY <1>1, <2>1, <2>2, <2>3, <3>1, SetsKept DEF Took
  <2>5. TokensCounted'
    BY <1>1, <2>1, <2>2, TokensLess DEF Took
  <2>6. misses' \in [Accounts -> Nat]
    BY <1>1, <2>1, <2>2
  <2> QED
    BY <1>1, <2>1, <2>2, <2>4, <2>5, <2>6, BaseKept DEF Took
<1>8. CASE DoFind(q) \/ DoCheck(q)
  <2>1. Took(q) /\ Nxt(q).op # "register" /\ UNCHANGED <<doc, live, history>>
    BY <1>8, LookEffect
  <2>2. TokensCounted'
    BY <1>1, <2>1, TokensLess DEF Took
  <2> QED
    BY <1>1, <2>1, <2>2, DocsKept, BaseKept DEF Took, history
<1>9. CASE DoRevoke(q)
  <2>1. /\ Took(q) /\ Nxt(q).op # "register" /\ UNCHANGED <<doc, history>>
        /\ live' \in [Accounts -> 0..MaxCalls]
        /\ \A b \in Accounts : live'[b] <= live[b]
    BY <1>9, RevokeEffect
  <2>2. TokensCounted'
    BY <2>1, TokensLess DEF Took
  <2> QED
    BY <1>1, <2>1, <2>2, DocsKept, BaseKept DEF Took, history
<1>10. CASE DoCreateToken(q)
  <2>1. /\ Took(q) /\ Nxt(q).op = "create" /\ UNCHANGED <<doc, history>>
        /\ live' = [live EXCEPT ![Account(q)] = @ + 1]
    BY <1>10, TokenEffect
  <2>2. Account(q) \in Accounts /\ Busy(q) /\ OnTo(q) /\ calls' = calls
    BY <2>1 DEF Took
  <2>3. ASSUME NEW b \in Accounts
        PROVE  live'[b] + Cardinality(Creating(b)') <= calls /\ live'[b] \in 0..MaxCalls
    <3>1. /\ Cardinality(Creating(b)) \in Nat /\ Cardinality(Creating(b)') \in Nat
          /\ Cardinality(Creating(b)') <= Cardinality(Creating(b))
          /\ b = Account(q) => Cardinality(Creating(b)') < Cardinality(Creating(b))
      BY <2>1, <2>2, CreatesLess DEF Base
    <3>2. live[b] + Cardinality(Creating(b)) <= calls /\ live[b] \in 0..MaxCalls
          /\ calls <= MaxCalls /\ calls \in Nat /\ MaxCalls \in Nat
      BY <1>1 DEF Base, TokensCounted, TypeOK
    <3>3. CASE b = Account(q)
      <4>1. live'[b] = live[b] + 1
        BY <1>1, <2>1, <2>2, <3>3
      <4>2. Cardinality(Creating(b)') < Cardinality(Creating(b))
        BY <3>1, <3>3
      <4> QED
        BY <3>1, <3>2, <4>1, <4>2
    <3>4. CASE b # Account(q)
      <4>1. live'[b] = live[b]
        BY <1>1, <2>1, <2>2, <3>4
      <4> QED
        BY <3>1, <3>2, <4>1
    <3> QED
      BY <3>3, <3>4
  <2>4. TokensCounted'
    BY <2>2, <2>3 DEF TokensCounted
  <2>5. live' \in [Accounts -> 0..MaxCalls]
    BY <1>1, <2>1, <2>3
  <2> QED
    BY <1>1, <2>1, <2>4, <2>5, DocsKept, BaseKept DEF Took, history
<1> QED
  BY <1>2, <1>3, <1>4, <1>5, <1>6, <1>7, <1>8, <1>9, <1>10 DEF Step

LEMMA FailBase ==
    ASSUME Base, NEW q \in Requests, Fail(q)
    PROVE  Base'
<1>1. /\ TypeOK /\ live \in [Accounts -> 0..MaxCalls] /\ misses \in [Accounts -> Nat]
      /\ spent \in [1..MaxCalls -> Nat] /\ demoted \in BOOLEAN /\ recalled \subseteq Accounts
      /\ \A b \in Accounts : live[b] <= live[b]
  BY AccountsAssumption DEF Base, TypeOK
<1>2. /\ Busy(q) /\ OnTo(q) /\ req'[q] = Idle /\ faults' = faults + 1 /\ faults < MaxFaults
      /\ UNCHANGED <<kind, doc, live, raced, history, calls>>
  BY FailEffect
<1>3. faults' \in 0..MaxFaults
  BY <1>2, AccountsAssumption DEF Base, TypeOK
<1>4. ~Busy(q)'
  BY <1>2 DEF Busy, Idle
<1>5. TokensCounted'
  BY <1>1, <1>2, TokensLess
<1>6. DocsOK' /\ Counted' /\ \A b \in Accounts : doc[b].known => doc'[b].known
  BY <1>2, DocsKept
<1>7. /\ live' \in [Accounts -> 0..MaxCalls] /\ misses' \in [Accounts -> Nat]
      /\ spent' \in [1..MaxCalls -> Nat] /\ demoted' \in BOOLEAN /\ recalled' \subseteq Accounts
  BY <1>1, <1>2 DEF history
<1>8. UNCHANGED <<kind, raced, calls, unchecked, refused>>
  BY <1>2 DEF history
<1>9. Busy(q) /\ OnTo(q)
  BY <1>2
<1>10. Busy(q)' /\ Nxt(q).op = "register" => doc'[Account(q)].known
  BY <1>4
<1> QED
  BY <1>3, <1>5, <1>6, <1>7, <1>8, <1>9, <1>10, BaseKept

(* Tokens, codes and locks that are over. *)
LEMMA TimeBase ==
    ASSUME Base, NEW a \in Accounts, TokensExpire(a) \/ CodesExpire(a) \/ LockEnds(a)
    PROVE  Base'
<1>1. /\ TypeOK /\ RequestInv /\ Overlaps /\ TokensCounted /\ Counted /\ DocsOK
      /\ live \in [Accounts -> 0..MaxCalls] /\ MaxCalls \in Nat /\ misses \in [Accounts -> Nat]
      /\ calls \in Nat /\ 0 <= calls
  <2>1. TypeOK /\ RequestInv /\ Overlaps /\ TokensCounted /\ Counted
    BY DEF Base
  <2>2. DocsOK
    BY <2>1, Typed
  <2>3. /\ live \in [Accounts -> 0..MaxCalls] /\ misses \in [Accounts -> Nat]
        /\ calls \in 0..MaxCalls
    BY <2>1 DEF TypeOK
  <2>4. MaxCalls \in Nat
    BY AccountsAssumption
  <2> QED
    BY <2>1, <2>2, <2>3, <2>4
<1>2. UNCHANGED <<kind, req, raced, calls, faults, spent, refused, unchecked, demoted, recalled>>
  <2>1. CASE TokensExpire(a)
    BY <2>1 DEF TokensExpire, Passes, history
  <2>2. CASE CodesExpire(a)
    BY <2>2 DEF CodesExpire, Passes, history
  <2>3. CASE LockEnds(a)
    BY <2>3 DEF LockEnds, Passes, history
  <2> QED
    BY <2>1, <2>2, <2>3
<1>3. DocsOK' /\ Counted' /\ \A b \in Accounts : doc[b].known => doc'[b].known
  <2>1. CASE TokensExpire(a)
    <3>1. doc' = doc
      BY <2>1 DEF TokensExpire
    <3> QED
      BY <1>2, <3>1, DocsKept
  <2>2. CASE CodesExpire(a)
    <3>1. PICK f : f = [code |-> 0, mail |-> 0] /\ DOMAIN f = {"code", "mail"} /\ f["code"] = 0
      BY Fields
    <3>2. Sets(a, f)
      BY <2>2, <3>1, CodesExpireEffect
    <3> QED
      BY <1>1, <1>2, <3>1, <3>2, SetsKept
  <2>3. CASE LockEnds(a)
    <3>1. PICK n : n = doc[a].failed
      OBVIOUS
    <3>2. PICK l : l = FALSE
      OBVIOUS
    <3>3. PICK f : f = Marked(n, l) /\ DOMAIN f = {"failed", "locked"} /\ f["failed"] = n
      BY Fields
    <3>4. Sets(a, f) /\ kind[a] = "admin"
      BY <2>3, <3>1, <3>2, <3>3, LockEndsEffect
    <3>5. n <= calls
      BY <1>1, <3>1, <3>4 DEF Counted, Admin
    <3> QED
      BY <1>1, <1>2, <3>3, <3>4, <3>5, SetsKept
  <2> QED
    BY <2>1, <2>2, <2>3
<1>4. RequestInv' /\ Overlaps'
  <2>1. RequestInv'
    <3>1. ASSUME NEW p \in Requests, req[p] # Idle
          PROVE  Planned(req[p], kind[Account(p)], calls, unchecked)
                 /\ (Nxt(p).op # "register" => doc'[Account(p)].known)
      BY <1>1, <1>3, <3>1 DEF RequestInv, Planned, Account
    <3> QED
      BY <1>1, <1>2, <3>1 DEF RequestInv, Account, Nxt
  <2>2. Overlaps'
    BY <1>1, <1>2 DEF Overlaps, Busy, Account, Raced
  <2> QED
    BY <2>1, <2>2
<1>5. /\ live' \in [Accounts -> 0..MaxCalls] /\ misses' \in [Accounts -> Nat]
      /\ \A b \in Accounts : live'[b] <= live[b]
  BY <1>1 DEF TokensExpire, CodesExpire, LockEnds, history
<1>6. TokensCounted'
  <2>1. ASSUME NEW b \in Accounts
        PROVE  live'[b] + Cardinality(Creating(b)) <= calls
    <3>1. Cardinality(Creating(b)) \in Nat
      BY AccountsAssumption, FS_Subset, FS_CardinalityType DEF Creating
    <3>2. live'[b] <= live[b] /\ live'[b] \in Nat /\ live[b] \in Nat
      BY <1>1, <1>5
    <3> QED
      BY <1>1, <3>1, <3>2 DEF TokensCounted
  <2>2. \A b \in Accounts : Creating(b)' = Creating(b)
    BY <1>2 DEF Creating, Busy, Account
  <2> QED
    BY <1>2, <2>1, <2>2 DEF TokensCounted
<1>7. TypeOK'
  BY <1>1, <1>2, <1>3, <1>4, <1>5, DocsTyped DEF TypeOK
<1> QED
  BY <1>3, <1>4, <1>6, <1>7 DEF Base

LEMMA InitBase ==
    ASSUME Init
    PROVE  /\ Base /\ \A q \in Requests : ~Busy(q)
           /\ \A a \in Accounts :
                 /\ \/ doc[a] = [Blank(a) EXCEPT !.known = FALSE]
                    \/ Rider(a) /\ doc[a] = [BlankRider EXCEPT !.verified = TRUE]
                    \/ Admin(a) /\ \E b \in BOOLEAN : doc[a] = [BlankAdmin EXCEPT !.super = b]
                 /\ live[a] = 0 /\ misses[a] = 0
           /\ \A c \in 1..MaxCalls : spent[c] = 0
           /\ calls = 0 /\ DOMAIN spent = 1..MaxCalls
<1>1. kind \in [Accounts -> Kinds] /\ 0 \in 0..MaxCalls /\ 0 \in 0..MaxFaults
  <2>1. kind \in Casts
    BY DEF Init
  <2>2. Casts \subseteq [Accounts -> Kinds]
    BY AccountsAssumption
  <2>3. MaxCalls \in Nat /\ MaxFaults \in Nat
    BY AccountsAssumption
  <2> QED
    BY <2>1, <2>2, <2>3
<1>2. DOMAIN doc = Accounts /\ \A a \in Accounts :
        \/ doc[a] = [Blank(a) EXCEPT !.known = FALSE]
        \/ Rider(a) /\ doc[a] = [BlankRider EXCEPT !.verified = TRUE]
        \/ Admin(a) /\ \E b \in BOOLEAN : doc[a] = [BlankAdmin EXCEPT !.super = b]
  <2>1. PICK hired \in SUBSET {a \in Accounts : Rider(a) \/ Admin(a)}, supers \in SUBSET Accounts :
          doc = [a \in Accounts |->
                    IF a \notin hired THEN [Blank(a) EXCEPT !.known = FALSE]
                    ELSE IF Rider(a) THEN [BlankRider EXCEPT !.verified = TRUE]
                    ELSE [BlankAdmin EXCEPT !.super = a \in supers]]
    BY DEF Init
  <2>2. DOMAIN doc = Accounts
    BY <2>1
  <2>3. ASSUME NEW a \in Accounts
        PROVE  \/ doc[a] = [Blank(a) EXCEPT !.known = FALSE]
               \/ Rider(a) /\ doc[a] = [BlankRider EXCEPT !.verified = TRUE]
               \/ Admin(a) /\ \E b \in BOOLEAN : doc[a] = [BlankAdmin EXCEPT !.super = b]
    <3>1. CASE a \notin hired
      BY <2>1, <3>1
    <3>2. CASE a \in hired /\ Rider(a)
      BY <2>1, <3>2
    <3>3. CASE a \in hired /\ ~Rider(a)
      <4>1. doc[a] = [BlankAdmin EXCEPT !.super = (a \in supers)]
        BY <2>1, <3>3
      <4>2. (a \in supers) \in BOOLEAN
        OBVIOUS
      <4>3. \E b \in BOOLEAN : doc[a] = [BlankAdmin EXCEPT !.super = b]
        BY <4>1, <4>2, Zenon
      <4> QED
        BY <3>3, <4>3
    <3> QED
      BY <3>1, <3>2, <3>3
  <2> QED
    BY <2>2, <2>3
<1>3. \A a \in Accounts : doc[a] \in Documents(kind[a])
  <2>1. ASSUME NEW a \in Accounts
        PROVE  doc[a] \in Documents(kind[a])
    <3>1. CASE Rider(a)
      <4>1. kind[a] = "rider" /\ ~Admin(a) /\ Blank(a) = BlankRider
        BY <3>1 DEF Rider, Admin, Blank
      <4>2. \/ doc[a] = [BlankRider EXCEPT !.known = FALSE]
            \/ doc[a] = [BlankRider EXCEPT !.verified = TRUE]
        BY <1>2, <4>1
      <4>3. /\ [BlankRider EXCEPT !.known = FALSE] \in Documents("rider")
            /\ [BlankRider EXCEPT !.verified = TRUE] \in Documents("rider")
        BY <1>1 DEF BlankRider, Documents
      <4> QED
        BY <4>1, <4>2, <4>3
    <3>2. CASE Admin(a)
      <4>1. kind[a] = "admin" /\ ~Rider(a) /\ Blank(a) = BlankAdmin
        BY <3>2 DEF Rider, Admin, Blank
      <4>2. \/ doc[a] = [BlankAdmin EXCEPT !.known = FALSE]
            \/ \E b \in BOOLEAN : doc[a] = [BlankAdmin EXCEPT !.super = b]
        BY <1>2, <4>1
      <4>3. /\ [BlankAdmin EXCEPT !.known = FALSE] \in Documents("admin")
            /\ \A b \in BOOLEAN : [BlankAdmin EXCEPT !.super = b] \in Documents("admin")
        BY <1>1 DEF BlankAdmin, Documents
      <4> QED
        BY <4>1, <4>2, <4>3
    <3>3. CASE ~Rider(a) /\ ~Admin(a)
      <4>1. kind[a] \notin {"rider", "admin"} /\ Blank(a) = BlankUser
        BY <3>3 DEF Rider, Admin, Blank
      <4>2. doc[a] = [BlankUser EXCEPT !.known = FALSE]
        BY <1>2, <3>3, <4>1
      <4>3. [BlankUser EXCEPT !.known = FALSE] \in Documents(kind[a])
        BY <1>1, <4>1 DEF BlankUser, Documents
      <4> QED
        BY <4>2, <4>3
    <3> QED
      BY <3>1, <3>2, <3>3
  <2> QED
    BY <2>1
<1>4. DOMAIN req = Requests /\ \A q \in Requests : req[q] = Idle
  BY DEF Init
<1>5. \A q \in Requests : ~Busy(q)
  BY <1>4 DEF Busy, Idle
<1>6. TypeOK
  <2>1. /\ live \in [Accounts -> 0..MaxCalls] /\ spent \in [1..MaxCalls -> Nat]
        /\ misses \in [Accounts -> Nat] /\ refused \subseteq 1..MaxCalls
        /\ unchecked \subseteq Devices \union {NoDevice} /\ demoted \in BOOLEAN
        /\ recalled \subseteq Accounts /\ calls \in 0..MaxCalls /\ faults \in 0..MaxFaults
    BY <1>1 DEF Init
  <2> QED
    BY <1>1, <1>2, <1>3, <1>4, <2>1 DEF TypeOK, Documents, Rider, Admin
<1>7. RequestInv /\ Overlaps
  BY <1>4, <1>5 DEF RequestInv, Overlaps
<1>8. TokensCounted
  <2>1. \A a \in Accounts : Creating(a) = {}
    BY <1>5 DEF Creating
  <2>2. calls = 0 /\ \A a \in Accounts : live[a] = 0
    BY DEF Init
  <2>3. Cardinality({}) = 0
    BY FS_EmptySet
  <2> QED
    BY <2>1, <2>2, <2>3 DEF TokensCounted
<1>9. Counted
  <2>1. ASSUME NEW a \in Accounts
        PROVE  (Admin(a) => doc[a].failed = 0) /\ (~Admin(a) => doc[a].code = 0)
    <3>1. CASE Rider(a)
      <4>1. ~Admin(a) /\ Blank(a) = BlankRider
        BY <3>1 DEF Rider, Admin, Blank
      <4> QED
        BY <1>2, <4>1 DEF BlankRider
    <3>2. CASE Admin(a)
      <4>1. ~Rider(a) /\ Blank(a) = BlankAdmin
        BY <3>2 DEF Rider, Admin, Blank
      <4> QED
        BY <1>2, <4>1, <3>2 DEF BlankAdmin
    <3>3. CASE ~Rider(a) /\ ~Admin(a)
      <4>1. Blank(a) = BlankUser
        BY <3>3 DEF Blank
      <4> QED
        BY <1>2, <3>3, <4>1 DEF BlankUser
    <3> QED
      BY <3>1, <3>2, <3>3
  <2>2. calls = 0
    BY DEF Init
  <2> QED
    BY <2>1, <2>2 DEF Counted
<1>10. /\ \A a \in Accounts : live[a] = 0 /\ misses[a] = 0
       /\ \A c \in 1..MaxCalls : spent[c] = 0
       /\ calls = 0 /\ DOMAIN spent = 1..MaxCalls
  BY DEF Init
<1>11. Base
  BY <1>6, <1>7, <1>8, <1>9 DEF Base
<1> QED
  BY <1>2, <1>5, <1>10, <1>11

(* The steps of the system. *)
LEMMA Steps ==
    ASSUME Base, Next
    PROVE  \/ \E q \in Requests, a \in Accounts : Opens(q, a)
           \/ \E q \in Requests : Step(q) \/ Fail(q)
           \/ \E a \in Accounts : TokensExpire(a) \/ CodesExpire(a) \/ LockEnds(a)
  BY AuthOpens, UserOpens, RiderAuthOpens, RiderWorkOpens, RiderManagementOpens, AdminAuthOpens
     DEF Next

LEMMA Stutters ==
    ASSUME Base, UNCHANGED vars
    PROVE  Base'
  BY DEF Base, TypeOK, RequestInv, Overlaps, TokensCounted, Counted, vars, history, Busy, Account,
         Nxt, Raced, Creating, Rider, Admin

(* The type invariant, and what else is always true of the requests. *)
THEOREM BaseHolds == Spec => []Base
<1>1. Init => Base
  BY InitBase
<1>2. Base /\ [Next]_vars => Base'
  BY Steps, OpensBase, StepBase, FailBase, TimeBase, Stutters
<1> QED
  BY <1>1, <1>2, PTL DEF Spec

-----------------------------------------------------------------------------
(* Who goes on, and who overlaps.                                          *)

(* A step of request q, or its end. *)
Moves(q) ==
    /\ Busy(q) /\ OnTo(q) /\ Account(q) \in Accounts
    /\ Fits(kind[Account(q)], req[q].groups, Nxt(q), calls, unchecked)
    /\ Nxt(q).op # "register" => doc[Account(q)].known
    /\ UNCHANGED <<kind, raced, calls, unchecked>>

LEMMA StepMoves ==
    ASSUME Base, NEW q \in Requests, Step(q) \/ Fail(q)
    PROVE  Moves(q)
<1>1. CASE Fail(q)
  BY <1>1, FailEffect, BusyOnes DEF Moves, Base, history
<1>2. CASE Step(q)
  <2>1. Took(q)
    BY <1>2, UpdateEffect, CreateEffect, SpendEffect, AddressEffect, MissEffect, ForgiveEffect,
       LookEffect, RevokeEffect, TokenEffect DEF Step
  <2> QED
    BY <2>1 DEF Moves, Took
<1> QED
  BY <1>1, <1>2

LEMMA Heads ==
    ASSUME NEW q \in Requests, Moves(q), NEW p \in Requests, Busy(p)'
    PROVE  /\ Busy(p) /\ Account(p)' = Account(p) /\ req'[p].groups = req[p].groups
           /\ p # q => Nxt(p)' = Nxt(p)
           /\ p = q => Leads(kind[Account(q)], Nxt(q), Nxt(q)', unchecked)
<1>1. Idle.todo = <<>>
  BY DEF Idle
<1> QED
  BY <1>1 DEF Moves, OnTo, Busy, Account, Nxt

LEMMA HeadsOpened ==
    ASSUME NEW q \in Requests, NEW a \in Accounts, Opens(q, a), NEW p \in Requests, Busy(p)'
    PROVE  /\ p # q => /\ Busy(p) /\ Account(p)' = Account(p) /\ Nxt(p)' = Nxt(p)
                       /\ req'[p].groups = req[p].groups
           /\ p = q => Account(q)' = a /\ Ready(a, Nxt(q)', unchecked')
<1>1. Idle.todo = <<>>
  BY DEF Idle
<1> QED
  BY <1>1 DEF Opens, Busy, Account, Nxt

LEMMA Both ==
    ASSUME Base, NEW p \in Requests, NEW q \in Requests, p # q, Busy(p), Busy(q),
           NEW g, g \in req[p].groups, g \in req[q].groups
    PROVE  /\ Account(p) = Account(q) => Raced(g, Account(p))
           /\ g \in Shared => Raced(g, Account(p)) \/ Raced(g, Account(q))
  BY DEF Base, Overlaps

LEMMA BusyFits ==
    ASSUME Base, NEW p \in Requests, Busy(p)
    PROVE  /\ Fits(kind[Account(p)], req[p].groups, Nxt(p), calls, unchecked)
           /\ Account(p) \in Accounts
           /\ Nxt(p).op # "register" => doc[Account(p)].known
  BY BusyOnes DEF Base

-----------------------------------------------------------------------------
(* One session. *)

LEMMA LiveOf ==
    ASSUME Base, NEW q \in Requests, Step(q) \/ Fail(q), NEW b \in Accounts
    PROVE  /\ live[b] \in Nat /\ live'[b] \in Nat
           /\ live'[b] <= live[b] \/ (Nxt(q).op = "create" /\ b = Account(q) /\ live'[b] = live[b] + 1)
           /\ Busy(q)' /\ Nxt(q).op \in {"find", "revokeAll"} => live'[Account(q)] = 0
<1>1. live \in [Accounts -> 0..MaxCalls] /\ MaxCalls \in Nat /\ live[b] <= live[b]
  BY AccountsAssumption DEF Base, TypeOK
<1>2. CASE DoUpdate(q) \/ DoCreate(q) \/ DoSpend(q) \/ DoAddress(q) \/ DoMiss(q) \/ DoForgive(q)
  <2>1. live' = live /\ Nxt(q).op \notin {"find", "revokeAll"}
    BY <1>2, UpdateEffect, CreateEffect, SpendEffect, AddressEffect, MissEffect, ForgiveEffect
  <2> QED
    BY <1>1, <2>1
<1>3. CASE DoFind(q) \/ DoCheck(q)
  <2>1. /\ live' = live /\ Nxt(q).op # "revokeAll"
        /\ Busy(q)' /\ Nxt(q).op = "find" => live[Account(q)] = 0
    BY <1>3, LookEffect
  <2> QED
    BY <1>1, <2>1
<1>4. CASE DoRevoke(q)
  BY <1>1, <1>4, RevokeEffect
<1>5. CASE DoCreateToken(q)
  <2>1. Nxt(q).op = "create" /\ live' = [live EXCEPT ![Account(q)] = @ + 1]
    BY <1>5, TokenEffect
  <2> QED
    BY <1>1, <2>1
<1>6. CASE Fail(q)
  <2>1. live' = live /\ ~Busy(q)'
    BY <1>6, FailEffect DEF Busy, Idle
  <2> QED
    BY <1>1, <2>1
<1> QED
  BY <1>2, <1>3, <1>4, <1>5, <1>6 DEF Step

(* Whoever is about to create a token has found or left none. *)
SessionInv ==
    \A a \in Accounts :
        \/ Raced("session", a)
        \/ /\ live[a] <= 1
           /\ \A p \in Requests : Busy(p) /\ Nxt(p).op = "create" /\ Account(p) = a => live[a] = 0

LEMMA SessionKept ==
    ASSUME Base, SessionInv, [Next]_vars
    PROVE  SessionInv'
<1>1. ASSUME NEW q \in Requests, NEW a \in Accounts, Opens(q, a)
      PROVE  SessionInv'
  <2>1. live' = live /\ raced \subseteq raced'
    BY <1>1 DEF Opens, Begins
  <2>2. ASSUME NEW p \in Requests, Busy(p)', Nxt(p)'.op = "create"
        PROVE  Busy(p) /\ Nxt(p).op = "create" /\ Account(p)' = Account(p)
    BY <1>1, <2>2, HeadsOpened DEF Ready
  <2> QED
    BY <2>1, <2>2 DEF SessionInv, Raced
<1>2. ASSUME NEW q \in Requests, Step(q) \/ Fail(q)
      PROVE  SessionInv'
  <2>1. Moves(q)
    BY <1>2, StepMoves
  <2>2. ASSUME NEW b \in Accounts, ~Raced("session", b)
        PROVE  /\ live'[b] <= 1
               /\ \A p \in Requests : Busy(p)' /\ Nxt(p)'.op = "create" /\ Account(p)' = b => live'[b] = 0
    <3>1. /\ live[b] \in Nat /\ live'[b] \in Nat
          /\ live'[b] <= live[b] \/ (Nxt(q).op = "create" /\ b = Account(q) /\ live'[b] = live[b] + 1)
          /\ Busy(q)' /\ Nxt(q).op \in {"find", "revokeAll"} => live'[Account(q)] = 0
      BY <1>2, LiveOf
    <3>2. /\ live[b] <= 1
          /\ \A p \in Requests : Busy(p) /\ Nxt(p).op = "create" /\ Account(p) = b => live[b] = 0
      BY <2>2 DEF SessionInv
    <3>3. live'[b] <= 1
      BY <2>1, <3>1, <3>2 DEF Moves
    <3>4. ASSUME NEW p \in Requests, Busy(p)', Nxt(p)'.op = "create", Account(p)' = b
          PROVE  live'[b] = 0
      <4>1. /\ Busy(p) /\ Account(p) = b
            /\ p # q => Nxt(p)' = Nxt(p)
            /\ p = q => Leads(kind[Account(q)], Nxt(q), Nxt(q)', unchecked)
        BY <2>1, <3>4, Heads
      <4>2. CASE p = q
        BY <3>1, <3>4, <4>1, <4>2 DEF Leads
      <4>3. CASE p # q
        <5>1. Nxt(p).op = "create" /\ "session" \in req[p].groups /\ live[b] = 0
          BY <3>2, <3>4, <4>1, <4>3, BusyFits DEF Fits
        <5>2. CASE Nxt(q).op = "create" /\ b = Account(q)
          <6>1. "session" \in req[q].groups
            BY <2>1, <5>2 DEF Moves, Fits
          <6> QED
            BY <2>1, <2>2, <4>1, <4>3, <5>1, <5>2, <6>1, Both DEF Moves
        <5>3. CASE live'[b] <= live[b]
          BY <3>1, <5>1, <5>3
        <5> QED
          BY <3>1, <5>2, <5>3
      <4> QED
        BY <4>2, <4>3
    <3> QED
      BY <3>3, <3>4
  <2>3. raced' = raced
    BY <2>1 DEF Moves
  <2> QED
    BY <2>2, <2>3 DEF SessionInv, Raced
<1>3. ASSUME NEW a \in Accounts, TokensExpire(a) \/ CodesExpire(a) \/ LockEnds(a)
      PROVE  SessionInv'
  <2>1. req' = req /\ raced' = raced
    BY <1>3 DEF TokensExpire, CodesExpire, LockEnds, Passes
  <2>2. live' = live \/ live' = [live EXCEPT ![a] = 0]
    BY <1>3 DEF TokensExpire, CodesExpire, LockEnds
  <2>3. live \in [Accounts -> 0..MaxCalls]
    BY DEF Base, TypeOK
  <2>4. \A b \in Accounts : live'[b] = live[b] \/ live'[b] = 0
    BY <2>2, <2>3
  <2>5. \A b \in Accounts : live'[b] <= 1 \/ live'[b] = live[b]
    BY <2>4
  <2> QED
    BY <2>1, <2>4, <2>5 DEF SessionInv, Raced, Busy, Nxt, Account
<1>4. CASE UNCHANGED vars
  BY <1>4 DEF SessionInv, Raced, Busy, Nxt, Account, vars
<1> QED
  BY <1>1, <1>2, <1>3, <1>4, Steps

(* An account has one refresh token at a time, unless two requests that    *)
(* create one overlap: the three generateRefreshToken.                     *)
THEOREM OneSessionHolds == Spec => []OneSession
<1>1. Init => SessionInv
  <2>1. Init => (\A q \in Requests : ~Busy(q)) /\ \A a \in Accounts : live[a] = 0
    BY InitBase
  <2> QED
    BY <2>1 DEF SessionInv
<1>2. Base /\ SessionInv /\ [Next]_vars => SessionInv'
  BY SessionKept
<1>3. SessionInv => OneSession
  BY DEF SessionInv, OneSession
<1> QED
  BY <1>1, <1>2, <1>3, BaseHolds, PTL DEF Spec

-----------------------------------------------------------------------------
(* Which step changes which field.                                         *)

Registered == {"mail", "confirmed", "verified", "super"}

LEMMA FieldOf ==
    ASSUME Base, NEW q \in Requests, Step(q) \/ Fail(q), NEW b \in Accounts,
           NEW x \in DOMAIN Schema(kind[b])
    PROVE  \/ doc'[b][x] = doc[b][x]
           \/ /\ b = Account(q)
              /\ \/ Gives(Nxt(q), x) /\ doc'[b][x] = Nxt(q).to[x]
                 \/ /\ Nxt(q).op = "register" /\ ~doc[b].known
                    /\ x \in DOMAIN Blank(b) /\ (x \notin Registered => doc'[b][x] = Blank(b)[x])
                 \/ Nxt(q).op = "spend" /\ x = "code" /\ doc'[b][x] = 0
                 \/ /\ Nxt(q).op \in {"addAddress", "dropAddress"} /\ x = "addresses"
                    /\ doc'[b][x] = Saved(q, doc[b].addresses)
                 \/ Nxt(q).op \in {"miss", "forgive"} /\ x \in {"failed", "locked"}
<1>1. ASSUME NEW f, Sets(Account(q), f), b = Account(q)
      PROVE  doc'[b][x] = IF x \in DOMAIN f THEN f[x] ELSE doc[b][x]
  BY <1>1 DEF Sets
<1>2. ASSUME NEW f, Sets(Account(q), f), b # Account(q)
      PROVE  doc'[b][x] = doc[b][x]
  BY <1>2 DEF Sets
<1>3. CASE DoUpdate(q)
  <2>1. Nxt(q).op = "update" /\ Sets(Account(q), Nxt(q).to)
    BY <1>3, UpdateEffect
  <2> QED
    BY <1>1, <1>2, <2>1 DEF Gives
<1>4. CASE DoCreate(q)
  <2> DEFINE f == Merged(Blank(Account(q)), Nxt(q).to)
  <2>1. /\ Nxt(q).op = "register" /\ DOMAIN Nxt(q).to \subseteq Registered
        /\ doc' = doc \/ (~doc[Account(q)].known /\ Sets(Account(q), f))
    BY <1>4, CreateEffect DEF Registered
  <2>2. /\ DOMAIN f = DOMAIN Blank(Account(q))
        /\ \A y \in DOMAIN Blank(Account(q)) :
              f[y] = IF y \in DOMAIN Nxt(q).to THEN Nxt(q).to[y] ELSE Blank(Account(q))[y]
    BY MergedFields
  <2> HIDE DEF f
  <2>3. CASE doc' = doc
    BY <2>3
  <2>4. CASE Sets(Account(q), f) /\ b = Account(q) /\ ~doc[b].known /\ x \in DOMAIN f
    BY <1>1, <2>1, <2>2, <2>4
  <2>5. CASE Sets(Account(q), f) /\ b = Account(q) /\ x \notin DOMAIN f
    BY <1>1, <2>5
  <2>6. CASE Sets(Account(q), f) /\ b # Account(q)
    BY <1>2, <2>6
  <2> QED
    BY <2>1, <2>3, <2>4, <2>5, <2>6
<1>5. CASE DoSpend(q)
  <2>1. Nxt(q).op = "spend" /\ Sets(Account(q), [code |-> 0])
    BY <1>5, SpendEffect
  <2>2. PICK f : f = [code |-> 0] /\ DOMAIN f = {"code"} /\ f["code"] = 0
    BY Fields
  <2> QED
    BY <1>1, <1>2, <2>1, <2>2
<1>6. CASE DoAddress(q)
  <2>1. /\ Nxt(q).op \in {"addAddress", "dropAddress"}
        /\ Sets(Account(q), [addresses |-> Saved(q, doc[Account(q)].addresses)])
    BY <1>6, AddressEffect
  <2>2. PICK A : A = Saved(q, doc[Account(q)].addresses)
    OBVIOUS
  <2>3. PICK f : f = [addresses |-> A] /\ DOMAIN f = {"addresses"} /\ f["addresses"] = A
    BY Fields
  <2> QED
    BY <1>1, <1>2, <2>1, <2>2, <2>3
<1>7. CASE DoMiss(q) \/ DoForgive(q)
  <2>1. /\ Nxt(q).op \in {"miss", "forgive"}
        /\ \E n, l : Sets(Account(q), Marked(n, l))
    BY <1>7, MissEffect, ForgiveEffect
  <2>2. PICK f : Sets(Account(q), f) /\ DOMAIN f = {"failed", "locked"}
    BY <2>1, Fields
  <2> QED
    BY <1>1, <1>2, <2>1, <2>2
<1>8. CASE DoFind(q) \/ DoCheck(q) \/ DoRevoke(q) \/ DoCreateToken(q) \/ Fail(q)
  <2>1. doc' = doc
    BY <1>8, LookEffect, RevokeEffect, TokenEffect, FailEffect
  <2> QED
    BY <2>1
<1> QED
  BY <1>3, <1>4, <1>5, <1>6, <1>7, <1>8 DEF Step

LEMMA LooksOf ==
    ASSUME Base, NEW q \in Requests, Step(q) \/ Fail(q), Busy(q)'
    PROVE  /\ Nxt(q).op \in {"device", "supers", "carrying"} => doc' = doc
           /\ Nxt(q).op = "device" =>
                 \A b \in Accounts \ {Account(q)} : Rider(b) => doc[b].device # Nxt(q).device
           /\ Nxt(q).op = "supers" => Cardinality(Supers) > 1
           /\ Nxt(q).op = "carrying" => ~doc[Account(q)].carrying
<1>1. ~Fail(q)
  BY FailEffect DEF Busy, Idle
<1>2. CASE DoFind(q) \/ DoCheck(q)
  <2>1. doc' = doc
    BY <1>2, LookEffect
  <2>2. Nxt(q).op = "device" =>
          \A b \in Accounts \ {Account(q)} : Rider(b) => doc[b].device # Nxt(q).device
    BY <1>2, LookEffect
  <2>3. /\ Nxt(q).op = "supers" => Cardinality(Supers) > 1
        /\ Nxt(q).op = "carrying" => ~doc[Account(q)].carrying
    BY <1>2, LookEffect
  <2> QED
    BY <2>1, <2>2, <2>3
<1>3. ASSUME ~(DoFind(q) \/ DoCheck(q))
      PROVE  Nxt(q).op \notin {"device", "supers", "carrying"}
  BY <1>1, <1>3, UpdateEffect, CreateEffect, SpendEffect, AddressEffect, MissEffect, ForgiveEffect,
     RevokeEffect, TokenEffect DEF Step
<1> QED
  BY <1>2, <1>3

-----------------------------------------------------------------------------
(* One rider for each device. *)

(* Nobody but the rider at a has device v, or two bindings have raced. *)
Free(v, a) ==
    \A b \in Accounts \ {a} :
        Rider(b) => doc[b].device # v \/ Raced("device", b) \/ Raced("device", a)

MayBind(p) ==
    Busy(p) /\ Gives(Nxt(p), "device") =>
        Looked(Nxt(p).to.device, unchecked) \/ Free(Nxt(p).to.device, Account(p))

DeviceInv == DeviceBoundOnce /\ \A p \in Requests : MayBind(p)

LEMMA DeviceOf ==
    ASSUME Base, NEW q \in Requests, Step(q) \/ Fail(q), NEW b \in Accounts, Rider(b)
    PROVE  \/ doc'[b].device = doc[b].device
           \/ doc'[b].device = NoDevice
           \/ /\ b = Account(q) /\ Gives(Nxt(q), "device")
              /\ doc'[b].device = Nxt(q).to.device
<1>1. kind[b] = "rider" /\ "device" \in DOMAIN Schema(kind[b])
  BY SchemaFields DEF Rider
<1>2. Blank(b).device = NoDevice
  BY BlankHolds DEF Base
<1>3. PICK x : x = "device"
  OBVIOUS
<1>4. \/ doc'[b][x] = doc[b][x]
      \/ /\ b = Account(q)
         /\ \/ Gives(Nxt(q), x) /\ doc'[b][x] = Nxt(q).to[x]
            \/ doc'[b][x] = Blank(b)[x]
  BY <1>1, <1>3, FieldOf DEF Registered
<1> QED
  BY <1>2, <1>3, <1>4

LEMMA DeviceKept ==
    ASSUME Base, DeviceInv, [Next]_vars
    PROVE  DeviceInv'
<1>1. ASSUME NEW q \in Requests, NEW a \in Accounts, Opens(q, a)
      PROVE  DeviceInv'
  <2>1. /\ doc' = doc /\ kind' = kind /\ raced \subseteq raced' /\ unchecked \subseteq unchecked'
    BY <1>1 DEF Opens, Begins
  <2>2. DeviceBoundOnce'
    BY <2>1 DEF DeviceInv, DeviceBoundOnce, Rider, Raced
  <2>3. \A v : Looked(v, unchecked) => Looked(v, unchecked')
    BY <2>1 DEF Looked
  <2>4. ASSUME NEW p \in Requests, Busy(p)', Gives(Nxt(p)', "device")
        PROVE  MayBind(p)'
    <3>1. CASE p = q
      <4>1. Ready(a, Nxt(q)', unchecked')
        BY <1>1, <2>4, <3>1, HeadsOpened
      <4>2. Looked(Nxt(p)'.to.device, unchecked')
        BY <2>4, <3>1, <4>1 DEF Ready
      <4> QED
        BY <4>2 DEF MayBind
    <3>2. CASE p # q
      <4>1. Busy(p) /\ Account(p)' = Account(p) /\ Nxt(p)' = Nxt(p)
        BY <1>1, <2>4, <3>2, HeadsOpened
      <4>2. Looked(Nxt(p).to.device, unchecked) \/ Free(Nxt(p).to.device, Account(p))
        BY <2>4, <4>1 DEF DeviceInv, MayBind
      <4> QED
        BY <2>1, <2>3, <4>1, <4>2 DEF MayBind, Free, Rider, Raced
    <3> QED
      BY <3>1, <3>2
  <2>5. \A p \in Requests : MayBind(p)'
    BY <2>4 DEF MayBind
  <2> QED
    BY <2>2, <2>5 DEF DeviceInv
<1>2. ASSUME NEW q \in Requests, Step(q) \/ Fail(q)
      PROVE  DeviceInv'
  <2>1. Moves(q) /\ kind' = kind /\ raced' = raced /\ unchecked' = unchecked
    BY <1>2, StepMoves DEF Moves
  <2>2. ASSUME NEW b \in Accounts, NEW c \in Accounts, b # c, Rider(b), Rider(c),
               doc'[b].device = doc'[c].device, ~Looked(doc'[b].device, unchecked),
               doc'[c].device = doc[c].device
        PROVE  Raced("device", b) \/ Raced("device", c)
    <3>1. \/ doc'[b].device = doc[b].device
          \/ b = Account(q) /\ Gives(Nxt(q), "device") /\ doc'[b].device = Nxt(q).to.device
      BY <1>2, <2>2, DeviceOf DEF Looked
    <3>2. CASE doc'[b].device = doc[b].device
      BY <2>2, <3>2 DEF DeviceInv, DeviceBoundOnce, Looked
    <3>3. CASE b = Account(q) /\ Gives(Nxt(q), "device") /\ doc'[b].device = Nxt(q).to.device
      <4>1. Free(Nxt(q).to.device, b)
        BY <2>1, <2>2, <3>3 DEF DeviceInv, MayBind, Moves
      <4> QED
        BY <2>2, <3>3, <4>1 DEF Free
    <3> QED
      BY <3>1, <3>2, <3>3
  <2>3. DeviceBoundOnce'
    <3>1. ASSUME NEW b \in Accounts, NEW c \in Accounts, b # c, Rider(b), Rider(c),
                 doc'[b].device = doc'[c].device, ~Looked(doc'[b].device, unchecked)
          PROVE  Raced("device", b) \/ Raced("device", c)
      <4>1. CASE c # Account(q)
        BY <1>2, <2>2, <3>1, <4>1, DeviceOf DEF Looked
      <4>2. CASE b # Account(q)
        BY <1>2, <2>2, <3>1, <4>2, DeviceOf DEF Looked
      <4> QED
        BY <3>1, <4>1, <4>2
    <3> QED
      BY <2>1, <3>1 DEF DeviceBoundOnce, Rider, Raced, Looked
  <2>4. ASSUME NEW p \in Requests, Busy(p)', Gives(Nxt(p)', "device"),
               ~Looked(Nxt(p)'.to.device, unchecked)
        PROVE  MayBind(p)'
    <3>1. /\ Busy(p) /\ Account(p)' = Account(p) /\ req'[p].groups = req[p].groups
          /\ p # q => Nxt(p)' = Nxt(p)
          /\ p = q => Leads(kind[Account(q)], Nxt(q), Nxt(q)', unchecked)
      BY <2>1, <2>4, Heads
    <3>2. PICK v : v = Nxt(p)'.to.device
      OBVIOUS
    <3>5. ASSUME Free(v, Account(p))'
          PROVE  MayBind(p)'
      BY <3>2, <3>5 DEF MayBind
    <3>3. CASE p = q
      <4>1. Nxt(q).op = "device" /\ Nxt(q).device = v
        BY <2>4, <3>1, <3>2, <3>3 DEF Leads
      <4>2. doc' = doc /\ \A b \in Accounts \ {Account(q)} : Rider(b) => doc[b].device # v
        BY <1>2, <2>4, <3>3, <4>1, LooksOf
      <4> QED
        BY <2>1, <3>1, <3>3, <3>5, <4>2 DEF Free, Rider
    <3>4. CASE p # q
      <4>1. /\ Gives(Nxt(p), "device") /\ v = Nxt(p).to.device /\ ~Looked(v, unchecked)
            /\ Free(v, Account(p))
        BY <2>4, <3>1, <3>2, <3>4 DEF DeviceInv, MayBind
      <4>2. "device" \in req[p].groups
        BY <3>1, <4>1, BusyFits DEF Fits
      <4>3. ASSUME NEW b \in Accounts \ {Account(p)}, Rider(b), doc'[b].device = v
            PROVE  Raced("device", b) \/ Raced("device", Account(p))
        <5>1. \/ doc'[b].device = doc[b].device
              \/ b = Account(q) /\ Gives(Nxt(q), "device") /\ Nxt(q).to.device = v
          BY <1>2, <4>1, <4>3, DeviceOf DEF Looked
        <5>2. CASE doc'[b].device = doc[b].device
          BY <4>1, <4>3, <5>2 DEF Free
        <5>3. CASE b = Account(q) /\ Gives(Nxt(q), "device") /\ Nxt(q).to.device = v
          <6>1. "device" \in req[q].groups
            BY <2>1, <4>1, <5>3 DEF Moves, Fits
          <6>2. "device" \in Shared
            BY DEF Shared
          <6> QED
            BY <2>1, <3>1, <3>4, <4>2, <5>3, <6>1, <6>2, Both DEF Moves
        <5> QED
          BY <5>1, <5>2, <5>3
      <4> QED
        BY <2>1, <3>1, <3>5, <4>3 DEF Free, Rider, Raced
    <3> QED
      BY <3>3, <3>4
  <2>5. \A p \in Requests : MayBind(p)'
    BY <2>1, <2>4 DEF MayBind
  <2> QED
    BY <2>3, <2>5 DEF DeviceInv
<1>3. ASSUME NEW a \in Accounts, TokensExpire(a) \/ CodesExpire(a) \/ LockEnds(a)
      PROVE  DeviceInv'
  <2>1. UNCHANGED <<req, raced, kind, unchecked>>
    BY <1>3 DEF TokensExpire, CodesExpire, LockEnds, Passes, history
  <2>2. \A b \in Accounts : Rider(b) => doc'[b].device = doc[b].device
    <3>1. ASSUME NEW f, Sets(a, f), "device" \notin DOMAIN f, NEW b \in Accounts, Rider(b)
          PROVE  doc'[b].device = doc[b].device
      <4>1. "device" \in DOMAIN Schema(kind[b])
        BY <3>1, SchemaFields DEF Rider
      <4> QED
        BY <3>1, <4>1 DEF Sets
    <3>2. CASE TokensExpire(a)
      BY <3>2 DEF TokensExpire
    <3>3. CASE CodesExpire(a)
      BY <3>1, <3>3, CodesExpireEffect, Fields
    <3>4. CASE LockEnds(a)
      <4>1. Sets(a, Marked(doc[a].failed, FALSE))
        BY <3>4, LockEndsEffect
      <4>2. PICK f : Sets(a, f) /\ DOMAIN f = {"failed", "locked"}
        BY <4>1 DEF Marked
      <4> QED
        BY <3>1, <4>2
    <3> QED
      BY <1>3, <3>2, <3>3, <3>4
  <2> QED
    BY <2>1, <2>2 DEF DeviceInv, DeviceBoundOnce, MayBind, Free, Rider, Raced, Busy, Nxt, Account
<1>4. CASE UNCHANGED vars
  BY <1>4 DEF DeviceInv, DeviceBoundOnce, MayBind, Free, Rider, Raced, Busy, Nxt, Account, vars, history
<1> QED
  BY <1>1, <1>2, <1>3, <1>4, Steps

LEMMA InitFields ==
    ASSUME Init, NEW a \in Accounts
    PROVE  /\ Rider(a) => /\ doc[a].device = NoDevice /\ doc[a].suspended = FALSE
                          /\ doc[a].online = FALSE /\ doc[a].carrying = FALSE
           /\ Admin(a) => /\ doc[a].failed = 0 /\ doc[a].locked = FALSE /\ doc[a].active = TRUE
                          /\ ~doc[a].known => doc[a].super = FALSE
           /\ ~Admin(a) => doc[a].code = 0
           /\ Customer(a) => doc[a].addresses = {}
<1>1. \/ doc[a] = [Blank(a) EXCEPT !.known = FALSE]
      \/ Rider(a) /\ doc[a] = [BlankRider EXCEPT !.verified = TRUE]
      \/ Admin(a) /\ \E b \in BOOLEAN : doc[a] = [BlankAdmin EXCEPT !.super = b]
  BY InitBase
<1>2. Rider(a) => ~Admin(a) /\ ~Customer(a)
  BY DEF Rider, Admin, Customer
<1>3. Admin(a) => ~Customer(a)
  BY DEF Admin, Customer
<1>4. CASE Rider(a)
  <2>1. doc[a] = [BlankRider EXCEPT !.known = FALSE] \/ doc[a] = [BlankRider EXCEPT !.verified = TRUE]
    BY <1>1, <1>2, <1>4 DEF Blank
  <2> QED
    BY <1>2, <1>4, <2>1 DEF BlankRider
<1>5. CASE Admin(a)
  <2>1. doc[a] = [BlankAdmin EXCEPT !.known = FALSE]
        \/ \E b \in BOOLEAN : doc[a] = [BlankAdmin EXCEPT !.super = b]
    BY <1>1, <1>2, <1>5 DEF Blank
  <2> QED
    BY <1>2, <1>3, <1>5, <2>1 DEF BlankAdmin
<1>6. CASE ~Rider(a) /\ ~Admin(a)
  <2>1. doc[a] = [BlankUser EXCEPT !.known = FALSE]
    BY <1>1, <1>6 DEF Blank
  <2> QED
    BY <1>6, <2>1 DEF BlankUser
<1> QED
  BY <1>4, <1>5, <1>6

(* A device belongs to one rider, unless it was bound without a look at    *)
(* the others or two bindings overlap: bindDevice.                         *)
THEOREM DeviceBelongsToOne == Spec => []DeviceBoundOnce
<1>1. Init => DeviceInv
  <2>1. ASSUME Init
        PROVE  (\A p \in Requests : ~Busy(p)) /\ \A a \in Accounts : Rider(a) => doc[a].device = NoDevice
    BY <2>1, InitBase, InitFields
  <2> QED
    BY <2>1 DEF DeviceInv, DeviceBoundOnce, MayBind
<1>2. Base /\ DeviceInv /\ [Next]_vars => DeviceInv'
  BY DeviceKept
<1>3. DeviceInv => DeviceBoundOnce
  BY DEF DeviceInv
<1> QED
  BY <1>1, <1>2, <1>3, BaseHolds, PTL DEF Spec

-----------------------------------------------------------------------------
(* What time does to a field, and what registration does.                  *)

LEMMA TimeOf ==
    ASSUME Base, NEW a \in Accounts, TokensExpire(a) \/ CodesExpire(a) \/ LockEnds(a)
    PROVE  /\ UNCHANGED <<kind, req, raced, calls, spent, unchecked, demoted, recalled>>
           /\ \A b \in Accounts : \A x \in DOMAIN Schema(kind[b]) :
                 \/ doc'[b][x] = doc[b][x]
                 \/ x \in {"code", "mail"} /\ doc'[b][x] = 0
                 \/ x = "locked" /\ LockEnds(a)
<1>1. UNCHANGED <<kind, req, raced, calls, spent, unchecked, demoted, recalled>>
  <2>1. CASE TokensExpire(a)
    BY <2>1 DEF TokensExpire, Passes, history
  <2>2. CASE CodesExpire(a)
    BY <2>2 DEF CodesExpire, Passes, history
  <2>3. CASE LockEnds(a)
    BY <2>3 DEF LockEnds, Passes, history
  <2> QED
    BY <2>1, <2>2, <2>3
<1>2. CASE TokensExpire(a)
  BY <1>1, <1>2 DEF TokensExpire
<1>3. CASE CodesExpire(a)
  <2>1. Sets(a, [code |-> 0, mail |-> 0])
    BY <1>3, CodesExpireEffect
  <2>2. PICK f : f = [code |-> 0, mail |-> 0]
    OBVIOUS
  <2>3. DOMAIN f = {"code", "mail"} /\ f["code"] = 0 /\ f["mail"] = 0
    BY <2>2
  <2>4. ASSUME NEW b \in Accounts, NEW x \in DOMAIN Schema(kind[b])
        PROVE  doc'[b][x] = doc[b][x] \/ (x \in {"code", "mail"} /\ doc'[b][x] = 0)
    BY <2>1, <2>2, <2>3 DEF Sets
  <2> QED
    BY <1>1, <2>4
<1>4. CASE LockEnds(a)
  <2>1. PICK n : n = doc[a].failed
    OBVIOUS
  <2>2. PICK f : f = Marked(n, FALSE)
    OBVIOUS
  <2>3. Sets(a, f)
    BY <1>4, <2>1, <2>2, LockEndsEffect
  <2>4. DOMAIN f = {"failed", "locked"} /\ f["failed"] = n
    BY <2>2 DEF Marked
  <2>5. ASSUME NEW b \in Accounts, NEW x \in DOMAIN Schema(kind[b])
        PROVE  doc'[b][x] = doc[b][x] \/ x = "locked"
    BY <2>1, <2>3, <2>4 DEF Sets
  <2> QED
    BY <1>1, <1>4, <2>5
<1> QED
  BY <1>2, <1>3, <1>4

(* An account that is still unknown has not been touched. *)
LEMMA UnknownOf ==
    ASSUME Base, NEW q \in Requests, Step(q) \/ Fail(q), NEW b \in Accounts, ~doc'[b].known
    PROVE  ~doc[b].known /\ \A x \in DOMAIN Schema(kind[b]) : doc'[b][x] = doc[b][x]
<1>1. Moves(q)
  BY StepMoves
<1>2. "known" \in DOMAIN Schema(kind[b])
  BY SchemaFields
<1>3. CASE DoCreate(q) /\ b = Account(q)
  <2> DEFINE f == Merged(Blank(b), Nxt(q).to)
  <2>1. /\ DOMAIN Nxt(q).to \subseteq {"mail", "confirmed", "verified", "super"}
        /\ (doc[b].known /\ doc' = doc) \/ Sets(b, f)
    BY <1>3, CreateEffect
  <2>2. /\ DOMAIN f = DOMAIN Blank(b)
        /\ \A y \in DOMAIN Blank(b) :
              f[y] = IF y \in DOMAIN Nxt(q).to THEN Nxt(q).to[y] ELSE Blank(b)[y]
    BY MergedFields
  <2>3. Blank(b).known = TRUE /\ DOMAIN Blank(b) = DOMAIN Schema(kind[b])
    BY BlankHolds DEF Base, Holds
  <2>4. f["known"] = TRUE /\ "known" \in DOMAIN f
    BY <1>2, <2>1, <2>2, <2>3
  <2> HIDE DEF f
  <2>5. CASE Sets(b, f)
    BY <1>2, <2>4, <2>5 DEF Sets
  <2>6. CASE doc[b].known /\ doc' = doc
    BY <2>6
  <2> QED
    BY <2>1, <2>5, <2>6
<1>4. CASE ~DoCreate(q) /\ b = Account(q)
  <2>1. Nxt(q).op # "register" \/ Fail(q)
    BY <1>4, UpdateEffect, SpendEffect, AddressEffect, MissEffect, ForgiveEffect,
       LookEffect, RevokeEffect, TokenEffect DEF Step
  <2>2. CASE Fail(q)
    BY <2>2, FailEffect
  <2>3. CASE Nxt(q).op # "register"
    <3>1. doc[b].known
      BY <1>1, <1>4, <2>3 DEF Moves
    <3>2. ~Gives(Nxt(q), "known")
      BY <1>1 DEF Moves, Fits, Gives, Change
    <3>3. PICK x : x = "known"
      OBVIOUS
    <3>4. doc'[b][x] = doc[b][x]
      BY <1>2, <2>3, <3>2, <3>3, FieldOf
    <3> QED
      BY <3>1, <3>3, <3>4
  <2> QED
    BY <2>1, <2>2, <2>3
<1>5. CASE b # Account(q)
  <2>1. \A x \in DOMAIN Schema(kind[b]) : doc'[b][x] = doc[b][x]
    BY <1>5, FieldOf
  <2> QED
    BY <1>2, <2>1
<1> QED
  BY <1>3, <1>4, <1>5

-----------------------------------------------------------------------------
(* Some super admin.                                                       *)

(* Nothing is promised any more. *)
Eased == demoted \/ \E a \in Accounts : Raced("super", a)

Acts(a) == Admin(a) /\ doc[a].super /\ doc[a].active

(* Whoever is about to be deactivated is no super admin or not the only one. *)
MayEnd(p) ==
    Busy(p) /\ Admin(Account(p)) /\ Gives(Nxt(p), "active") =>
        \/ Nxt(p).to.active
        \/ ~doc[Account(p)].super
        \/ \E b \in Accounts \ {Account(p)} : Acts(b)

SuperInv ==
    /\ \A a \in Accounts : Admin(a) /\ ~doc[a].known => ~doc[a].super
    /\ \/ Eased
       \/ /\ (\A a \in Accounts : ~Admin(a)) \/ (\E a \in Accounts : Acts(a))
          /\ \A p \in Requests : MayEnd(p)

LEMMA SuperOf ==
    ASSUME Base, NEW q \in Requests, Step(q) \/ Fail(q)
    PROVE  /\ demoted => demoted'
           /\ \A b \in Accounts : Admin(b) =>
                 /\ \/ doc'[b].super = doc[b].super
                    \/ b = Account(q) /\ Gives(Nxt(q), "super") /\ (doc[b].super /\ ~doc'[b].super => demoted')
                    \/ b = Account(q) /\ Nxt(q).op = "register" /\ ~doc[b].known
                 /\ \/ doc'[b].active = doc[b].active
                    \/ b = Account(q) /\ Gives(Nxt(q), "active") /\ doc'[b].active = Nxt(q).to.active
                    \/ b = Account(q) /\ Nxt(q).op = "register" /\ doc'[b].active = TRUE
<1>1. demoted => demoted'
  BY UpdateEffect, CreateEffect, SpendEffect, AddressEffect, MissEffect, ForgiveEffect, LookEffect,
     RevokeEffect, TokenEffect, FailEffect DEF Step, DoUpdate, history
<1>2. ASSUME NEW b \in Accounts, Admin(b)
      PROVE  /\ \/ doc'[b].super = doc[b].super
                \/ b = Account(q) /\ Gives(Nxt(q), "super") /\ (doc[b].super /\ ~doc'[b].super => demoted')
                \/ b = Account(q) /\ Nxt(q).op = "register" /\ ~doc[b].known
             /\ \/ doc'[b].active = doc[b].active
                \/ b = Account(q) /\ Gives(Nxt(q), "active") /\ doc'[b].active = Nxt(q).to.active
                \/ b = Account(q) /\ Nxt(q).op = "register" /\ doc'[b].active = TRUE
  <2>1. {"super", "active"} \subseteq DOMAIN Schema(kind[b])
    BY <1>2, SchemaFields DEF Admin
  <2>2. Blank(b).active = TRUE
    BY <1>2, BlankHolds DEF Base
  <2>3. PICK x : x = "super"
    OBVIOUS
  <2>4. \/ doc'[b][x] = doc[b][x]
        \/ b = Account(q) /\ Gives(Nxt(q), x)
        \/ b = Account(q) /\ Nxt(q).op = "register" /\ ~doc[b].known
    BY <2>1, <2>3, FieldOf
  <2>5. PICK y : y = "active"
    OBVIOUS
  <2>6. \/ doc'[b][y] = doc[b][y]
        \/ b = Account(q) /\ Gives(Nxt(q), y) /\ doc'[b][y] = Nxt(q).to[y]
        \/ b = Account(q) /\ Nxt(q).op = "register" /\ doc'[b][y] = Blank(b)[y]
    BY <2>1, <2>5, FieldOf DEF Registered
  <2>7. ASSUME b = Account(q), Gives(Nxt(q), "super"), doc[b].super, ~doc'[b].super,
               doc'[b].super # doc[b].super
        PROVE  demoted'
    <3>1. Nxt(q).op = "update"
      BY <2>7 DEF Gives
    <3>2. DoUpdate(q)
      BY <2>7, <3>1, CreateEffect, SpendEffect, AddressEffect, MissEffect, ForgiveEffect, LookEffect,
         RevokeEffect, TokenEffect, FailEffect DEF Step
    <3> QED
      BY <1>2, <2>7, <3>2 DEF DoUpdate, Account
  <2> QED
    BY <2>2, <2>3, <2>4, <2>5, <2>6, <2>7
<1> QED
  BY <1>1, <1>2

LEMMA SuperKept ==
    ASSUME Base, SuperInv, [Next]_vars
    PROVE  SuperInv'
<1>1. ASSUME NEW q \in Requests, NEW a \in Accounts, Opens(q, a)
      PROVE  SuperInv'
  <2>1. doc' = doc /\ kind' = kind /\ demoted' = demoted /\ raced \subseteq raced'
    BY <1>1 DEF Opens, Begins
  <2>2. ASSUME NEW p \in Requests, MayEnd(p)
        PROVE  MayEnd(p)'
    <3>1. ASSUME Busy(p)', Admin(Account(p)'), Gives(Nxt(p)', "active"), p = q
          PROVE  Nxt(p)'.to.active \/ ~doc[Account(p)'].super
      BY <1>1, <3>1, HeadsOpened DEF Ready, Admin
    <3>2. ASSUME Busy(p)', p # q
          PROVE  Busy(p) /\ Account(p)' = Account(p) /\ Nxt(p)' = Nxt(p)
      BY <1>1, <3>2, HeadsOpened
    <3> QED
      BY <2>1, <2>2, <3>1, <3>2 DEF MayEnd, Admin, Acts
  <2> QED
    BY <2>1, <2>2 DEF SuperInv, Eased, Raced, Admin, Acts
<1>2. ASSUME NEW q \in Requests, Step(q) \/ Fail(q)
      PROVE  SuperInv'
  <2>1. Moves(q) /\ kind' = kind /\ raced' = raced
    BY <1>2, StepMoves DEF Moves
  <2>2. \A b \in Accounts : Admin(b)' <=> Admin(b)
    BY <2>1 DEF Admin
  <2>3. ASSUME NEW b \in Accounts, Admin(b), ~doc'[b].known
        PROVE  ~doc'[b].super
    <3>1. PICK x : x = "super"
      OBVIOUS
    <3>2. ~doc[b].known /\ doc'[b][x] = doc[b][x]
      BY <1>2, <2>3, <3>1, UnknownOf, SchemaFields DEF Admin
    <3> QED
      BY <2>3, <3>1, <3>2 DEF SuperInv
  <2>4. CASE Eased
    BY <1>2, <2>1, <2>2, <2>3, <2>4, SuperOf DEF SuperInv, Eased, Raced
  <2>5. CASE ~Eased /\ ~demoted'
    <3>1. /\ (\A a \in Accounts : ~Admin(a)) \/ (\E a \in Accounts : Acts(a))
          /\ \A p \in Requests : MayEnd(p)
      BY <2>5 DEF SuperInv
    <3>2. \A b \in Accounts : Acts(b) /\ b # Account(q) => Acts(b)'
      BY <1>2, <2>2, SuperOf DEF Acts
    <3>3. ASSUME NEW b \in Accounts, Acts(b), ~Acts(b)'
          PROVE  \E c \in Accounts : Acts(c)'
      <4>1. Admin(b) /\ doc[b].super /\ doc[b].active
        BY <3>3 DEF Acts
      <4>2. b = Account(q)
        BY <3>2, <3>3
      <4>3. doc'[b].super
        BY <1>2, <2>3, <2>5, <3>3, <4>1, SuperOf DEF SuperInv
      <4>4. Gives(Nxt(q), "active") /\ ~Nxt(q).to.active
        BY <1>2, <2>2, <3>3, <4>1, <4>3, SuperOf DEF Acts
      <4>5. \E c \in Accounts \ {b} : Acts(c)
        BY <2>1, <3>1, <4>1, <4>2, <4>4 DEF MayEnd, Moves
      <4> QED
        BY <3>2, <4>2, <4>5
    <3>4. (\A a \in Accounts : ~Admin(a)') \/ (\E a \in Accounts : Acts(a)')
      BY <2>2, <3>1, <3>3
    <3>5. ASSUME NEW p \in Requests, Busy(p)', Admin(Account(p))', Gives(Nxt(p)', "active")
          PROVE  MayEnd(p)'
      <4>1. /\ Busy(p) /\ Account(p)' = Account(p) /\ Account(p) \in Accounts /\ Admin(Account(p))
            /\ p # q => Nxt(p)' = Nxt(p)
            /\ p = q => Leads(kind[Account(q)], Nxt(q), Nxt(q)', unchecked)
        BY <2>1, <3>5, Heads, BusyFits DEF Admin
      <4>2. CASE p = q
        <5>1. Nxt(q).op = "supers"
          BY <3>5, <4>1, <4>2 DEF Leads, Gives, Admin
        <5>2. doc' = doc /\ Cardinality(Supers) > 1
          BY <1>2, <3>5, <4>2, <5>1, LooksOf
        <5>3. \E b \in Accounts \ {Account(q)} : b \in Supers
          <6>1. ASSUME \A b \in Accounts \ {Account(q)} : b \notin Supers
                PROVE  FALSE
            <7>1. Supers \subseteq {Account(q)}
              BY <6>1 DEF Supers
            <7>2. IsFiniteSet({Account(q)}) /\ Cardinality({Account(q)}) = 1
              BY FS_Singleton
            <7>3. Cardinality(Supers) <= 1 /\ Cardinality(Supers) \in Nat
              BY <7>1, <7>2, FS_Subset, FS_CardinalityType
            <7> QED
              BY <5>2, <7>3
          <6> QED
            BY <6>1
        <5>4. \A b \in Accounts : b \in Supers => Acts(b)'
          BY <2>2, <5>2 DEF Supers, Acts
        <5> QED
          BY <4>1, <4>2, <5>3, <5>4 DEF MayEnd
      <4>3. CASE p # q
        <5>1. Gives(Nxt(p), "active") /\ "super" \in req[p].groups /\ "super" \in Shared
          BY <3>5, <4>1, <4>3, BusyFits DEF Fits, Gives, Shared, Admin
        <5>2. CASE Nxt(q).op \in {"update", "register"} /\ Admin(Account(q))
          <6>1. "super" \in req[q].groups
            BY <2>1, <5>2 DEF Moves, Fits, Admin
          <6> QED
            BY <2>1, <2>5, <4>1, <4>3, <5>1, <6>1, Both DEF Moves, Eased
        <5>3. CASE ~(Nxt(q).op \in {"update", "register"} /\ Admin(Account(q)))
          <6>1. \A b \in Accounts : Admin(b) =>
                   doc'[b].super = doc[b].super /\ doc'[b].active = doc[b].active
            BY <1>2, <5>3, SuperOf DEF Gives
          <6>2. \A b \in Accounts : Acts(b) => Acts(b)'
            BY <2>2, <6>1 DEF Acts
          <6>3. MayEnd(p)
            BY <3>1
          <6> QED
            BY <3>5, <4>1, <4>3, <5>1, <6>1, <6>2, <6>3 DEF MayEnd
        <5> QED
          BY <5>2, <5>3
      <4> QED
        BY <4>2, <4>3
    <3>6. \A p \in Requests : MayEnd(p)'
      BY <3>5 DEF MayEnd
    <3> QED
      BY <2>2, <2>3, <3>4, <3>6 DEF SuperInv
  <2>6. CASE demoted'
    BY <2>2, <2>3, <2>6 DEF SuperInv, Eased
  <2> QED
    BY <2>4, <2>5, <2>6
<1>3. ASSUME NEW a \in Accounts, TokensExpire(a) \/ CodesExpire(a) \/ LockEnds(a)
      PROVE  SuperInv'
  <2>1. UNCHANGED <<req, raced, kind, demoted>>
    BY <1>3, TimeOf
  <2>2. ASSUME NEW b \in Accounts, Admin(b)
        PROVE  doc'[b].super = doc[b].super /\ doc'[b].active = doc[b].active
               /\ doc'[b].known = doc[b].known
    <3>1. {"super", "active", "known"} \subseteq DOMAIN Schema(kind[b])
      BY <2>2, SchemaFields DEF Admin
    <3>2. ASSUME NEW x \in {"super", "active", "known"}
          PROVE  doc'[b][x] = doc[b][x]
      BY <1>3, <3>1, <3>2, TimeOf
    <3> QED
      BY <3>2
  <2>3. \A b \in Accounts : (Admin(b)' <=> Admin(b)) /\ (Acts(b)' <=> Acts(b))
    BY <2>1, <2>2 DEF Acts, Admin
  <2>4. ASSUME NEW p \in Requests, MayEnd(p)
        PROVE  MayEnd(p)'
    <3>1. ASSUME Busy(p), Admin(Account(p))
          PROVE  doc'[Account(p)].super = doc[Account(p)].super
      BY <2>2, <3>1, BusyFits
    <3>2. (Busy(p)' <=> Busy(p)) /\ Account(p)' = Account(p) /\ Nxt(p)' = Nxt(p)
      BY <2>1 DEF Busy, Account, Nxt
    <3>3. Admin(Account(p))' <=> Admin(Account(p))
      BY <2>1 DEF Admin, Account
    <3> QED
      BY <2>3, <2>4, <3>1, <3>2, <3>3 DEF MayEnd
  <2>5. Eased' <=> Eased
    BY <2>1 DEF Eased, Raced
  <2> QED
    BY <2>2, <2>3, <2>4, <2>5 DEF SuperInv
<1>4. CASE UNCHANGED vars
  BY <1>4 DEF SuperInv, Eased, MayEnd, Acts, Admin, Raced, Busy, Nxt, Account, vars, history
<1> QED
  BY <1>1, <1>2, <1>3, <1>4, Steps

(* Some super admin can act, unless one was given another role or two      *)
(* updates of admins overlap: updateAdmin, deleteAdmin.                    *)
THEOREM SuperRemainsHolds == Spec => []SuperRemains
<1>1. Init => SuperInv
  <2>1. ASSUME Init
        PROVE  SuperInv
    <3>1. \A p \in Requests : ~Busy(p)
      BY <2>1, InitBase
    <3>2. \A a \in Accounts : Admin(a) => doc[a].active /\ (~doc[a].known => ~doc[a].super)
      BY <2>1, InitFields
    <3>3. (\A a \in Accounts : ~Admin(a)) \/ (\E a \in Accounts : Acts(a))
      <4>1. PICK hired \in SUBSET {a \in Accounts : Rider(a) \/ Admin(a)}, supers \in SUBSET Accounts :
              /\ supers \subseteq {a \in hired : Admin(a)}
              /\ supers = {} => \A a \in Accounts : ~Admin(a)
              /\ doc = [a \in Accounts |->
                          IF a \notin hired THEN [Blank(a) EXCEPT !.known = FALSE]
                          ELSE IF Rider(a) THEN [BlankRider EXCEPT !.verified = TRUE]
                          ELSE [BlankAdmin EXCEPT !.super = a \in supers]]
        BY <2>1 DEF Init
      <4>2. ASSUME NEW a \in supers
            PROVE  Acts(a)
        <5>1. a \in Accounts /\ a \in hired /\ Admin(a) /\ ~Rider(a)
          BY <4>1 DEF Rider, Admin
        <5>2. doc[a] = [BlankAdmin EXCEPT !.super = a \in supers]
          BY <4>1, <5>1
        <5>3. doc[a].super = (a \in supers)
          BY <5>2 DEF BlankAdmin
        <5>4. doc[a].super
          BY <5>3
        <5> QED
          BY <3>2, <5>1, <5>4 DEF Acts
      <4> QED
        BY <4>1, <4>2
    <3> QED
      BY <3>1, <3>2, <3>3 DEF SuperInv, MayEnd
  <2> QED
    BY <2>1
<1>2. Base /\ SuperInv /\ [Next]_vars => SuperInv'
  BY SuperKept
<1>3. SuperInv => SuperRemains
  BY DEF SuperInv, SuperRemains, Eased, Acts
<1> QED
  BY <1>1, <1>2, <1>3, BaseHolds, PTL DEF Spec

-----------------------------------------------------------------------------
(* A suspended rider.                                                      *)

Resting(a) == doc[a].online = FALSE /\ (Raced("work", a) \/ doc[a].carrying = FALSE)

(* Whoever is about to be suspended carries nothing. *)
MayRest(p) ==
    Busy(p) /\ Gives(Nxt(p), "suspended") /\ Nxt(p).to.suspended =>
        doc[Account(p)].carrying = FALSE \/ Raced("work", Account(p))

WorkInv ==
    /\ \A a \in Accounts : Rider(a) /\ doc[a].suspended => a \in recalled \/ Resting(a)
    /\ \A p \in Requests : MayRest(p)

LEMMA RiderDocs ==
    ASSUME Base, NEW a \in Accounts, Rider(a)
    PROVE  /\ {"suspended", "online", "carrying"} \subseteq DOMAIN Schema(kind[a])
           /\ {doc[a].suspended, doc[a].online, doc[a].carrying} \subseteq BOOLEAN
<1>1. kind[a] = "rider" /\ Holds(kind[a], doc[a])
  BY Typed DEF Base, DocsOK, Rider
<1> QED
  BY <1>1, SchemaFields, SchemaValues DEF Holds

LEMMA RiderOf ==
    ASSUME Base, NEW q \in Requests, Step(q) \/ Fail(q), NEW b \in Accounts, Rider(b)
    PROVE  /\ recalled \subseteq recalled'
           /\ \/ /\ doc'[b].suspended = doc[b].suspended /\ doc'[b].online = doc[b].online
                 /\ doc'[b].carrying = doc[b].carrying
              \/ b = Account(q) /\ doc'[b].suspended = FALSE /\ doc'[b].carrying = FALSE
              \/ b = Account(q) /\ DoUpdate(q)
<1>1. recalled \subseteq recalled'
  BY UpdateEffect, CreateEffect, SpendEffect, AddressEffect, MissEffect, ForgiveEffect, LookEffect,
     RevokeEffect, TokenEffect, FailEffect DEF Step, DoUpdate, history
<1>2. {"suspended", "online", "carrying"} \subseteq DOMAIN Schema(kind[b])
  BY RiderDocs
<1>3. CASE DoCreate(q)
  <2> DEFINE f == Merged(Blank(b), Nxt(q).to)
  <2>1. /\ DOMAIN Nxt(q).to \subseteq {"mail", "confirmed", "verified", "super"}
        /\ doc' = doc \/ Sets(Account(q), Merged(Blank(Account(q)), Nxt(q).to))
    BY <1>3, CreateEffect
  <2>2. /\ DOMAIN f = DOMAIN Blank(b)
        /\ \A y \in DOMAIN Blank(b) :
              f[y] = IF y \in DOMAIN Nxt(q).to THEN Nxt(q).to[y] ELSE Blank(b)[y]
    BY MergedFields
  <2>3. /\ DOMAIN Blank(b) = DOMAIN Schema(kind[b])
        /\ Blank(b)["suspended"] = FALSE /\ Blank(b)["carrying"] = FALSE
    BY BlankHolds DEF Base, Holds
  <2>4. f["suspended"] = FALSE /\ f["carrying"] = FALSE /\ {"suspended", "carrying"} \subseteq DOMAIN f
    BY <1>2, <2>1, <2>2, <2>3
  <2> HIDE DEF f
  <2>5. CASE Sets(b, f) /\ b = Account(q)
    BY <1>1, <1>2, <2>4, <2>5 DEF Sets
  <2>6. CASE doc' = doc
    BY <1>1, <2>6
  <2>7. CASE Sets(Account(q), Merged(Blank(Account(q)), Nxt(q).to)) /\ b # Account(q)
    BY <1>1, <2>7 DEF Sets
  <2> QED
    BY <2>1, <2>5, <2>6, <2>7 DEF f
<1>4. CASE ~DoCreate(q) /\ ~DoUpdate(q)
  <2>1. Nxt(q).op \notin {"update", "register"} \/ Fail(q)
    BY <1>4, SpendEffect, AddressEffect, MissEffect, ForgiveEffect, LookEffect, RevokeEffect,
       TokenEffect DEF Step
  <2>2. CASE Fail(q)
    BY <1>1, <2>2, FailEffect
  <2>3. CASE Nxt(q).op \notin {"update", "register"}
    <3>1. ASSUME NEW x \in {"suspended", "online", "carrying"}
          PROVE  doc'[b][x] = doc[b][x]
      BY <1>2, <2>3, FieldOf DEF Gives
    <3> QED
      BY <1>1, <3>1
  <2> QED
    BY <2>1, <2>2, <2>3
<1>5. CASE DoUpdate(q) /\ b # Account(q)
  <2>1. Sets(Account(q), Nxt(q).to)
    BY <1>5, UpdateEffect
  <2>2. doc'[b] = doc[b]
    BY <1>5, <2>1 DEF Sets
  <2> QED
    BY <1>1, <2>2
<1>6. CASE DoUpdate(q) /\ b = Account(q)
  BY <1>1, <1>6
<1> QED
  BY <1>3, <1>4, <1>5, <1>6

LEMMA WorkKept ==
    ASSUME Base, WorkInv, [Next]_vars
    PROVE  WorkInv'
<1>1. ASSUME NEW q \in Requests, NEW a \in Accounts, Opens(q, a)
      PROVE  WorkInv'
  <2>1. doc' = doc /\ kind' = kind /\ recalled' = recalled /\ raced \subseteq raced'
    BY <1>1 DEF Opens, Begins
  <2>2. ASSUME NEW p \in Requests
        PROVE  MayRest(p)'
    <3>1. ASSUME Busy(p)', Gives(Nxt(p)', "suspended"), Nxt(p)'.to.suspended
          PROVE  p # q
      BY <1>1, <3>1, HeadsOpened DEF Ready
    <3>2. ASSUME Busy(p)', p # q
          PROVE  Busy(p) /\ Account(p)' = Account(p) /\ Nxt(p)' = Nxt(p)
      BY <1>1, <3>2, HeadsOpened
    <3> QED
      BY <2>1, <3>1, <3>2 DEF MayRest, WorkInv, Raced
  <2> QED
    BY <2>1, <2>2 DEF WorkInv, Resting, Raced, Rider
<1>2. ASSUME NEW q \in Requests, Step(q) \/ Fail(q)
      PROVE  WorkInv'
  <2>1. Moves(q) /\ kind' = kind /\ raced' = raced /\ Account(q) \in Accounts
    BY <1>2, StepMoves DEF Moves
  <2>2. ASSUME NEW b \in Accounts, Rider(b), doc'[b].suspended, b \notin recalled'
        PROVE  doc'[b].online = FALSE /\ (Raced("work", b) \/ doc'[b].carrying = FALSE)
    <3>1. {"suspended", "online", "carrying"} \subseteq DOMAIN Schema(kind[b])
          /\ {doc[b].suspended, doc[b].online, doc[b].carrying} \subseteq BOOLEAN
      BY <2>2, RiderDocs
    <3>2. b \notin recalled
      BY <1>2, <2>2, RiderOf
    <3>3. CASE doc'[b].suspended = doc[b].suspended /\ doc'[b].online = doc[b].online
               /\ doc'[b].carrying = doc[b].carrying
      BY <2>2, <3>2, <3>3 DEF WorkInv, Resting
    <3>4. CASE b = Account(q) /\ DoUpdate(q)
      <4>1. PICK f : f = Nxt(q).to
        OBVIOUS
      <4>2. /\ Nxt(q).op = "update" /\ Sets(b, f) /\ Change(kind[b], f)
            /\ Fits(kind[b], req[q].groups, Nxt(q), calls, unchecked)
        BY <3>4, <4>1, UpdateEffect DEF Took
      <4>3. \A x \in {"suspended", "online", "carrying"} :
               doc'[b][x] = IF x \in DOMAIN f THEN f[x] ELSE doc[b][x]
        BY <3>1, <4>2 DEF Sets
      <4>4. {doc'[b].suspended, doc'[b].online, doc'[b].carrying} \subseteq BOOLEAN
        <5>1. Holds(kind[b], doc'[b]) /\ kind[b] = "rider"
          BY <2>2, <4>2 DEF Sets, Rider
        <5> QED
          BY <5>1, SchemaFields, SchemaValues DEF Holds
      <4>5. CASE doc[b].suspended
        <5>1. doc[b].online = FALSE /\ (Raced("work", b) \/ doc[b].carrying = FALSE)
          BY <2>2, <3>2, <4>5 DEF WorkInv, Resting
        <5>2. ~(~doc[b].online /\ doc'[b].online)
              /\ ~(~doc[b].carrying /\ doc'[b].carrying /\ ~doc[b].online)
          BY <2>2, <3>4, <4>5 DEF DoUpdate, Account
        <5> QED
          BY <3>1, <4>4, <5>1, <5>2
      <4>6. CASE ~doc[b].suspended
        <5>1. "suspended" \in DOMAIN f /\ f["suspended"]
          BY <2>2, <4>3, <4>6
        <5>2. Gives(Nxt(q), "suspended") /\ Nxt(q).to.suspended
          BY <4>1, <4>2, <5>1 DEF Gives
        <5>3. "online" \in DOMAIN f /\ f["online"] = FALSE
          BY <4>1, <4>2, <5>2 DEF Fits
        <5>4. "carrying" \notin DOMAIN f
          BY <4>1, <4>2, <5>1 DEF Fits, Gives
        <5>5. doc'[b].online = FALSE /\ doc'[b].carrying = doc[b].carrying
          BY <4>3, <5>3, <5>4
        <5>6. MayRest(q)
          BY DEF WorkInv
        <5> QED
          BY <2>1, <3>4, <5>2, <5>5, <5>6 DEF MayRest, Moves
      <4> QED
        BY <4>5, <4>6
    <3> QED
      BY <1>2, <2>2, <3>3, <3>4, RiderOf
  <2>3. ASSUME NEW p \in Requests, Busy(p)', Gives(Nxt(p)', "suspended"), Nxt(p)'.to.suspended
        PROVE  doc'[Account(p)].carrying = FALSE \/ Raced("work", Account(p))
    <3>1. /\ Busy(p) /\ Account(p)' = Account(p) /\ Account(p) \in Accounts
          /\ p # q => Nxt(p)' = Nxt(p)
          /\ p = q => Leads(kind[Account(q)], Nxt(q), Nxt(q)', unchecked)
      BY <2>1, <2>3, Heads, BusyFits
    <3>2. CASE p = q
      <4>1. Nxt(q).op = "carrying"
        BY <2>3, <3>1, <3>2 DEF Leads
      <4>2. doc' = doc /\ ~doc[Account(q)].carrying
        BY <1>2, <2>3, <3>2, <4>1, LooksOf
      <4>3. Rider(Account(q))
        <5>1. OnTo(q) /\ req'[q] # Idle
          BY <2>1, <2>3, <3>2 DEF Moves, Busy, Idle
        <5>2. IsSequence(req'[q].todo) /\ req'[q].todo # <<>>
              /\ \A i \in 1..Len(req'[q].todo) :
                    Fits(kind[Account(q)], req'[q].groups, req'[q].todo[i], calls, unchecked)
          BY <5>1 DEF OnTo, Planned
        <5>3. Len(req'[q].todo) \in Nat \ {0} /\ Nxt(q)' = req'[q].todo[1]
          BY <5>2, Popped DEF Nxt
        <5>4. Fits(kind[Account(q)], req'[q].groups, Nxt(q)', calls, unchecked)
          BY <5>2, <5>3
        <5>5. "suspended" \in DOMAIN Schema(kind[Account(q)])
          BY <2>3, <3>2, <5>4 DEF Fits, Gives, Change
        <5> QED
          BY <5>5, SchemaFields DEF Rider
      <4>4. doc[Account(q)].carrying \in BOOLEAN
        BY <2>1, <4>3, RiderDocs
      <4> QED
        BY <3>1, <3>2, <4>2, <4>4
    <3>3. CASE p # q
      <4>1. /\ Gives(Nxt(p), "suspended") /\ Nxt(p).to.suspended /\ "work" \in req[p].groups
            /\ "suspended" \in DOMAIN Schema(kind[Account(p)])
        BY <2>3, <3>1, <3>3, BusyFits DEF Fits, Gives, Change
      <4>2. Rider(Account(p))
        BY <4>1, SchemaFields DEF Rider
      <4>3. doc[Account(p)].carrying = FALSE \/ Raced("work", Account(p))
        BY <3>1, <4>1 DEF WorkInv, MayRest
      <4>4. PICK b : b = Account(p) /\ b \in Accounts
        BY <3>1
      <4>5. PICK x : x = "carrying"
        OBVIOUS
      <4>6. x \in DOMAIN Schema(kind[b]) /\ Blank(b)[x] = FALSE
        BY <4>2, <4>4, <4>5, RiderDocs, BlankHolds DEF Base
      <4>7. \/ doc'[b][x] = doc[b][x]
            \/ b = Account(q) /\ Gives(Nxt(q), x)
            \/ doc'[b][x] = Blank(b)[x]
        BY <1>2, <4>4, <4>5, <4>6, FieldOf DEF Registered
      <4>8. CASE b = Account(q) /\ Gives(Nxt(q), x)
        <5>1. "work" \in req[q].groups
          BY <2>1, <4>5, <4>8 DEF Moves, Fits
        <5> QED
          BY <2>1, <3>1, <3>3, <4>1, <4>4, <4>8, <5>1, Both DEF Moves
      <4> QED
        BY <4>3, <4>4, <4>5, <4>6, <4>7, <4>8
    <3> QED
      BY <3>2, <3>3
  <2>4. ASSUME NEW p \in Requests
        PROVE  MayRest(p)'
    <3>1. ASSUME Busy(p)'
          PROVE  Account(p)' = Account(p)
      BY <2>1, <3>1, Heads
    <3> QED
      BY <2>1, <2>3, <3>1 DEF MayRest, Raced
  <2> QED
    BY <2>1, <2>2, <2>4 DEF WorkInv, Resting, Rider, Raced
<1>3. ASSUME NEW a \in Accounts, TokensExpire(a) \/ CodesExpire(a) \/ LockEnds(a)
      PROVE  WorkInv'
  <2>1. UNCHANGED <<req, raced, kind, recalled>>
    BY <1>3, TimeOf
  <2>2. ASSUME NEW b \in Accounts, Rider(b)
        PROVE  /\ doc'[b].suspended = doc[b].suspended /\ doc'[b].online = doc[b].online
               /\ doc'[b].carrying = doc[b].carrying
    <3>1. {"suspended", "online", "carrying"} \subseteq DOMAIN Schema(kind[b])
      BY <2>2, RiderDocs
    <3>2. ASSUME NEW x \in {"suspended", "online", "carrying"}
          PROVE  doc'[b][x] = doc[b][x]
      BY <1>3, <3>1, <3>2, TimeOf
    <3> QED
      BY <3>2
  <2>3. ASSUME NEW p \in Requests
        PROVE  MayRest(p)'
    <3>1. ASSUME Busy(p), Gives(Nxt(p), "suspended")
          PROVE  Rider(Account(p)) /\ Account(p) \in Accounts
      <4>1. Change(kind[Account(p)], Nxt(p).to) /\ Account(p) \in Accounts
        BY <3>1, BusyFits DEF Fits, Gives
      <4>2. "suspended" \in DOMAIN Schema(kind[Account(p)])
        BY <3>1, <4>1 DEF Change, Gives
      <4> QED
        BY <4>1, <4>2, SchemaFields DEF Rider
    <3>2. (Busy(p)' <=> Busy(p)) /\ Account(p)' = Account(p) /\ Nxt(p)' = Nxt(p)
      BY <2>1 DEF Busy, Account, Nxt
    <3> QED
      BY <2>1, <2>2, <3>1, <3>2 DEF MayRest, WorkInv, Raced
  <2> QED
    BY <2>1, <2>2, <2>3 DEF WorkInv, Resting, Rider, Raced
<1>4. CASE UNCHANGED vars
  BY <1>4 DEF WorkInv, Resting, MayRest, Rider, Raced, Busy, Nxt, Account, vars, history
<1> QED
  BY <1>1, <1>2, <1>3, <1>4, Steps

(* A suspended rider carries nothing, unless the rider went online or got  *)
(* a delivery from an admin since, or work and suspension overlap:         *)
(* suspendRider.                                                           *)
THEOREM SuspendedIsIdleHolds == Spec => []SuspendedIsIdle
<1>1. Init => WorkInv
  <2>1. ASSUME Init
        PROVE  (\A p \in Requests : ~Busy(p)) /\ \A a \in Accounts : Rider(a) => doc[a].suspended = FALSE
    BY <2>1, InitBase, InitFields
  <2> QED
    BY <2>1 DEF WorkInv, MayRest
<1>2. Base /\ WorkInv /\ [Next]_vars => WorkInv'
  BY WorkKept
<1>3. WorkInv => SuspendedIsIdle
  BY DEF WorkInv, Resting, SuspendedIsIdle
<1> QED
  BY <1>1, <1>2, <1>3, BaseHolds, PTL DEF Spec

-----------------------------------------------------------------------------
(* Failed attempts.                                                        *)

Watched(a) ==
    /\ misses[a] <= MaxAttempts /\ misses[a] <= doc[a].failed
    /\ misses[a] > 0 /\ doc[a].failed >= MaxAttempts => doc[a].locked = TRUE

(* Whoever is about to count an attempt has read the last count. *)
MayMiss(p) ==
    Busy(p) /\ Nxt(p).op = "miss" =>
        \/ Raced("attempt", Account(p))
        \/ Nxt(p).count = doc[Account(p)].failed + 1 /\ doc[Account(p)].locked = FALSE

LockInv ==
    /\ \A a \in Accounts : Admin(a) => /\ ~doc[a].known => misses[a] = 0
                                       /\ Raced("attempt", a) \/ Watched(a)
    /\ \A p \in Requests : MayMiss(p)

LEMMA AdminDocs ==
    ASSUME Base, NEW a \in Accounts, Admin(a)
    PROVE  /\ {"known", "failed", "locked"} \subseteq DOMAIN Schema(kind[a])
           /\ doc[a].failed \in Nat /\ doc[a].locked \in BOOLEAN /\ misses[a] \in Nat
           /\ kind[a] = "admin" /\ MaxAttempts \in Nat \ {0} /\ DOMAIN misses = Accounts
<1>1. kind[a] = "admin" /\ Holds(kind[a], doc[a]) /\ misses \in [Accounts -> Nat]
  BY Typed DEF Base, TypeOK, DocsOK, Admin
<1>2. MaxAttempts \in Nat \ {0} /\ MaxCalls \in Nat
  BY AccountsAssumption
<1>3. doc[a].failed \in 0..MaxCalls /\ doc[a].locked \in BOOLEAN
  BY <1>1, SchemaFields, SchemaValues DEF Holds
<1> QED
  BY <1>1, <1>2, <1>3, SchemaFields

LEMMA LockOf ==
    ASSUME Base, NEW q \in Requests, Step(q) \/ Fail(q), NEW b \in Accounts, Admin(b)
    PROVE  \/ doc'[b].failed = doc[b].failed /\ doc'[b].locked = doc[b].locked /\ misses'[b] = misses[b]
           \/ /\ b = Account(q) /\ Nxt(q).op = "miss" /\ Nxt(q).count \in Nat
              /\ doc'[b].failed = Nxt(q).count /\ misses'[b] = misses[b] + 1
              /\ doc'[b].locked \in BOOLEAN
              /\ doc'[b].locked <=> (doc[b].locked \/ Nxt(q).count >= MaxAttempts)
           \/ /\ b = Account(q) /\ Nxt(q).op = "forgive"
              /\ doc'[b].failed = 0 /\ misses'[b] = 0
           \/ /\ b = Account(q) /\ Nxt(q).op = "register" /\ ~doc[b].known
              /\ doc'[b].failed = 0 /\ misses' = misses
<1>1. /\ {"known", "failed", "locked"} \subseteq DOMAIN Schema(kind[b])
      /\ doc[b].failed \in Nat /\ doc[b].locked \in BOOLEAN /\ misses[b] \in Nat
      /\ kind[b] = "admin" /\ MaxAttempts \in Nat \ {0} /\ DOMAIN misses = Accounts
  BY AdminDocs
<1>2. CASE DoUpdate(q)
  <2>1. PICK f : f = Nxt(q).to
    OBVIOUS
  <2>2. Sets(Account(q), f) /\ Change(kind[Account(q)], f) /\ misses' = misses
    BY <1>2, <2>1, UpdateEffect
  <2>3. {"failed", "locked"} \cap DOMAIN f = {}
    BY <2>2 DEF Change
  <2>4. ASSUME NEW x \in {"failed", "locked"}
        PROVE  doc'[b][x] = doc[b][x]
    BY <1>1, <2>2, <2>3 DEF Sets
  <2> QED
    BY <2>2, <2>4
<1>3. CASE DoCreate(q)
  <2> DEFINE f == Merged(Blank(Account(q)), Nxt(q).to)
  <2>1. /\ DOMAIN Nxt(q).to \subseteq {"mail", "confirmed", "verified", "super"}
        /\ Nxt(q).op = "register" /\ misses' = misses
        /\ doc' = doc \/ (~doc[Account(q)].known /\ Sets(Account(q), f))
    BY <1>3, CreateEffect DEF history
  <2>2. /\ DOMAIN f = DOMAIN Blank(Account(q))
        /\ \A y \in DOMAIN Blank(Account(q)) :
              f[y] = IF y \in DOMAIN Nxt(q).to THEN Nxt(q).to[y] ELSE Blank(Account(q))[y]
    BY MergedFields
  <2> HIDE DEF f
  <2>3. CASE doc' = doc
    BY <2>1, <2>3
  <2>4. CASE Sets(Account(q), f) /\ ~doc[Account(q)].known /\ b = Account(q)
    <3>1. Blank(b)["failed"] = 0 /\ DOMAIN Blank(b) = DOMAIN Schema(kind[b])
      BY BlankHolds DEF Base, Holds
    <3>2. f["failed"] = 0 /\ "failed" \in DOMAIN f
      BY <1>1, <2>1, <2>2, <2>4, <3>1
    <3>3. doc'[b]["failed"] = 0
      BY <1>1, <2>4, <3>2 DEF Sets
    <3> QED
      BY <2>1, <2>4, <3>3
  <2>5. CASE Sets(Account(q), f) /\ b # Account(q)
    BY <2>1, <2>5 DEF Sets
  <2> QED
    BY <2>1, <2>3, <2>4, <2>5
<1>4. CASE DoMiss(q)
  <2>1. PICK n : n = Nxt(q).count
    OBVIOUS
  <2>2. PICK l \in BOOLEAN : l = (doc[Account(q)].locked \/ n >= MaxAttempts)
    OBVIOUS
  <2>3. PICK f : f = Marked(n, l)
    OBVIOUS
  <2>4. /\ Nxt(q).op = "miss" /\ n \in 1..calls /\ Sets(Account(q), f)
        /\ misses' = [misses EXCEPT ![Account(q)] = @ + 1]
    BY <1>4, <2>1, <2>2, <2>3, MissEffect
  <2>5. DOMAIN f = {"failed", "locked"} /\ f["failed"] = n /\ f["locked"] = l
    BY <2>3 DEF Marked
  <2>6. n \in Nat
    BY <2>4
  <2>7. CASE b = Account(q)
    <3>1. doc'[b]["failed"] = n /\ doc'[b]["locked"] = l
      BY <1>1, <2>4, <2>5, <2>7 DEF Sets
    <3> QED
      BY <1>1, <2>1, <2>2, <2>4, <2>6, <2>7, <3>1
  <2>8. CASE b # Account(q)
    BY <1>1, <2>4, <2>8 DEF Sets
  <2> QED
    BY <2>7, <2>8
<1>5. CASE DoForgive(q)
  <2>1. PICK f : f = Marked(0, FALSE)
    OBVIOUS
  <2>2. /\ Nxt(q).op = "forgive" /\ Sets(Account(q), f)
        /\ misses' = [misses EXCEPT ![Account(q)] = 0]
    BY <1>5, <2>1, ForgiveEffect
  <2>3. DOMAIN f = {"failed", "locked"} /\ f["failed"] = 0
    BY <2>1 DEF Marked
  <2>4. CASE b = Account(q)
    <3>1. doc'[b]["failed"] = 0
      BY <1>1, <2>2, <2>3, <2>4 DEF Sets
    <3> QED
      BY <1>1, <2>2, <2>4, <3>1
  <2>5. CASE b # Account(q)
    BY <1>1, <2>2, <2>5 DEF Sets
  <2> QED
    BY <2>4, <2>5
<1>6. CASE ~(DoUpdate(q) \/ DoCreate(q) \/ DoMiss(q) \/ DoForgive(q))
  <2>1. /\ misses' = misses
        /\ Nxt(q).op \notin {"update", "register", "miss", "forgive"} \/ doc' = doc
    BY <1>6, SpendEffect, AddressEffect, LookEffect, RevokeEffect, TokenEffect, FailEffect
       DEF Step, history
  <2>2. CASE Nxt(q).op \notin {"update", "register", "miss", "forgive"}
    <3>1. ASSUME NEW x \in {"failed", "locked"}
          PROVE  doc'[b][x] = doc[b][x]
      BY <1>1, <2>2, FieldOf DEF Gives
    <3> QED
      BY <2>1, <3>1
  <2> QED
    BY <2>1, <2>2
<1> QED
  BY <1>2, <1>3, <1>4, <1>5, <1>6

LEMMA LockKept ==
    ASSUME Base, LockInv, [Next]_vars
    PROVE  LockInv'
<1>1. ASSUME NEW q \in Requests, NEW a \in Accounts, Opens(q, a)
      PROVE  LockInv'
  <2>1. doc' = doc /\ kind' = kind /\ misses' = misses /\ raced \subseteq raced'
    BY <1>1 DEF Opens, Begins
  <2>2. ASSUME NEW p \in Requests
        PROVE  MayMiss(p)'
    <3>1. ASSUME Busy(p)', Nxt(p)'.op = "miss", p = q
          PROVE  Nxt(p)'.count = doc[Account(p)'].failed + 1 /\ doc[Account(p)'].locked = FALSE
      BY <1>1, <3>1, HeadsOpened DEF Ready
    <3>2. ASSUME Busy(p)', p # q
          PROVE  Busy(p) /\ Account(p)' = Account(p) /\ Nxt(p)' = Nxt(p)
      BY <1>1, <3>2, HeadsOpened
    <3> QED
      BY <2>1, <3>1, <3>2 DEF MayMiss, LockInv, Raced
  <2> QED
    BY <2>1, <2>2 DEF LockInv, Watched, Raced, Admin
<1>2. ASSUME NEW q \in Requests, Step(q) \/ Fail(q)
      PROVE  LockInv'
  <2>1. Moves(q) /\ kind' = kind /\ raced' = raced /\ Account(q) \in Accounts
    BY <1>2, StepMoves DEF Moves
  <2>2. ASSUME NEW b \in Accounts, Admin(b)
        PROVE  /\ ~doc'[b].known => misses'[b] = 0
               /\ \/ Raced("attempt", b)
                  \/ /\ misses'[b] <= MaxAttempts /\ misses'[b] <= doc'[b].failed
                     /\ misses'[b] > 0 /\ doc'[b].failed >= MaxAttempts => doc'[b].locked = TRUE
    <3>1. /\ doc[b].failed \in Nat /\ doc[b].locked \in BOOLEAN /\ misses[b] \in Nat
          /\ MaxAttempts \in Nat \ {0}
      BY <2>2, AdminDocs
    <3>2. /\ ~doc[b].known => misses[b] = 0
          /\ Raced("attempt", b) \/ Watched(b)
      BY <2>2 DEF LockInv
    <3>3. ~doc'[b].known => ~doc[b].known
      BY <1>2, UnknownOf
    <3>4. CASE doc'[b].failed = doc[b].failed /\ doc'[b].locked = doc[b].locked /\ misses'[b] = misses[b]
      BY <3>2, <3>3, <3>4 DEF Watched
    <3>5. CASE /\ b = Account(q) /\ Nxt(q).op = "miss" /\ Nxt(q).count \in Nat
               /\ doc'[b].failed = Nxt(q).count /\ misses'[b] = misses[b] + 1
               /\ doc'[b].locked \in BOOLEAN
               /\ doc'[b].locked <=> (doc[b].locked \/ Nxt(q).count >= MaxAttempts)
      <4>1. doc[b].known
        BY <2>1, <3>5 DEF Moves
      <4>2. CASE ~Raced("attempt", b)
        <5>1. Nxt(q).count = doc[b].failed + 1 /\ doc[b].locked = FALSE
          BY <2>1, <3>5, <4>2 DEF LockInv, MayMiss, Moves
        <5>2. /\ misses[b] <= MaxAttempts /\ misses[b] <= doc[b].failed
              /\ misses[b] > 0 => doc[b].failed < MaxAttempts
          BY <3>1, <3>2, <4>2, <5>1 DEF Watched
        <5>3. misses'[b] <= MaxAttempts /\ misses'[b] <= doc'[b].failed
          BY <3>1, <3>5, <5>1, <5>2
        <5> QED
          BY <3>3, <3>5, <4>1, <5>3
      <4> QED
        BY <3>3, <4>1, <4>2
    <3>6. CASE b = Account(q) /\ Nxt(q).op = "forgive" /\ doc'[b].failed = 0 /\ misses'[b] = 0
      BY <3>1, <3>6
    <3>7. CASE /\ b = Account(q) /\ Nxt(q).op = "register" /\ ~doc[b].known
               /\ doc'[b].failed = 0 /\ misses' = misses
      BY <3>1, <3>2, <3>7
    <3> QED
      BY <1>2, <2>2, <3>4, <3>5, <3>6, <3>7, LockOf
  <2>3. ASSUME NEW p \in Requests, Busy(p)', Nxt(p)'.op = "miss"
        PROVE  \/ Raced("attempt", Account(p))
               \/ /\ Nxt(p)'.count = doc'[Account(p)].failed + 1
                  /\ doc'[Account(p)].locked = FALSE
    <3>1. /\ Busy(p) /\ Account(p)' = Account(p) /\ Account(p) \in Accounts
          /\ p # q => Nxt(p)' = Nxt(p)
          /\ p = q => Leads(kind[Account(q)], Nxt(q), Nxt(q)', unchecked)
      BY <2>1, <2>3, Heads, BusyFits
    <3>2. p # q /\ Nxt(p)' = Nxt(p)
      BY <2>3, <3>1 DEF Leads
    <3>3. /\ kind[Account(p)] = "admin" /\ "attempt" \in req[p].groups /\ doc[Account(p)].known
      BY <2>3, <3>1, <3>2, BusyFits DEF Fits
    <3>4. \/ Raced("attempt", Account(p))
          \/ Nxt(p).count = doc[Account(p)].failed + 1 /\ doc[Account(p)].locked = FALSE
      BY <2>3, <3>1, <3>2 DEF LockInv, MayMiss
    <3>5. CASE Account(p) = Account(q) /\ Nxt(q).op \in {"miss", "forgive"}
      <4>1. "attempt" \in req[q].groups
        BY <2>1, <3>5 DEF Moves, Fits
      <4> QED
        BY <2>1, <3>1, <3>2, <3>3, <3>5, <4>1, Both DEF Moves
    <3>6. CASE ~(Account(p) = Account(q) /\ Nxt(q).op \in {"miss", "forgive"})
      <4>1. PICK b \in Accounts : b = Account(p)
        BY <3>1
      <4>2. Admin(b) /\ doc[b].known
        BY <3>3, <4>1 DEF Admin
      <4>3. doc'[b].failed = doc[b].failed /\ doc'[b].locked = doc[b].locked
        BY <1>2, <3>6, <4>1, <4>2, LockOf
      <4> QED
        BY <3>2, <3>4, <4>1, <4>3
    <3> QED
      BY <3>5, <3>6
  <2>4. ASSUME NEW p \in Requests
        PROVE  MayMiss(p)'
    <3>1. ASSUME Busy(p)'
          PROVE  Account(p)' = Account(p)
      BY <2>1, <3>1, Heads
    <3> QED
      BY <2>1, <2>3, <3>1 DEF MayMiss, Raced
  <2> QED
    BY <2>1, <2>2, <2>4 DEF LockInv, Watched, Admin, Raced
<1>3. ASSUME NEW a \in Accounts, TokensExpire(a) \/ CodesExpire(a) \/ LockEnds(a)
      PROVE  LockInv'
  <2>1. UNCHANGED <<req, raced, kind>>
    BY <1>3, TimeOf
  <2>2. ASSUME NEW b \in Accounts, Admin(b)
        PROVE  /\ doc'[b].failed = doc[b].failed /\ doc'[b].known = doc[b].known
               /\ \/ doc'[b].locked = doc[b].locked /\ misses'[b] = misses[b]
                  \/ doc'[b].locked = FALSE /\ misses'[b] = 0
    <3>1. /\ {"known", "failed", "locked"} \subseteq DOMAIN Schema(kind[b])
          /\ DOMAIN misses = Accounts
      BY <2>2, AdminDocs
    <3>2. ASSUME NEW x \in {"failed", "known"}
          PROVE  doc'[b][x] = doc[b][x]
      BY <1>3, <3>1, <3>2, TimeOf
    <3>3. CASE LockEnds(a) /\ b = a
      <4>1. PICK n : n = doc[a].failed
        OBVIOUS
      <4>2. PICK f : f = Marked(n, FALSE)
        OBVIOUS
      <4>3. Sets(a, f) /\ misses' = [misses EXCEPT ![a] = 0]
        BY <3>3, <4>1, <4>2, LockEndsEffect
      <4>4. DOMAIN f = {"failed", "locked"} /\ f["locked"] = FALSE
        BY <4>2 DEF Marked
      <4>5. doc'[b]["locked"] = FALSE /\ misses'[b] = 0
        BY <3>1, <3>3, <4>3, <4>4 DEF Sets
      <4> QED
        BY <3>2, <4>5
    <3>4. CASE LockEnds(a) /\ b # a
      <4>1. doc' = [doc EXCEPT ![a].locked = FALSE] /\ misses' = [misses EXCEPT ![a] = 0]
        BY <3>4 DEF LockEnds
      <4>2. doc'[b] = doc[b] /\ misses'[b] = misses[b]
        BY <3>1, <3>4, <4>1, Typed DEF Base, DocsOK
      <4> QED
        BY <4>2
    <3>5. CASE ~LockEnds(a)
      <4>1. misses' = misses
        BY <1>3, <3>5 DEF TokensExpire, CodesExpire, history
      <4>2. PICK x : x = "locked"
        OBVIOUS
      <4>3. doc'[b][x] = doc[b][x]
        BY <1>3, <3>1, <3>5, <4>2, TimeOf
      <4> QED
        BY <3>2, <4>1, <4>2, <4>3
    <3> QED
      BY <3>3, <3>4, <3>5
  <2>3. ASSUME NEW p \in Requests
        PROVE  MayMiss(p)'
    <3>1. ASSUME Busy(p), Nxt(p).op = "miss"
          PROVE  Admin(Account(p)) /\ Account(p) \in Accounts
      BY <3>1, BusyFits DEF Fits, Admin
    <3>2. (Busy(p)' <=> Busy(p)) /\ Account(p)' = Account(p) /\ Nxt(p)' = Nxt(p)
      BY <2>1 DEF Busy, Account, Nxt
    <3>3. MayMiss(p)
      BY DEF LockInv
    <3>4. ASSUME Busy(p), Nxt(p).op = "miss"
          PROVE  \/ Raced("attempt", Account(p))
                 \/ Nxt(p).count = doc'[Account(p)].failed + 1 /\ doc'[Account(p)].locked = FALSE
      BY <2>2, <3>1, <3>3, <3>4 DEF MayMiss
    <3> QED
      BY <2>1, <3>2, <3>4 DEF MayMiss, Raced
  <2>4. ASSUME NEW b \in Accounts, Admin(b)
        PROVE  /\ ~doc'[b].known => misses'[b] = 0
               /\ \/ Raced("attempt", b)
                  \/ /\ misses'[b] <= MaxAttempts /\ misses'[b] <= doc'[b].failed
                     /\ misses'[b] > 0 /\ doc'[b].failed >= MaxAttempts => doc'[b].locked = TRUE
    <3>1. /\ doc[b].failed \in Nat /\ MaxAttempts \in Nat \ {0}
      BY <2>4, AdminDocs
    <3>2. /\ ~doc[b].known => misses[b] = 0
          /\ Raced("attempt", b) \/ Watched(b)
      BY <2>4 DEF LockInv
    <3>3. CASE doc'[b].locked = doc[b].locked /\ misses'[b] = misses[b]
      BY <2>2, <2>4, <3>2, <3>3 DEF Watched
    <3>4. CASE doc'[b].locked = FALSE /\ misses'[b] = 0
      <4>1. doc'[b].failed \in Nat
        BY <2>2, <2>4, <3>1
      <4>2. ~(misses'[b] > 0) /\ misses'[b] <= MaxAttempts /\ misses'[b] <= doc'[b].failed
        BY <3>1, <3>4, <4>1
      <4> QED
        BY <3>4, <4>2
    <3> QED
      BY <2>2, <2>4, <3>3, <3>4
  <2> QED
    BY <2>1, <2>3, <2>4 DEF LockInv, Watched, Admin, Raced
<1>4. CASE UNCHANGED vars
  BY <1>4 DEF LockInv, Watched, MayMiss, Admin, Raced, Busy, Nxt, Account, vars, history
<1> QED
  BY <1>1, <1>2, <1>3, <1>4, Steps

(* After MAX_LOGIN_ATTEMPTS wrong passwords the account is locked, and     *)
(* once the lock is over one more locks it again, unless two attempts or   *)
(* resets overlap: verifyAdmin, login, resetAdminPassword.                 *)
THEOREM LockoutAlwaysHolds == Spec => []LockoutHolds
<1>1. Init => LockInv
  <2>1. ASSUME Init
        PROVE  LockInv
    <3>1. (\A p \in Requests : ~Busy(p)) /\ \A a \in Accounts : misses[a] = 0
      BY <2>1, InitBase
    <3>2. \A a \in Accounts : Admin(a) => doc[a].failed = 0
      BY <2>1, InitFields
    <3>3. MaxAttempts \in Nat \ {0}
      BY AccountsAssumption
    <3> QED
      BY <3>1, <3>2, <3>3 DEF LockInv, Watched, MayMiss
  <2> QED
    BY <2>1
<1>2. Base /\ LockInv /\ [Next]_vars => LockInv'
  BY LockKept
<1>3. LockInv => LockoutHolds
  BY DEF LockInv, Watched, LockoutHolds
<1> QED
  BY <1>1, <1>2, <1>3, BaseHolds, PTL DEF Spec

-----------------------------------------------------------------------------
(* Saved addresses.                                                        *)

Adding(a) == Pending(a, "addAddress")

LEMMA PendingAre ==
    \A a, q : q \in Adding(a) <=>
        q \in Requests /\ Busy(q) /\ Nxt(q).op = "addAddress" /\ Account(q) = a
  BY DEF Adding, Pending, Due, Busy, Nxt, Account

LEMMA CustomerDocs ==
    ASSUME Base, NEW a \in Accounts, Customer(a)
    PROVE  /\ "addresses" \in DOMAIN Schema(kind[a])
           /\ doc[a].addresses \subseteq 1..MaxCalls /\ IsFiniteSet(doc[a].addresses)
           /\ Cardinality(doc[a].addresses) \in Nat
<1>1. kind[a] = "customer" /\ Holds(kind[a], doc[a])
  BY Typed DEF Base, DocsOK, Customer
<1>2. "addresses" \in DOMAIN Schema(kind[a]) /\ doc[a].addresses \in SUBSET (1..MaxCalls)
  BY <1>1, SchemaFields, SchemaValues DEF Holds
<1>3. MaxCalls \in Nat
  BY AccountsAssumption
<1>4. PICK n \in Nat : n = MaxCalls
  BY <1>3
<1>5. IsFiniteSet(1..n)
  BY FS_Interval
<1> QED
  BY <1>2, <1>4, <1>5, FS_Subset, FS_CardinalityType

LEMMA Room ==
    ASSUME NEW a
    PROVE  /\ IsFiniteSet(Adding(a)) /\ Cardinality(Adding(a)) \in Nat
           /\ Cardinality(Adding(a)) <= Cardinality(Requests) /\ Cardinality(Requests) \in Nat
           /\ MaxAddresses \in Nat
<1>1. IsFiniteSet(Requests) /\ MaxAddresses \in Nat
  BY AccountsAssumption
<1>2. Adding(a) \subseteq Requests
  BY DEF Adding, Pending
<1> QED
  BY <1>1, <1>2, FS_Subset, FS_CardinalityType

LEMMA AddressOf ==
    ASSUME Base, NEW q \in Requests, Step(q) \/ Fail(q), NEW b \in Accounts, Customer(b)
    PROVE  \/ doc'[b].addresses \subseteq doc[b].addresses
           \/ /\ b = Account(q) /\ Nxt(q).op = "addAddress"
              /\ doc'[b].addresses = doc[b].addresses \union {Nxt(q).id}
<1>1. PICK x : x = "addresses"
  OBVIOUS
<1>2. x \in DOMAIN Schema(kind[b]) /\ Blank(b).addresses = {}
  BY <1>1, CustomerDocs, BlankHolds DEF Base
<1>3. \/ doc'[b][x] = doc[b][x]
      \/ b = Account(q) /\ Gives(Nxt(q), x)
      \/ doc'[b][x] = Blank(b)[x]
      \/ b = Account(q) /\ doc'[b][x] = Saved(q, doc[b].addresses)
  BY <1>1, <1>2, FieldOf DEF Registered
<1>4. ~(b = Account(q) /\ Gives(Nxt(q), x))
  BY <1>1, StepMoves DEF Moves, Fits, Gives, Change
<1>5. CASE b = Account(q) /\ doc'[b][x] = Saved(q, doc[b].addresses)
  BY <1>1, <1>5 DEF Saved
<1> QED
  BY <1>1, <1>2, <1>3, <1>4, <1>5

LEMMA AddressesKept ==
    ASSUME Base, AddressesBounded, [Next]_vars
    PROVE  AddressesBounded'
<1> DEFINE Few(b) == Cardinality(doc'[b].addresses) + Cardinality(Adding(b)')
                       < MaxAddresses + Cardinality(Requests)
<1>1. ASSUME kind' = kind, \A b \in Accounts : Customer(b) => Few(b)
      PROVE  AddressesBounded'
  BY <1>1 DEF AddressesBounded, Adding, Customer
<1>2. ASSUME NEW b \in Accounts, Customer(b)
      PROVE  Cardinality(doc[b].addresses) + Cardinality(Adding(b)) < MaxAddresses + Cardinality(Requests)
  BY <1>2 DEF AddressesBounded, Adding
<1>3. ASSUME NEW b \in Accounts, Customer(b), doc'[b].addresses \subseteq doc[b].addresses,
             Adding(b)' \subseteq Adding(b)
      PROVE  Few(b)
  <2>1. /\ Cardinality(doc'[b].addresses) <= Cardinality(doc[b].addresses)
        /\ Cardinality(doc'[b].addresses) \in Nat /\ Cardinality(doc[b].addresses) \in Nat
    BY <1>3, CustomerDocs, FS_Subset, FS_CardinalityType
  <2>2. /\ Cardinality(Adding(b)') <= Cardinality(Adding(b))
        /\ Cardinality(Adding(b)') \in Nat /\ Cardinality(Adding(b)) \in Nat
        /\ MaxAddresses \in Nat /\ Cardinality(Requests) \in Nat
    BY <1>3, Room, FS_Subset, FS_CardinalityType
  <2> QED
    BY <1>2, <1>3, <2>1, <2>2
<1> HIDE DEF Few
<1>4. ASSUME NEW q \in Requests, NEW a \in Accounts, Opens(q, a)
      PROVE  AddressesBounded'
  <2>1. doc' = doc /\ kind' = kind
    BY <1>4 DEF Opens, Begins
  <2>2. ASSUME NEW b \in Accounts, Customer(b)
        PROVE  Few(b)
    <3>1. ASSUME NEW p \in Adding(b)', p # q
          PROVE  p \in Adding(b)
      <4>1. p \in Requests /\ Busy(p)' /\ Nxt(p)'.op = "addAddress" /\ Account(p)' = b
        BY <3>1 DEF Adding, Pending, Due, Busy, Nxt, Account
      <4>2. Busy(p) /\ Account(p)' = Account(p) /\ Nxt(p)' = Nxt(p)
        BY <1>4, <3>1, <4>1, HeadsOpened
      <4> QED
        BY <4>1, <4>2, PendingAre
    <3>2. CASE q \notin Adding(b)'
      BY <1>3, <2>1, <2>2, <3>1, <3>2
    <3>3. CASE q \in Adding(b)'
      <4>1. Busy(q)' /\ Nxt(q)'.op = "addAddress" /\ Account(q)' = b
        BY <3>3 DEF Adding, Pending, Due, Busy, Nxt, Account
      <4>2. Cardinality(doc[b].addresses) < MaxAddresses
        BY <1>4, <4>1, HeadsOpened DEF Ready
      <4>3. /\ Cardinality(Adding(b)') <= Cardinality(Requests) /\ Cardinality(Adding(b)') \in Nat
            /\ Cardinality(Requests) \in Nat
        <5>1. Adding(b)' \subseteq Requests
          BY DEF Adding, Pending
        <5> QED
          BY <5>1, AccountsAssumption, FS_Subset, FS_CardinalityType
      <4>4. Cardinality(doc'[b].addresses) < MaxAddresses /\ Cardinality(doc'[b].addresses) \in Nat
        BY <2>1, <2>2, <4>2, CustomerDocs
      <4>5. MaxAddresses \in Nat
        BY AccountsAssumption
      <4> QED
        BY <4>3, <4>4, <4>5 DEF Few
    <3> QED
      BY <3>2, <3>3
  <2> QED
    BY <1>1, <2>1, <2>2
<1>5. ASSUME NEW q \in Requests, Step(q) \/ Fail(q)
      PROVE  AddressesBounded'
  <2>1. Moves(q) /\ kind' = kind
    BY <1>5, StepMoves DEF Moves
  <2>2. ASSUME NEW b \in Accounts, Customer(b)
        PROVE  Few(b)
    <3>1. ASSUME NEW p \in Adding(b)'
          PROVE  p \in Adding(b) /\ p # q
      <4>1. p \in Requests /\ Busy(p)' /\ Nxt(p)'.op = "addAddress" /\ Account(p)' = b
        BY <3>1 DEF Adding, Pending, Due, Busy, Nxt, Account
      <4>2. /\ Busy(p) /\ Account(p)' = Account(p)
            /\ p # q => Nxt(p)' = Nxt(p)
            /\ p = q => Leads(kind[Account(q)], Nxt(q), Nxt(q)', unchecked)
        BY <2>1, <4>1, Heads
      <4>3. p # q
        BY <4>1, <4>2 DEF Leads
      <4> QED
        BY <4>1, <4>2, <4>3, PendingAre
    <3>2. CASE doc'[b].addresses \subseteq doc[b].addresses
      BY <1>3, <2>2, <3>1, <3>2
    <3>3. CASE /\ b = Account(q) /\ Nxt(q).op = "addAddress"
               /\ doc'[b].addresses = doc[b].addresses \union {Nxt(q).id}
      <4>1. q \in Adding(b)
        BY <2>1, <3>3, PendingAre DEF Moves
      <4>2. Adding(b)' \subseteq Adding(b) \ {q}
        BY <3>1
      <4>3. /\ Cardinality(Adding(b) \ {q}) = Cardinality(Adding(b)) - 1
            /\ IsFiniteSet(Adding(b) \ {q})
        BY <4>1, Room, FS_RemoveElement
      <4>4. Cardinality(Adding(b)') <= Cardinality(Adding(b)) - 1 /\ Cardinality(Adding(b)') \in Nat
        BY <4>2, <4>3, FS_Subset, FS_CardinalityType
      <4>5. PICK A : A = doc[b].addresses
        OBVIOUS
      <4>6. IsFiniteSet(A) /\ Cardinality(A) \in Nat
        BY <2>2, <4>5, CustomerDocs
      <4>7. PICK n : n = Nxt(q).id
        OBVIOUS
      <4>8. Cardinality(A \union {n}) = Cardinality(A) \/ Cardinality(A \union {n}) = Cardinality(A) + 1
        BY <4>6, FS_AddElement
      <4> QED
        BY <1>2, <2>2, <3>3, <4>4, <4>5, <4>6, <4>7, <4>8, Room DEF Few
    <3> QED
      BY <1>5, <2>2, <3>2, <3>3, AddressOf
  <2> QED
    BY <1>1, <2>1, <2>2
<1>6. ASSUME NEW a \in Accounts, TokensExpire(a) \/ CodesExpire(a) \/ LockEnds(a)
      PROVE  AddressesBounded'
  <2>1. req' = req /\ kind' = kind
    BY <1>6, TimeOf
  <2>2. ASSUME NEW b \in Accounts, Customer(b)
        PROVE  Few(b)
    <3>1. PICK x : x = "addresses"
      OBVIOUS
    <3>2. doc'[b][x] = doc[b][x]
      BY <1>6, <2>2, <3>1, TimeOf, CustomerDocs
    <3>3. Adding(b)' = Adding(b)
      BY <2>1 DEF Adding, Pending, Due
    <3> QED
      BY <1>3, <2>2, <3>1, <3>2, <3>3
  <2> QED
    BY <1>1, <2>1, <2>2
<1>7. CASE UNCHANGED vars
  BY <1>7 DEF AddressesBounded, Pending, Due, Customer, vars
<1> QED
  BY <1>4, <1>5, <1>6, <1>7, Steps

LEMMA InitAddresses ==
    ASSUME Init
    PROVE  AddressesBounded
<1>1. ASSUME NEW a \in Accounts, Customer(a)
      PROVE  Cardinality(doc[a].addresses) + Cardinality(Adding(a)) < MaxAddresses + Cardinality(Requests)
  <2>1. Cardinality(doc[a].addresses) = 0
    BY <1>1, InitFields, FS_EmptySet
  <2>2. MaxAddresses \in Nat \ {0}
    BY AccountsAssumption
  <2> QED
    BY <2>1, <2>2, Room
<1> QED
  BY <1>1 DEF AddressesBounded, Adding

-----------------------------------------------------------------------------
(* One-time codes.                                                         *)

Setting(p, c)  == Busy(p) /\ Gives(Nxt(p), "code") /\ Nxt(p).to.code = c
Spending(p, c) == Busy(p) /\ Nxt(p).op = "spend" /\ Nxt(p).code = c
Has(a, c)      == ~Admin(a) /\ doc[a].code = c

SomeCodeRaced == \E a \in Accounts : Raced("code", a)

(* Code c is about to be stored once, and is nowhere before. *)
IsNew(c) ==
    \A p \in Requests : Setting(p, c) =>
        /\ spent[c] = 0
        /\ \A a \in Accounts : ~Has(a, c)
        /\ \A q \in Requests : ~Spending(q, c) /\ (Setting(q, c) => p = q)

(* Code c is one account's. *)
IsOnes(c) ==
    /\ \A a, b \in Accounts : Has(a, c) /\ Has(b, c) => a = b
    /\ \A a \in Accounts, q \in Requests : Has(a, c) /\ Spending(q, c) => Account(q) = a
    /\ \A p, q \in Requests : Spending(p, c) /\ Spending(q, c) => Account(p) = Account(q)

(* Once it has been spent it is gone. *)
IsGone(c) ==
    \/ SomeCodeRaced
    \/ /\ spent[c] <= 1
       /\ spent[c] = 1 => /\ \A a \in Accounts : ~Has(a, c)
                          /\ \A q \in Requests : ~Spending(q, c)

CodeInv ==
    \A c \in 1..MaxCalls : (c > calls => spent[c] = 0) /\ IsNew(c) /\ IsOnes(c) /\ IsGone(c)

LEMMA CodeFits ==
    ASSUME Base, NEW p \in Requests, NEW c
    PROVE  /\ Setting(p, c) => c \in 1..calls
           /\ Spending(p, c) => /\ c \in 1..calls /\ "code" \in req[p].groups
                                /\ ~Admin(Account(p)) /\ Account(p) \in Accounts
  BY BusyFits DEF Setting, Spending, Fits, Admin

LEMMA HasKnown ==
    ASSUME Base, NEW a \in Accounts, NEW c, Has(a, c)
    PROVE  c <= calls
  BY DEF Base, Counted, Has

LEMMA HasOf ==
    ASSUME Base, NEW q \in Requests, Step(q) \/ Fail(q), NEW b \in Accounts, ~Admin(b),
           NEW c \in 1..MaxCalls, doc'[b].code = c
    PROVE  Has(b, c) \/ (b = Account(q) /\ Setting(q, c))
<1>1. PICK x : x = "code"
  OBVIOUS
<1>2. x \in DOMAIN Schema(kind[b]) /\ Blank(b).code = 0 /\ c # 0
  <2>1. kind[b] # "admin" /\ MaxCalls \in Nat
    BY AccountsAssumption DEF Admin
  <2>2. "code" \in DOMAIN Schema(kind[b])
    BY <2>1, SchemaFields
  <2>3. Blank(b).code = 0
    BY BlankHolds DEF Base
  <2>4. c # 0
    BY <2>1
  <2> QED
    BY <1>1, <2>2, <2>3, <2>4
<1>3. \/ doc'[b][x] = doc[b][x]
      \/ b = Account(q) /\ Gives(Nxt(q), x) /\ doc'[b][x] = Nxt(q).to[x]
      \/ doc'[b][x] = Blank(b)[x]
      \/ doc'[b][x] = 0
  BY <1>1, <1>2, FieldOf DEF Registered
<1>4. Busy(q)
  BY StepMoves DEF Moves
<1> QED
  BY <1>1, <1>2, <1>3, <1>4 DEF Has, Setting

LEMMA SpentOf ==
    ASSUME Base, NEW q \in Requests, Step(q) \/ Fail(q), NEW c \in 1..MaxCalls
    PROVE  \/ spent'[c] = spent[c]
           \/ /\ Spending(q, c) /\ spent'[c] = spent[c] + 1
              /\ \A d \in 1..MaxCalls : doc'[Account(q)].code # d
<1>1. CASE DoSpend(q)
  <2>1. /\ Took(q) /\ Nxt(q).op = "spend" /\ Sets(Account(q), [code |-> 0])
        /\ spent' = [spent EXCEPT ![Nxt(q).code] = @ + 1]
    BY <1>1, SpendEffect
  <2>2. spent \in [1..MaxCalls -> Nat]
    BY DEF Base, TypeOK
  <2>3. CASE Nxt(q).code # c
    BY <2>1, <2>2, <2>3
  <2>4. CASE Nxt(q).code = c
    <3>1. spent'[c] = spent[c] + 1 /\ Spending(q, c)
      BY <2>1, <2>2, <2>4 DEF Spending, Took
    <3>2. PICK f : f = [code |-> 0] /\ DOMAIN f = {"code"} /\ f["code"] = 0
      BY Fields
    <3>3. "code" \in DOMAIN Schema(kind[Account(q)])
      <4>1. kind[Account(q)] # "admin"
        BY <2>1 DEF Took, Fits
      <4> QED
        BY <4>1, SchemaFields
    <3>4. doc'[Account(q)]["code"] = 0
      BY <2>1, <3>2, <3>3 DEF Sets
    <3> QED
      BY <3>1, <3>4
  <2> QED
    BY <2>3, <2>4
<1>2. CASE ~DoSpend(q)
  <2>1. spent' = spent
    BY <1>2, UpdateEffect, CreateEffect, AddressEffect, MissEffect, ForgiveEffect, LookEffect,
       RevokeEffect, TokenEffect, FailEffect DEF Step, history
  <2> QED
    BY <2>1
<1> QED
  BY <1>1, <1>2

(* Nothing that was free of code c gets it. *)
LEMMA LessCode ==
    ASSUME NEW c \in 1..MaxCalls, kind' = kind, raced \subseteq raced', spent'[c] = spent[c],
           IsNew(c), IsOnes(c), IsGone(c),
           \A a \in Accounts : Has(a, c)' => Has(a, c),
           \A p \in Requests : Setting(p, c)' => Setting(p, c),
           \A p \in Requests : Spending(p, c)' => Spending(p, c) /\ Account(p)' = Account(p)
    PROVE  IsNew(c)' /\ IsOnes(c)' /\ IsGone(c)'
<1>1. IsNew(c)'
  BY DEF IsNew
<1>2. IsOnes(c)'
  BY DEF IsOnes
<1>3. IsGone(c)'
  BY DEF IsGone, SomeCodeRaced, Raced
<1> QED
  BY <1>1, <1>2, <1>3

LEMMA CodeOpened ==
    ASSUME Base, CodeInv, NEW q \in Requests, NEW a \in Accounts, Opens(q, a), NEW c \in 1..MaxCalls
    PROVE  (c > calls' => spent'[c] = 0) /\ IsNew(c)' /\ IsOnes(c)' /\ IsGone(c)'
<1>1. /\ doc' = doc /\ kind' = kind /\ spent' = spent /\ raced \subseteq raced'
      /\ calls' = calls + 1 /\ calls \in Nat
  BY DEF Opens, Begins, Base, TypeOK
<1>2. /\ c > calls => spent[c] = 0
      /\ IsNew(c) /\ IsOnes(c) /\ IsGone(c)
  BY DEF CodeInv
<1>3. \A b \in Accounts : Has(b, c)' <=> Has(b, c)
  BY <1>1 DEF Has, Admin
<1>4. ASSUME NEW p \in Requests, p # q
      PROVE  /\ Setting(p, c)' => Setting(p, c)
             /\ Spending(p, c)' => Spending(p, c) /\ Account(p)' = Account(p)
  BY <1>4, HeadsOpened DEF Setting, Spending
<1>5. Setting(q, c)' => c = calls + 1
  BY HeadsOpened DEF Setting, Ready
<1>6. Spending(q, c)' => Account(q)' = a /\ doc[a].code = c /\ Nxt(q)'.op = "spend"
  BY HeadsOpened DEF Spending, Ready
<1>7. ~Busy(q)
  BY DEF Opens
<1>8. c > calls' => spent'[c] = 0
  BY <1>1, <1>2
<1>9. CASE Setting(q, c)'
  <2>1. c = calls + 1 /\ spent[c] = 0
    BY <1>1, <1>2, <1>5, <1>9
  <2>2. \A p \in Requests : ~Setting(p, c) /\ ~Spending(p, c)
    BY <1>1, <2>1, CodeFits
  <2>3. \A b \in Accounts : ~Has(b, c)
    BY <1>1, <2>1, HasKnown
  <2>4. ~Spending(q, c)'
    BY <1>9 DEF Setting, Spending, Gives
  <2>5. \A p \in Requests : ~Spending(p, c)' /\ (Setting(p, c)' => p = q)
    BY <1>4, <2>2, <2>4
  <2>6. IsNew(c)'
    BY <1>1, <1>3, <2>1, <2>3, <2>5 DEF IsNew
  <2>7. IsOnes(c)'
    BY <1>3, <2>3, <2>5 DEF IsOnes
  <2>8. IsGone(c)'
    BY <1>1, <1>3, <2>1, <2>3, <2>5 DEF IsGone
  <2> QED
    BY <1>8, <2>6, <2>7, <2>8
<1>10. CASE Spending(q, c)'
  <2>1. Has(a, c)
    <3>1. Planned(req'[q], kind[a], calls + 1, unchecked')
      <4>1. req'[q] # Idle
        BY <1>10 DEF Spending, Busy, Idle
      <4> QED
        BY <4>1 DEF Opens
    <3>2. IsSequence(req'[q].todo) /\ req'[q].todo # <<>>
          /\ \A i \in 1..Len(req'[q].todo) :
                Fits(kind[a], req'[q].groups, req'[q].todo[i], calls + 1, unchecked')
      BY <3>1 DEF Planned
    <3>3. Len(req'[q].todo) \in Nat \ {0} /\ Nxt(q)' = req'[q].todo[1]
      BY <3>2, Popped DEF Nxt
    <3>4. Fits(kind[a], req'[q].groups, Nxt(q)', calls + 1, unchecked')
      BY <3>2, <3>3
    <3> QED
      BY <1>6, <1>10, <3>4 DEF Fits, Has, Admin
  <2>2. \A p \in Requests : ~Setting(p, c)
    BY <1>2, <2>1 DEF IsNew
  <2>3. ~Setting(q, c)'
    BY <1>10 DEF Setting, Spending, Gives
  <2>4. \A p \in Requests : ~Setting(p, c)'
    BY <1>4, <2>2, <2>3
  <2>5. IsNew(c)'
    BY <2>4 DEF IsNew
  <2>6. ASSUME NEW p \in Requests, Spending(p, c)'
        PROVE  Account(p)' = a
    BY <1>2, <1>4, <1>6, <2>1, <2>6 DEF IsOnes
  <2>7. \A b \in Accounts : Has(b, c) => b = a
    BY <1>2, <2>1 DEF IsOnes
  <2>8. IsOnes(c)'
    BY <1>3, <2>6, <2>7 DEF IsOnes
  <2>9. SomeCodeRaced \/ (spent[c] <= 1 /\ spent[c] # 1)
    BY <1>2, <2>1 DEF IsGone
  <2>10. IsGone(c)'
    BY <1>1, <2>9 DEF IsGone, SomeCodeRaced, Raced
  <2> QED
    BY <1>8, <2>5, <2>8, <2>10
<1>11. CASE ~Setting(q, c)' /\ ~Spending(q, c)'
  <2>1. \A p \in Requests : /\ Setting(p, c)' => Setting(p, c)
                            /\ Spending(p, c)' => Spending(p, c) /\ Account(p)' = Account(p)
    BY <1>4, <1>11
  <2> QED
    BY <1>1, <1>2, <1>3, <1>8, <2>1, LessCode
<1> QED
  BY <1>9, <1>10, <1>11

LEMMA CodeStepped ==
    ASSUME Base, CodeInv, NEW q \in Requests, Step(q) \/ Fail(q), NEW c \in 1..MaxCalls
    PROVE  (c > calls' => spent'[c] = 0) /\ IsNew(c)' /\ IsOnes(c)' /\ IsGone(c)'
<1>1. /\ Moves(q) /\ kind' = kind /\ raced' = raced /\ calls' = calls /\ calls \in Nat
      /\ Busy(q) /\ Account(q) \in Accounts
  BY StepMoves DEF Moves, Base, TypeOK
<1>2. /\ c > calls => spent[c] = 0
      /\ IsNew(c) /\ IsOnes(c) /\ IsGone(c)
  BY DEF CodeInv
<1>3. ASSUME NEW p \in Requests
      PROVE  /\ Setting(p, c)' => Setting(p, c) /\ p # q
             /\ Spending(p, c)' => Spending(p, c) /\ Account(p)' = Account(p) /\ p # q
  <2>1. Busy(p)' => /\ Busy(p) /\ Account(p)' = Account(p)
                    /\ p # q => Nxt(p)' = Nxt(p)
                    /\ p = q => Leads(kind[Account(q)], Nxt(q), Nxt(q)', unchecked)
    BY <1>1, Heads
  <2> QED
    BY <2>1 DEF Setting, Spending, Leads
<1>4. ASSUME NEW b \in Accounts
      PROVE  Has(b, c)' => Has(b, c) \/ (b = Account(q) /\ Setting(q, c))
  <2>1. Admin(b)' <=> Admin(b)
    BY <1>1 DEF Admin
  <2>2. Has(b, c)' => ~Admin(b) /\ doc'[b].code = c
    BY <2>1 DEF Has
  <2> QED
    BY <2>2, HasOf
<1>5. spent[c] \in Nat
  BY DEF Base, TypeOK
<1>6. CASE Setting(q, c)
  <2>1. /\ spent[c] = 0 /\ \A a \in Accounts : ~Has(a, c)
        /\ \A p \in Requests : ~Spending(p, c) /\ (Setting(p, c) => p = q)
    BY <1>2, <1>6 DEF IsNew
  <2>2. spent'[c] = spent[c]
    BY <1>6, <2>1, SpentOf
  <2>3. \A p \in Requests : ~Spending(p, c)' /\ ~Setting(p, c)'
    BY <1>3, <2>1
  <2>4. \A b \in Accounts : Has(b, c)' => b = Account(q)
    BY <1>4, <2>1
  <2>5. IsNew(c)'
    BY <2>3 DEF IsNew
  <2>6. IsOnes(c)'
    BY <2>3, <2>4 DEF IsOnes
  <2>7. IsGone(c)'
    BY <2>1, <2>2, <2>3 DEF IsGone
  <2> QED
    BY <2>1, <2>2, <2>5, <2>6, <2>7
<1>7. CASE ~Setting(q, c) /\ spent'[c] = spent[c]
  <2>1. /\ \A b \in Accounts : Has(b, c)' => Has(b, c)
        /\ \A p \in Requests : Setting(p, c)' => Setting(p, c)
        /\ \A p \in Requests : Spending(p, c)' => Spending(p, c) /\ Account(p)' = Account(p)
    BY <1>3, <1>4, <1>7
  <2>2. IsNew(c)' /\ IsOnes(c)' /\ IsGone(c)'
    BY <1>1, <1>2, <1>7, <2>1, LessCode
  <2> QED
    BY <1>1, <1>2, <1>7, <2>2
<1>8. CASE /\ Spending(q, c) /\ spent'[c] = spent[c] + 1
           /\ \A d \in 1..MaxCalls : doc'[Account(q)].code # d
  <2>1. "code" \in req[q].groups /\ c \in 1..calls
    BY <1>8, CodeFits
  <2>2. \A p \in Requests : ~Setting(p, c)
    BY <1>2, <1>8 DEF IsNew
  <2>3. \A p \in Requests : ~Setting(p, c)'
    BY <1>3, <2>2
  <2>4. \A b \in Accounts : Has(b, c)' => Has(b, c)
    BY <1>4, <2>2
  <2>5. IsNew(c)'
    BY <2>3 DEF IsNew
  <2>6. IsOnes(c)'
    BY <1>2, <1>3, <2>4 DEF IsOnes
  <2>7. CASE SomeCodeRaced
    <3>1. SomeCodeRaced'
      BY <1>1, <2>7 DEF SomeCodeRaced, Raced
    <3> QED
      BY <1>1, <2>1, <2>5, <2>6, <3>1 DEF IsGone
  <2>8. CASE ~SomeCodeRaced
    <3>1. spent[c] = 0
      BY <1>2, <1>5, <1>8, <2>8 DEF IsGone
    <3>2. ASSUME NEW b \in Accounts, Has(b, c)'
          PROVE  FALSE
      <4>1. Has(b, c)
        BY <2>4, <3>2
      <4>2. b = Account(q)
        BY <1>2, <1>8, <4>1 DEF IsOnes
      <4>3. doc'[b].code = c
        BY <3>2 DEF Has
      <4> QED
        BY <1>8, <4>2, <4>3
    <3>3. ASSUME NEW p \in Requests, Spending(p, c)'
          PROVE  FALSE
      <4>1. Spending(p, c) /\ p # q
        BY <1>3, <3>3
      <4>2. Account(p) = Account(q)
        BY <1>2, <1>8, <4>1 DEF IsOnes
      <4>3. "code" \in req[p].groups /\ Busy(p)
        BY <4>1, CodeFits DEF Spending
      <4>4. Raced("code", Account(p))
        BY <1>1, <2>1, <4>1, <4>2, <4>3, Both
      <4> QED
        BY <1>1, <2>8, <4>2, <4>4 DEF SomeCodeRaced
    <3>4. IsGone(c)'
      BY <1>8, <3>1, <3>2, <3>3 DEF IsGone
    <3> QED
      BY <1>1, <2>1, <2>5, <2>6, <3>4
  <2> QED
    BY <2>7, <2>8
<1> QED
  BY <1>6, <1>7, <1>8, SpentOf

LEMMA CodeKept ==
    ASSUME Base, CodeInv, [Next]_vars
    PROVE  CodeInv'
<1>1. ASSUME NEW q \in Requests, NEW a \in Accounts, Opens(q, a)
      PROVE  CodeInv'
  BY <1>1, CodeOpened DEF CodeInv
<1>2. ASSUME NEW q \in Requests, Step(q) \/ Fail(q)
      PROVE  CodeInv'
  BY <1>2, CodeStepped DEF CodeInv
<1>3. ASSUME kind' = kind, raced' = raced, req' = req, spent' = spent, calls' = calls,
             \A b \in Accounts : ~Admin(b) =>
                doc'[b].code = doc[b].code \/ doc'[b].code = 0
      PROVE  CodeInv'
  <2>1. ASSUME NEW c \in 1..MaxCalls
        PROVE  (c > calls' => spent'[c] = 0) /\ IsNew(c)' /\ IsOnes(c)' /\ IsGone(c)'
    <3>1. \A p \in Requests : /\ Setting(p, c)' => Setting(p, c)
                              /\ Spending(p, c)' => Spending(p, c) /\ Account(p)' = Account(p)
      BY <1>3 DEF Setting, Spending, Busy, Nxt, Account
    <3>2. \A b \in Accounts : Has(b, c)' => Has(b, c)
      BY <1>3 DEF Has, Admin
    <3>3. /\ c > calls => spent[c] = 0
          /\ IsNew(c) /\ IsOnes(c) /\ IsGone(c)
      BY DEF CodeInv
    <3> QED
      BY <1>3, <3>1, <3>2, <3>3, LessCode
  <2> QED
    BY <2>1 DEF CodeInv
<1>4. ASSUME NEW a \in Accounts, TokensExpire(a) \/ CodesExpire(a) \/ LockEnds(a)
      PROVE  CodeInv'
  <2>1. UNCHANGED <<kind, raced, req, spent, calls>>
    BY <1>4, TimeOf
  <2>2. ASSUME NEW b \in Accounts, ~Admin(b)
        PROVE  doc'[b].code = doc[b].code \/ doc'[b].code = 0
    <3>1. PICK x : x = "code"
      OBVIOUS
    <3>2. x \in DOMAIN Schema(kind[b])
      BY <2>2, <3>1, SchemaFields DEF Admin
    <3>3. doc'[b][x] = doc[b][x] \/ doc'[b][x] = 0
      BY <1>4, <3>1, <3>2, TimeOf
    <3> QED
      BY <3>1, <3>3
  <2> QED
    BY <1>3, <2>1, <2>2
<1>5. CASE UNCHANGED vars
  BY <1>3, <1>5 DEF vars, history
<1> QED
  BY <1>1, <1>2, <1>4, <1>5, Steps

LEMMA InitCodes ==
    ASSUME Init
    PROVE  CodeInv
<1>1. /\ \A p \in Requests : ~Busy(p)
      /\ \A c \in 1..MaxCalls : spent[c] = 0
  BY InitBase
<1>2. ASSUME NEW a \in Accounts, NEW c \in 1..MaxCalls
      PROVE  ~Has(a, c)
  <2>1. c # 0
    BY AccountsAssumption
  <2>2. ~Admin(a) => doc[a].code = 0
    BY InitFields
  <2> QED
    BY <2>1, <2>2 DEF Has
<1> QED
  BY <1>1, <1>2 DEF CodeInv, IsNew, IsOnes, IsGone, Setting, Spending

(* A one-time code sets one password, a customer's saved addresses are     *)
(* over the limit by the requests beside the last one at most, a device is *)
(* one rider's, and documents are what their schemas say: whatever the     *)
(* requests of the three services do at the same time.                     *)
THEOREM AccountsAreSoundHolds == Spec => []AccountsAreSound
<1>1. Init => CodeInv
  BY InitCodes
<1>2. Base /\ CodeInv /\ [Next]_vars => CodeInv'
  BY CodeKept
<1>3. Init => AddressesBounded
  BY InitAddresses
<1>4. Base /\ AddressesBounded /\ [Next]_vars => AddressesBounded'
  BY AddressesKept
<1>5. CodeInv => CodeSpentOnce
  BY DEF CodeInv, IsGone, SomeCodeRaced, CodeSpentOnce
<1>6. Base => TypeOK
  BY DEF Base
<1>7. TypeOK /\ CodeSpentOnce /\ AddressesBounded /\ DeviceBoundOnce => AccountsAreSound
  BY DEF AccountsAreSound
<1>8. Spec => []CodeInv
  BY <1>1, <1>2, BaseHolds, PTL DEF Spec
<1>9. Spec => []AddressesBounded
  BY <1>3, <1>4, BaseHolds, PTL DEF Spec
<1> QED
  BY <1>5, <1>6, <1>7, <1>8, <1>9, BaseHolds, DeviceBelongsToOne, PTL
=============================================================================
