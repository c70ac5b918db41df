------------------------------ MODULE Accounts ------------------------------
(***************************************************************************)
(* Accounts of customers, riders and admins: registration, login, refresh  *)
(* tokens, passwords and one-time codes, a customer's saved addresses, a   *)
(* rider's device and suspension, an admin's failed attempts and role.     *)
(*                                                                         *)
(* A handler reads the account, decides (bcrypt takes its time), and then  *)
(* writes one document after the other.  So a request is what is left of   *)
(* its steps after that reading, and steps of all requests interleave.     *)
(*                                                                         *)
(* Abstractions.  An account is the part of its document that some guard   *)
(* looks at.  Refresh tokens are counted; nothing in the code exchanges    *)
(* one.  A code is the number of the call that made it, and 0 once it has  *)
(* expired or been cleared.  The code sent to a phone, which no route      *)
(* takes, is left out; so are names, FCM tokens, preferences, vehicles,    *)
(* bank details, and an admin's mustChangePassword, which no guard reads.  *)
(***************************************************************************)
EXTENDS Integers, FiniteSets, Sequences

CONSTANTS
    Accounts,
    Casts,        \* who the accounts may be: functions from Accounts to Kinds
    Devices, NoDevice,
    Requests,     \* requests that can be served at the same time
    MaxAttempts,  \* MAX_LOGIN_ATTEMPTS
    MaxAddresses, \* MAX_SAVED_ADDRESSES
    MaxCalls,     \* bound: requests in all
    MaxFaults     \* bound: how often a request throws or its process dies

Kinds == {"customer", "rider", "admin", "nobody"}

ASSUME AccountsAssumption ==
    /\ IsFiniteSet(Accounts) /\ IsFiniteSet(Requests)
    /\ Casts \subseteq [Accounts -> Kinds]
    /\ NoDevice \notin Devices
    /\ {MaxAttempts, MaxAddresses} \subseteq Nat \ {0}
    /\ {MaxCalls, MaxFaults} \subseteq Nat

VARIABLES
    kind,     \* who an account belongs to
    doc,      \* its document
    live,     \* its refresh tokens that are neither revoked nor expired
    req,      \* what each request still has to do
    raced,    \* history: <<g, a>> if two requests of group g overlapped at account a
    spent,    \* history: passwords set with each code
    refused,  \* history: codes that were refused although they were good
    misses,   \* history: wrong passwords since the last login, reset or lock
    unchecked, \* history: devices bound without looking at other riders
    demoted,  \* history: a super admin got another role
    recalled, \* history: riders who went online, or got a delivery from an
              \* admin, while they were suspended
    calls, faults

history == <<spent, refused, misses, unchecked, demoted, recalled>>
vars == <<kind, doc, live, req, raced, history, calls, faults>>

Customer(a) == kind[a] = "customer"
Rider(a)    == kind[a] = "rider"
Admin(a)    == kind[a] = "admin"

BlankUser ==
    [known |-> TRUE, active |-> TRUE, confirmed |-> FALSE, mail |-> 0, code |-> 0,
     addresses |-> {}]

BlankRider ==
    [known |-> TRUE, active |-> TRUE, verified |-> FALSE, mustChange |-> TRUE, code |-> 0,
     device |-> NoDevice, suspended |-> FALSE, online |-> FALSE, carrying |-> FALSE]

BlankAdmin ==
    [known |-> TRUE, active |-> TRUE, super |-> FALSE, failed |-> 0, locked |-> FALSE]

Blank(a) == IF Rider(a) THEN BlankRider ELSE IF Admin(a) THEN BlankAdmin ELSE BlankUser

Idle == [todo |-> <<>>]

(* Customers register themselves.  Riders and admins are created by an     *)
(* admin: some have been, those riders are verified, and if an account is  *)
(* an admin's, some admin is a super admin.                                *)
Init ==
    /\ kind \in Casts
    /\ \E hired \in SUBSET {a \in Accounts : Rider(a) \/ Admin(a)}, supers \in SUBSET Accounts :
         /\ supers \subseteq {a \in hired : Admin(a)}
         /\ supers = {} => \A a \in Accounts : ~Admin(a)
         /\ doc = [a \in Accounts |->
                      IF a \notin hired THEN [Blank(a) EXCEPT !.known = FALSE]
                      ELSE IF Rider(a) THEN [BlankRider EXCEPT !.verified = TRUE]
                      ELSE [BlankAdmin EXCEPT !.super = a \in supers]]
    /\ live = [a \in Accounts |-> 0]
    /\ req = [q \in Requests |-> Idle]
    /\ raced = {}
    /\ spent = [c \in 1..MaxCalls |-> 0]
    /\ refused = {}
    /\ misses = [a \in Accounts |-> 0]
    /\ unchecked = {}
    /\ demoted = FALSE
    /\ recalled = {}
    /\ calls = 0 /\ faults = 0

-----------------------------------------------------------------------------
(* Steps a request may still have to take. *)

Update(f)       == [op |-> "update", to |-> f]        \* $set on the account
Create(f)       == [op |-> "register", to |-> f]      \* email is unique
FindToken       == [op |-> "find"]
RevokeAll       == [op |-> "revokeAll"]
RevokeOne       == [op |-> "revokeOne"]
CreateToken     == [op |-> "create"]
Spend(c)        == [op |-> "spend", code |-> c]       \* a new password
AddAddress(n)   == [op |-> "addAddress", id |-> n]
DropAddress(n)  == [op |-> "dropAddress", id |-> n]
CheckDevice(v)  == [op |-> "device", device |-> v]    \* is it bound elsewhere
CheckSupers     == [op |-> "supers"]                  \* is there another one
CheckCarrying   == [op |-> "carrying"]                \* an active delivery
Miss(n)         == [op |-> "miss", count |-> n]
Forgive         == [op |-> "forgive"]

(* generateRefreshToken of the three services. *)
CustomerSession == <<FindToken, RevokeAll, CreateToken>>
RiderSession == <<RevokeAll, FindToken, CreateToken>>

(* The old tokens stay. *)
AdminSessionMutant == <<CreateToken>>

AdminSession == <<RevokeAll, CreateToken>>

(* Groups of requests whose checks cover all accounts. *)
Shared == {"device", "super"}

Serve(q, a, G, steps) ==
    /\ req[q].todo = <<>>
    /\ calls < MaxCalls
    /\ calls' = calls + 1
    /\ req' = [req EXCEPT ![q] = IF steps = <<>> THEN Idle
                                ELSE [acct |-> a, groups |-> G, todo |-> steps]]
    /\ raced' = raced \union
           {<<g, a>> : g \in {h \in G : \E p \in Requests :
                                 /\ req[p].todo # <<>> /\ h \in req[p].groups
                                 /\ req[p].acct = a \/ h \in Shared}}

(* The handler has written nothing yet. *)
Begun == UNCHANGED <<kind, doc, live, history, faults>>

Fresh == calls + 1   \* a one-time code, or the id of an address

-----------------------------------------------------------------------------
(* Customers: user-api auth and account. *)

RegisterUser(q, a) ==
    /\ Customer(a) /\ ~doc[a].known
    /\ Serve(q, a, {"session"}, <<Create([mail |-> Fresh])>>)
    /\ Begun

(* The local strategies: an account whose password is right. *)
VerifyUser(a)  == Customer(a) /\ doc[a].known /\ doc[a].active
VerifyRider(a) == Rider(a) /\ doc[a].known /\ doc[a].active
VerifyAdmin(a) == Admin(a) /\ doc[a].known /\ doc[a].active /\ ~doc[a].locked

Login(q, a) ==
    /\ VerifyUser(a)
    /\ Serve(q, a, {"session"}, IF doc[a].confirmed THEN CustomerSession
                                ELSE <<Update([mail |-> Fresh])>>)
    /\ Begun

GoogleSignIn(q, a) ==
    /\ Customer(a)
    /\ Serve(q, a, {"session"}, IF doc[a].known THEN CustomerSession
                              ELSE <<Create([confirmed |-> TRUE])>> \o CustomerSession)
    /\ Begun

VerifyEmailOtp(q, a, c) ==
    /\ Customer(a) /\ doc[a].known /\ ~doc[a].confirmed /\ doc[a].mail = c
    /\ Serve(q, a, {"session"}, <<Update([confirmed |-> TRUE, mail |-> 0])>> \o CustomerSession)
    /\ Begun

ResendEmailOtp(q, a) ==
    /\ Customer(a) /\ doc[a].known /\ ~doc[a].confirmed
    /\ Serve(q, a, {"mail"}, <<Update([mail |-> Fresh])>>)
    /\ Begun

ForgotPassword(q, a) ==
    /\ Customer(a) /\ doc[a].known
    /\ Serve(q, a, {"request"}, <<Update([code |-> Fresh])>>)
    /\ Begun

RequestChangePasswordOtp(q, a) ==
    /\ Customer(a) /\ doc[a].known
    /\ Serve(q, a, {"request"}, <<Update([code |-> Fresh])>>)
    /\ Begun

(* The schema does not select the code unless asked, and this handler does *)
(* not ask: whatever the customer enters is refused.                       *)
ResetPassword(q, a, c) ==
    /\ Customer(a) /\ doc[a].known /\ doc[a].code = c
    /\ Serve(q, a, {"code"}, <<>>)
    /\ refused' = refused \union {c}
    /\ UNCHANGED <<kind, doc, live, spent, misses, unchecked, demoted, recalled, faults>>

(* Of a customer who is logged in. *)
ConfirmChangePassword(q, a, c) ==
    /\ Customer(a) /\ doc[a].known /\ doc[a].code = c
    /\ Serve(q, a, {"code"}, <<Spend(c)>>)
    /\ Begun

Logout(q, a, step) ==
    /\ Customer(a) /\ doc[a].known
    /\ Serve(q, a, {"logout"}, <<step>>)
    /\ Begun

DeleteAccount(q, a) ==
    /\ Customer(a) /\ doc[a].known
    /\ Serve(q, a, {"active"}, <<Update([active |-> FALSE])>>)
    /\ Begun

(* suspendUser and unsuspendUser of the admin. *)
SuspendUser(q, a, b) ==
    /\ Customer(a) /\ doc[a].known
    /\ Serve(q, a, {"active"}, <<Update([active |-> ~b])>>)
    /\ Begun

CreateSavedAddress(q, a) ==
    /\ Customer(a) /\ doc[a].known
    /\ Cardinality(doc[a].addresses) < MaxAddresses
    /\ Serve(q, a, {"address"}, <<AddAddress(Fresh)>>)
    /\ Begun

DeleteSavedAddress(q, a, n) ==
    /\ Customer(a) /\ doc[a].known /\ n \in doc[a].addresses
    /\ Serve(q, a, {"address"}, <<DropAddress(n)>>)
    /\ Begun

-----------------------------------------------------------------------------
(* Riders: delivery-api auth, and what an admin does to them. *)

CreateRider(q, a) ==
    /\ Rider(a) /\ ~doc[a].known
    /\ Serve(q, a, {"session"}, <<Create([verified |-> FALSE])>>)
    /\ Begun

LoginRider(q, a, v) ==
    /\ VerifyRider(a) /\ ~doc[a].suspended /\ ~doc[a].mustChange
    /\ doc[a].device \in {NoDevice, v}
    /\ Serve(q, a, {"session"}, RiderSession)
    /\ Begun

(* The first login sets a password and binds whatever device it is: like   *)
(* an admin, without looking at the other riders.                          *)
Unlooked(v) ==
    /\ unchecked' = unchecked \union {v}
    /\ UNCHANGED <<kind, doc, live, spent, refused, misses, demoted, recalled, faults>>

ChangeRiderPassword(q, a, v) ==
    /\ VerifyRider(a) /\ doc[a].mustChange
    /\ Serve(q, a, {"session"}, <<Update([mustChange |-> FALSE, device |-> v])>> \o RiderSession)
    /\ Unlooked(v)

(* The other riders are not looked at. *)
BindDeviceMutant(q, a, v) ==
    /\ VerifyRider(a) /\ doc[a].device = NoDevice
    /\ Serve(q, a, {"device"}, <<Update([device |-> v])>>)
    /\ Begun

BindDevice(q, a, v) ==
    /\ VerifyRider(a) /\ doc[a].device = NoDevice
    /\ Serve(q, a, {"device"}, <<CheckDevice(v), Update([device |-> v])>>)
    /\ Begun

ForgotRiderPassword(q, a) ==
    /\ Rider(a) /\ doc[a].known
    /\ Serve(q, a, {"request"}, <<Update([code |-> Fresh])>>)
    /\ Begun

SpendRiderCode(q, a, c) ==
    /\ Rider(a) /\ doc[a].known /\ doc[a].code = c
    /\ Serve(q, a, {"code"}, <<Spend(c)>>)
    /\ Begun

LogoutRider(q, a, step) ==
    /\ VerifyRider(a)
    /\ Serve(q, a, {"logout"}, <<step, Update([online |-> FALSE])>>)
    /\ Begun

(* A rider who is suspended is not asked. *)
ToggleOnlineStatus(q, a) ==
    /\ VerifyRider(a)
    /\ Serve(q, a, {"toggle"}, <<Update([online |-> ~doc[a].online])>>)
    /\ Begun

AcceptDelivery(q, a) ==
    /\ VerifyRider(a) /\ doc[a].verified /\ doc[a].online /\ ~doc[a].carrying
    /\ Serve(q, a, {"work"}, <<Update([carrying |-> TRUE])>>)
    /\ Begun

(* assignRider of admin-api does not look at the suspension either. *)
AssignRider(q, a) ==
    /\ Rider(a) /\ doc[a].known /\ doc[a].verified /\ ~doc[a].carrying
    /\ Serve(q, a, {"work"}, <<Update([carrying |-> TRUE])>>)
    /\ Begun

DeliveryEnds(q, a) ==
    /\ Rider(a) /\ doc[a].known /\ doc[a].carrying
    /\ Serve(q, a, {"work"}, <<Update([carrying |-> FALSE])>>)
    /\ Begun

VerifyRiderPapers(q, a, b) ==
    /\ Rider(a) /\ doc[a].known
    /\ Serve(q, a, {"papers"}, <<Update([verified |-> b])>>)
    /\ Begun

(* What an admin may set that a guard reads. *)
UpdateRider(q, a, b) ==
    /\ Rider(a) /\ doc[a].known
    /\ Serve(q, a, {"active"}, <<Update([active |-> b])>>)
    /\ Begun

(* Active deliveries are not looked for. *)
SuspendRiderMutant(q, a) ==
    /\ Rider(a) /\ doc[a].known
    /\ Serve(q, a, {"work"}, <<Update([suspended |-> TRUE, online |-> FALSE])>>)
    /\ Begun

SuspendRider(q, a) ==
    /\ Rider(a) /\ doc[a].known
    /\ Serve(q, a, {"work"}, <<CheckCarrying, Update([suspended |-> TRUE, online |-> FALSE])>>)
    /\ Begun

UnsuspendRider(q, a) ==
    /\ Rider(a) /\ doc[a].known
    /\ Serve(q, a, {"work"}, <<Update([suspended |-> FALSE])>>)
    /\ Begun

ResetRiderPassword(q, a) ==
    /\ Rider(a) /\ doc[a].known
    /\ Serve(q, a, {"reset"}, <<Update([mustChange |-> TRUE, device |-> NoDevice])>>)
    /\ Begun

(* An admin binds a device, or unbinds it. *)
UpdateDeviceBinding(q, a, v) ==
    /\ Rider(a) /\ doc[a].known
    /\ Serve(q, a, {"device"}, <<Update([device |-> v])>>)
    /\ Unlooked(v)

-----------------------------------------------------------------------------
(* Admins: admin-api auth. *)

(* The local strategy reads and compares; login writes. *)
LoginAdmin(q, a) ==
    /\ VerifyAdmin(a)
    /\ Serve(q, a, {"attempt", "session"}, <<Forgive>> \o AdminSession)
    /\ Begun

FailAttempt(q, a) ==
    /\ VerifyAdmin(a)
    /\ Serve(q, a, {"attempt"}, <<Miss(doc[a].failed + 1)>>)
    /\ Begun

LogoutAdmin(q, a, step) ==
    /\ Admin(a) /\ doc[a].known
    /\ Serve(q, a, {"logout"}, <<step>>)
    /\ Begun

(* Only a super admin gets to the following. *)
BySuper(by) == VerifyAdmin(by) /\ doc[by].super

CreateAdmin(q, a, by, s) ==
    /\ BySuper(by) /\ Admin(a) /\ ~doc[a].known
    /\ Serve(q, a, {"super"}, <<Create([super |-> s])>>)
    /\ Begun

ResetAdminPassword(q, a, by) ==
    /\ BySuper(by) /\ Admin(a) /\ doc[a].known
    /\ Serve(q, a, {"attempt"}, <<Forgive>>)
    /\ Begun

(* Other super admins are not counted. *)
DeactivateAdminMutant(q, a, by) ==
    /\ BySuper(by) /\ Admin(a) /\ doc[a].known
    /\ Serve(q, a, {"super"}, <<Update([active |-> FALSE])>>)
    /\ Begun

(* updateAdmin: the one that deactivates, ... *)
DeactivateAdmin(q, a, by) ==
    /\ BySuper(by) /\ Admin(a) /\ doc[a].known
    /\ Serve(q, a, {"super"}, (IF doc[a].super THEN <<CheckSupers>> ELSE <<>>)
                               \o <<Update([active |-> FALSE])>>)
    /\ Begun

(* ... the one that gives a role or activates. *)
UpdateAdmin(q, a, by, f) ==
    /\ BySuper(by) /\ Admin(a) /\ doc[a].known
    /\ Serve(q, a, {"super"}, <<Update(f)>>)
    /\ Begun

DeleteAdmin(q, a, by) ==
    /\ BySuper(by) /\ Admin(a) /\ doc[a].known /\ a # by /\ ~doc[a].super
    /\ Serve(q, a, {"super"}, <<Update([active |-> FALSE])>>)
    /\ Begun

-----------------------------------------------------------------------------
(* The steps. *)

Due(q, op) == req[q].todo # <<>> /\ Head(req[q].todo).op = op
Drop(q)     == req' = [req EXCEPT ![q] = Idle]
Rest(q)     == IF Len(req[q].todo) = 1 THEN Drop(q) ELSE req' = [req EXCEPT ![q].todo = Tail(@)]
Only(q, ok) == IF ok THEN Rest(q) ELSE Drop(q)

Merged(d, f) == [x \in DOMAIN d |-> IF x \in DOMAIN f THEN f[x] ELSE d[x]]

Kept == UNCHANGED <<kind, raced, calls, faults>>

DoUpdate(q) ==
    LET a == req[q].acct
        f == Head(req[q].todo).to
    IN /\ Due(q, "update")
       /\ doc' = [doc EXCEPT ![a] = Merged(@, f)]
       /\ demoted' = (demoted \/ (Admin(a) /\ doc[a].super /\ ~doc'[a].super))
       /\ recalled' = IF /\ Rider(a) /\ doc[a].suspended /\ doc'[a].suspended
                         /\ \/ ~doc[a].online /\ doc'[a].online
                            \/ ~doc[a].carrying /\ doc'[a].carrying /\ ~doc[a].online
                      THEN recalled \union {a} ELSE recalled
       /\ Rest(q)
       /\ UNCHANGED <<live, spent, refused, misses, unchecked>> /\ Kept

(* The e-mail address is unique: the second document is not created. *)
DoCreate(q) ==
    LET a == req[q].acct IN
    /\ Due(q, "register")
    /\ IF doc[a].known THEN UNCHANGED doc
       ELSE doc' = [doc EXCEPT ![a] = Merged(Blank(a), Head(req[q].todo).to)]
    /\ Only(q, ~doc[a].known)
    /\ UNCHANGED <<live, history>> /\ Kept

(* The token that is found is the session. *)
DoFind(q) ==
    /\ Due(q, "find")
    /\ Only(q, live[req[q].acct] = 0)
    /\ UNCHANGED <<doc, live, history>> /\ Kept

DoRevoke(q) ==
    LET a == req[q].acct IN
    /\ \/ Due(q, "revokeAll") /\ live' = [live EXCEPT ![a] = 0]
       \/ Due(q, "revokeOne") /\ live' = [live EXCEPT ![a] = IF @ = 0 THEN 0 ELSE @ - 1]
    /\ Rest(q)
    /\ UNCHANGED <<doc, history>> /\ Kept

DoCreateToken(q) ==
    /\ Due(q, "create")
    /\ live' = [live EXCEPT ![req[q].acct] = @ + 1]
    /\ Rest(q)
    /\ UNCHANGED <<doc, history>> /\ Kept

DoSpend(q) ==
    LET c == Head(req[q].todo).code IN
    /\ Due(q, "spend")
    /\ doc' = [doc EXCEPT ![req[q].acct].code = 0]
    /\ spent' = [spent EXCEPT ![c] = @ + 1]
    /\ Rest(q)
    /\ UNCHANGED <<live, refused, misses, unchecked, demoted, recalled>> /\ Kept

DoAddress(q) ==
    LET n == Head(req[q].todo).id
        a == req[q].acct
    IN /\ \/ Due(q, "addAddress")  /\ doc' = [doc EXCEPT ![a].addresses = @ \union {n}]
          \/ Due(q, "dropAddress") /\ doc' = [doc EXCEPT ![a].addresses = @ \ {n}]
       /\ Rest(q)
       /\ UNCHANGED <<live, history>> /\ Kept

DoCheck(q) ==
    LET a == req[q].acct IN
    /\ \/ /\ Due(q, "device")
          /\ Only(q, ~\E b \in Accounts \ {a} : Rider(b) /\ doc[b].device = Head(req[q].todo).device)
       \/ /\ Due(q, "supers")
          /\ Only(q, Cardinality({b \in Accounts : Admin(b) /\ doc[b].super /\ doc[b].active}) > 1)
       \/ /\ Due(q, "carrying")
          /\ Only(q, ~doc[a].carrying)
    /\ UNCHANGED <<doc, live, history>> /\ Kept

(* Locked one attempt later. *)
DoMissMutant(q) ==
    LET n == Head(req[q].todo).count
        a == req[q].acct
    IN /\ Due(q, "miss")
       /\ doc' = [doc EXCEPT ![a].failed = n, ![a].locked = @ \/ n > MaxAttempts]
       /\ misses' = [misses EXCEPT ![a] = @ + 1]
       /\ Rest(q)
       /\ UNCHANGED <<live, spent, refused, unchecked, demoted, recalled>> /\ Kept

DoMiss(q) ==
    LET n == Head(req[q].todo).count
        a == req[q].acct
    IN /\ Due(q, "miss")
       /\ doc' = [doc EXCEPT ![a].failed = n, ![a].locked = @ \/ n >= MaxAttempts]
       /\ misses' = [misses EXCEPT ![a] = @ + 1]
       /\ Rest(q)
       /\ UNCHANGED <<live, spent, refused, unchecked, demoted, recalled>> /\ Kept

DoForgive(q) ==
    LET a == req[q].acct IN
    /\ Due(q, "forgive")
    /\ doc' = [doc EXCEPT ![a].failed = 0, ![a].locked = FALSE]
    /\ misses' = [misses EXCEPT ![a] = 0]
    /\ Rest(q)
    /\ UNCHANGED <<live, spent, refused, unchecked, demoted, recalled>> /\ Kept

(* An exception, or the end of the process, between two steps. *)
Fail(q) ==
    /\ req[q].todo # <<>>
    /\ faults < MaxFaults
    /\ faults' = faults + 1
    /\ Drop(q)
    /\ UNCHANGED <<kind, doc, live, raced, history, calls>>

(* Time passes: 7 days for tokens, minutes for codes and locks.  The lock  *)
(* is over, the count of failed attempts is not.                           *)
Passes == UNCHANGED <<kind, req, raced, calls, faults>>

TokensExpire(a) ==
    /\ live[a] > 0
    /\ live' = [live EXCEPT ![a] = 0]
    /\ UNCHANGED <<doc, history>> /\ Passes

CodesExpire(a) ==
    /\ doc' = [doc EXCEPT ![a] = [x \in DOMAIN @ |-> IF x \in {"code", "mail"} THEN 0 ELSE @[x]]]
    /\ doc' # doc
    /\ UNCHANGED <<live, history>> /\ Passes

LockEnds(a) ==
    /\ Admin(a) /\ doc[a].locked
    /\ doc' = [doc EXCEPT ![a].locked = FALSE]
    /\ misses' = [misses EXCEPT ![a] = 0]
    /\ UNCHANGED <<live, spent, refused, unchecked, demoted, recalled>> /\ Passes

-----------------------------------------------------------------------------
AuthNext(q, a) ==
    \/ RegisterUser(q, a) \/ Login(q, a) \/ GoogleSignIn(q, a)
    \/ \E c \in 1..MaxCalls : VerifyEmailOtp(q, a, c) \/ ResetPassword(q, a, c)
    \/ ResendEmailOtp(q, a) \/ ForgotPassword(q, a)
    \/ \E step \in {RevokeAll, RevokeOne} : Logout(q, a, step)

UserNext(q, a) ==
    \/ RequestChangePasswordOtp(q, a)
    \/ \E c \in 1..MaxCalls : ConfirmChangePassword(q, a, c)
    \/ DeleteAccount(q, a) \/ CreateSavedAddress(q, a)
    \/ \E n \in 1..MaxCalls : DeleteSavedAddress(q, a, n)

UserManagementNext(q, a) == \E b \in BOOLEAN : SuspendUser(q, a, b)

RiderAuthNext(q, a) ==
    \/ \E v \in Devices : \/ LoginRider(q, a, v) \/ ChangeRiderPassword(q, a, v)
                          \/ BindDevice(q, a, v)
    \/ ForgotRiderPassword(q, a) \/ \E c \in 1..MaxCalls : SpendRiderCode(q, a, c)
    \/ \E step \in {RevokeAll, RevokeOne} : LogoutRider(q, a, step)

RiderWorkNext(q, a) ==
    \/ ToggleOnlineStatus(q, a) \/ AcceptDelivery(q, a) \/ AssignRider(q, a)
    \/ DeliveryEnds(q, a)

RiderManagementNext(q, a) ==
    \/ CreateRider(q, a)
    \/ \E b \in BOOLEAN : VerifyRiderPapers(q, a, b) \/ UpdateRider(q, a, b)
    \/ SuspendRider(q, a) \/ UnsuspendRider(q, a) \/ ResetRiderPassword(q, a)
    \/ \E v \in Devices \union {NoDevice} : UpdateDeviceBinding(q, a, v)

AdminAuthNext(q, a) ==
    \/ LoginAdmin(q, a) \/ FailAttempt(q, a)
    \/ \E step \in {RevokeAll, RevokeOne} : LogoutAdmin(q, a, step)
    \/ \E by \in Accounts :
         \/ ResetAdminPassword(q, a, by) \/ DeactivateAdmin(q, a, by) \/ DeleteAdmin(q, a, by)
         \/ \E s \in BOOLEAN : CreateAdmin(q, a, by, s)
         \/ \E f \in {[super |-> TRUE], [super |-> FALSE], [active |-> TRUE]} :
              UpdateAdmin(q, a, by, f)

Step(q) ==
    \/ DoUpdate(q) \/ DoCreate(q) \/ DoFind(q) \/ DoRevoke(q) \/ DoCreateToken(q)
    \/ DoSpend(q) \/ DoAddress(q) \/ DoCheck(q) \/ DoMiss(q) \/ DoForgive(q)

Next ==
    \/ \E q \in Requests :
         \/ \E a \in Accounts :
              \/ AuthNext(q, a) \/ UserNext(q, a) \/ UserManagementNext(q, a)
              \/ RiderAuthNext(q, a) \/ RiderWorkNext(q, a) \/ RiderManagementNext(q, a)
              \/ AdminAuthNext(q, a)
         \/ Step(q) \/ Fail(q)
    \/ \E a \in Accounts : TokensExpire(a) \/ CodesExpire(a) \/ LockEnds(a)

Spec == Init /\ [][Next]_vars

-----------------------------------------------------------------------------
Raced(g, a) == <<g, a>> \in raced
Pending(a, op) == {q \in Requests : Due(q, op) /\ req[q].acct = a}

(* An account is what its schema says. *)
TypeOK ==
    /\ kind \in [Accounts -> Kinds]
    /\ DOMAIN doc = Accounts
    /\ \A a \in Accounts : doc[a] \in
         IF Rider(a)
         THEN [known : BOOLEAN, active : BOOLEAN, verified : BOOLEAN, mustChange : BOOLEAN,
               code : 0..MaxCalls, device : Devices \union {NoDevice}, suspended : BOOLEAN,
               online : BOOLEAN, carrying : BOOLEAN]
         ELSE IF Admin(a)
         THEN [known : BOOLEAN, active : BOOLEAN, super : BOOLEAN, failed : 0..MaxCalls,
               locked : BOOLEAN]
         ELSE [known : BOOLEAN, active : BOOLEAN, confirmed : BOOLEAN, mail : 0..MaxCalls,
               code : 0..MaxCalls, addresses : SUBSET (1..MaxCalls)]
    /\ live \in [Accounts -> 0..MaxCalls]
    /\ \A q \in Requests : req[q] # Idle =>
         /\ req[q].acct \in Accounts
         /\ req[q].groups \subseteq
              {"session", "mail", "request", "code", "logout", "active", "address", "device",
               "toggle", "work", "papers", "reset", "attempt", "super"}
    /\ spent \in [1..MaxCalls -> Nat] /\ misses \in [Accounts -> Nat]
    /\ refused \subseteq 1..MaxCalls /\ unchecked \subseteq Devices \union {NoDevice}
    /\ demoted \in BOOLEAN /\ recalled \subseteq Accounts
    /\ calls \in 0..MaxCalls /\ faults \in 0..MaxFaults

(* An account has one refresh token, whatever logins, verifications, Google *)
(* sign-ins, logouts, expiries and failures come one after the other: the   *)
(* three generateRefreshToken.                                              *)
OneSession == \A a \in Accounts : live[a] <= 1 \/ Raced("session", a)

(* A reset code sets one password, by whichever of the two ways it is used. *)
CodeSpentOnce ==
    \A c \in 1..MaxCalls : spent[c] <= 1 \/ \E a \in Accounts : Raced("code", a)

(* createSavedAddress counts and then creates.  The requests that run       *)
(* beside it are all that can go past the limit.                            *)
AddressesBounded ==
    \A a \in Accounts : Customer(a) =>
        Cardinality(doc[a].addresses) + Cardinality(Pending(a, "addAddress"))
            < MaxAddresses + Cardinality(Requests)

(* A device belongs to one rider, but for devices bound without a look at   *)
(* the others and for two bindings at the same time: bindDevice.            *)
DeviceBoundOnce ==
    \A a, b \in Accounts :
        \/ a = b \/ ~Rider(a) \/ ~Rider(b) \/ doc[a].device # doc[b].device
        \/ doc[a].device \in unchecked \union {NoDevice}
        \/ Raced("device", a) \/ Raced("device", b)

(* Each account keeps within what its documents may hold.                   *)
AccountsAreSound == TypeOK /\ CodeSpentOnce /\ AddressesBounded /\ DeviceBoundOnce

(* After MAX_LOGIN_ATTEMPTS wrong passwords the account is locked, and once *)
(* the lock is over a single one locks it again: verifyAdmin, login.        *)
LockoutHolds ==
    \A a \in Accounts :
        \/ ~Admin(a) \/ Raced("attempt", a)
        \/ /\ misses[a] <= MaxAttempts
           /\ misses[a] > 0 /\ doc[a].failed >= MaxAttempts => doc[a].locked

(* Some super admin can act, unless one was given another role or two       *)
(* updates of admins overlapped: updateAdmin, deleteAdmin.                  *)
SuperRemains ==
    \/ \A a \in Accounts : ~Admin(a)
    \/ \E a \in Accounts : Admin(a) /\ doc[a].super /\ doc[a].active
    \/ demoted \/ \E a \in Accounts : Raced("super", a)

(* A suspended rider carries nothing, unless the rider went online or was   *)
(* assigned a delivery after the suspension, or either at the same time.    *)
SuspendedIsIdle ==
    \A a \in Accounts :
        Rider(a) /\ doc[a].suspended /\ doc[a].carrying => a \in recalled \/ Raced("work", a)

(* Whoever enters the code that was sent gets a new password: the refusal   *)
(* in resetPassword is for a code that is wrong or has expired.             *)
ValidCodeIsTaken == refused = {}
=============================================================================
