------------------------------ MODULE Billing ------------------------------
(***************************************************************************)
(* Subscriptions: controllers/billing.go, AdminUpdateUserTier of           *)
(* controllers/profile.go, workers/subscription_expirer.go, and the tier   *)
(* in the profile that GetMe (controllers/auth.go) caches.                 *)
(*                                                                         *)
(* One user, who may pay several orders.  PayOS is external: it takes the  *)
(* money, calls the webhook zero or more times, and answers queries.  A    *)
(* request is a handler between two of its statements: the two UPDATEs of  *)
(* an upgrade are not a transaction, the errors of both are ignored, and   *)
(* the process may stop between them.  Time is counted in days: a request  *)
(* and a GetMe end on the day they began.                                  *)
(***************************************************************************)
EXTENDS Naturals, FiniteSets

CONSTANTS
    Orders,     \* order codes
    Requests,   \* handlers that may run at a time
    Month,      \* days a payment buys
    LastDay,    \* bound on time
    MaxGifts,   \* bound on the tiers an administrator sets
    Nothing     \* no cached profile, no date, no order

ASSUME MonthAssumption == Month \in Nat \ {0} /\ LastDay \in Nat /\ MaxGifts \in Nat
ASSUME NothingAssumption == Nothing \notin Nat \cup {"FREE", "PRO", "ULTRA"} \cup Orders

Packages == {"PRO", "ULTRA"}
Tiers == Packages \cup {"FREE"}
Days == 0..LastDay
Dates == 0..(LastDay + Month)

VARIABLES
    status, package,      \* rows of payments; no row: status "none"
    paidOn,               \* history: the day on which the row became PAID
    link,                 \* PayOS: "none", "open", "paid"
    tier, tierExpiresAt,  \* the row of users
    gifts,                \* tiers an administrator has set
    req,                  \* the handlers at work
    cached,               \* user:profile in Redis: the tier in it
    loaded,               \* GetMe between its query and its SET
    today,
    failed                \* a statement failed, or the process stopped

payments == <<status, package, paidOn>>
user == <<tier, tierExpiresAt>>
profile == <<cached, loaded>>
vars == <<payments, link, user, gifts, req, profile, today, failed>>

Idle == [step |-> "idle", order |-> Nothing, expires |-> Nothing]

Init ==
    /\ status = [o \in Orders |-> "none"]
    /\ package = [o \in Orders |-> "PRO"]
    /\ paidOn = [o \in Orders |-> Nothing]
    /\ link = [o \in Orders |-> "none"]
    /\ tier = "FREE" /\ tierExpiresAt = Nothing
    /\ gifts = {}
    /\ req = [r \in Requests |-> Idle]
    /\ cached = Nothing /\ loaded = Nothing
    /\ today = 0
    /\ failed = FALSE

-----------------------------------------------------------------------------
(* CreatePaymentLink: the row, then the link.                              *)

InsertPayment(o) ==
    /\ status[o] = "none"
    /\ status' = [status EXCEPT ![o] = "PENDING"]
    /\ \E p \in Packages : package' = [package EXCEPT ![o] = p]
    /\ UNCHANGED <<paidOn, link, user, gifts, req, profile, today, failed>>

(* When PayOS refuses, the row stays PENDING.                              *)
OpenLink(o) ==
    /\ status[o] = "PENDING" /\ link[o] = "none"
    /\ link' = [link EXCEPT ![o] = "open"]
    /\ UNCHANGED <<payments, user, gifts, req, profile, today, failed>>

CustomerPays(o) ==
    /\ link[o] = "open"
    /\ link' = [link EXCEPT ![o] = "paid"]
    /\ UNCHANGED <<payments, user, gifts, req, profile, today, failed>>

-----------------------------------------------------------------------------
(* An upgrade.                                                             *)

Upgrade(o) == [step |-> "settle", order |-> o, expires |-> today + Month]

(* Mutant of NotYetPaid: every notice of a payment is taken for a new one. *)
NoticeIsNews(o) == status[o] # "none"

(* "status == PAID" ends the handler.                                      *)
NotYetPaid(o) == status[o] = "PENDING"

(* PayOSWebhook, up to its UPDATEs: a success for a row not yet PAID.      *)
WebhookReads(r, o) ==
    /\ req[r] = Idle
    /\ link[o] = "paid"
    /\ NotYetPaid(o)
    /\ req' = [req EXCEPT ![r] = Upgrade(o)]
    /\ UNCHANGED <<payments, link, user, gifts, profile, today, failed>>

(* VerifyPaymentClient reads the row,                                      *)
VerifyReads(r, o) ==
    /\ req[r] = Idle
    /\ NotYetPaid(o)
    /\ req' = [req EXCEPT ![r] = [Idle EXCEPT !.step = "ask", !.order = o]]
    /\ UNCHANGED <<payments, link, user, gifts, profile, today, failed>>

(* Mutant of Confirmed: an open link is good enough.                       *)
LinkExists(o) == link[o] # "none"

Confirmed(o) == link[o] = "paid"

(* and asks PayOS.                                                         *)
VerifyAsks(r) ==
    /\ req[r].step = "ask"
    /\ req' = [req EXCEPT ![r] = IF Confirmed(@.order) THEN Upgrade(@.order) ELSE Idle]
    /\ UNCHANGED <<payments, link, user, gifts, profile, today, failed>>

VerifyGivesUp(r) ==
    /\ req[r].step = "ask"
    /\ req' = [req EXCEPT ![r] = Idle]
    /\ UNCHANGED <<payments, link, user, gifts, profile, today, failed>>

(* Mutant of MarkPaid: PayOS's own word for it.                            *)
MarkSucceeded(o) ==
    /\ status' = [status EXCEPT ![o] = "SUCCESS"]
    /\ UNCHANGED paidOn

(* UPDATE payments SET status = 'PAID'.                                    *)
MarkPaid(o) ==
    /\ status' = [status EXCEPT ![o] = "PAID"]
    /\ paidOn' = [paidOn EXCEPT ![o] = IF status[o] = "PAID" THEN @ ELSE today]

Goes(r, step) == req' = [req EXCEPT ![r].step = step]

(* Mutant of Settle: the handler looks at the row again after its UPDATE,  *)
(* and finds the payment dealt with.                                       *)
SettleOnly(r) ==
    /\ req[r].step = "settle"
    /\ req' = [req EXCEPT ![r] = Idle]
    /\ MarkPaid(req[r].order)
    /\ UNCHANGED <<package, link, user, gifts, profile, today, failed>>

Settle(r) ==
    /\ req[r].step = "settle"
    /\ Goes(r, "grant")
    /\ MarkPaid(req[r].order)
    /\ UNCHANGED <<package, link, user, gifts, profile, today, failed>>

Grant(r) ==
    /\ req[r].step = "grant"
    /\ Goes(r, "uncache")
    /\ tier' = package[req[r].order]
    /\ tierExpiresAt' = req[r].expires
    /\ UNCHANGED <<payments, link, gifts, profile, today, failed>>

Uncache(r) ==
    /\ req[r].step = "uncache"
    /\ req' = [req EXCEPT ![r] = Idle]
    /\ cached' = Nothing
    /\ UNCHANGED <<payments, link, user, gifts, loaded, today, failed>>

(* A statement fails; the handler goes on all the same.                    *)
StatementFails(r) ==
    /\ ~failed
    /\ failed' = TRUE
    /\ \/ req[r].step = "settle" /\ Goes(r, "grant")
       \/ req[r].step = "grant" /\ Goes(r, "uncache")
       \/ req[r].step = "uncache" /\ req' = [req EXCEPT ![r] = Idle]
    /\ UNCHANGED <<payments, link, user, gifts, profile, today>>

(* The process stops, and starts again with nothing in hand.               *)
Crash ==
    /\ ~failed
    /\ \E r \in Requests : req[r] # Idle
    /\ failed' = TRUE
    /\ req' = [r \in Requests |-> Idle]
    /\ loaded' = Nothing
    /\ UNCHANGED <<payments, link, user, gifts, cached, today>>

-----------------------------------------------------------------------------

(* AdminUpdateUserTier: tier_expires_at stays as it is.                    *)
AdminSetsTier(r) ==
    /\ req[r] = Idle
    /\ Cardinality(gifts) < MaxGifts
    /\ \E t \in Tiers : tier' = t /\ gifts' = gifts \cup {t}
    /\ req' = [req EXCEPT ![r] = [Idle EXCEPT !.step = "uncache"]]
    /\ UNCHANGED <<payments, link, tierExpiresAt, profile, today, failed>>

Expired == tierExpiresAt # Nothing /\ tierExpiresAt < today

(* runSubscriptionExpiry: one UPDATE; the cached profile stays.            *)
ExpireSubscription ==
    /\ tier # "FREE" /\ Expired
    /\ tier' = "FREE" /\ tierExpiresAt' = Nothing
    /\ UNCHANGED <<payments, link, gifts, req, profile, today, failed>>

(* GetMe, when nothing is cached.                                          *)
LoadProfile ==
    /\ cached = Nothing /\ loaded = Nothing
    /\ loaded' = tier
    /\ UNCHANGED <<payments, link, user, gifts, req, cached, today, failed>>

CacheProfile ==
    /\ loaded # Nothing
    /\ cached' = loaded /\ loaded' = Nothing
    /\ UNCHANGED <<payments, link, user, gifts, req, today, failed>>

(* Thirty minutes later.                                                   *)
ProfileExpires ==
    /\ cached # Nothing
    /\ cached' = Nothing
    /\ UNCHANGED <<payments, link, user, gifts, req, loaded, today, failed>>

NextDay ==
    /\ today < LastDay
    /\ \A r \in Requests : req[r] = Idle
    /\ loaded = Nothing
    /\ today' = today + 1
    /\ UNCHANGED <<payments, link, user, gifts, req, profile, failed>>

Next ==
    \/ \E o \in Orders : \/ InsertPayment(o) \/ OpenLink(o) \/ CustomerPays(o)
                         \/ \E r \in Requests : WebhookReads(r, o) \/ VerifyReads(r, o)
    \/ \E r \in Requests : \/ VerifyAsks(r) \/ VerifyGivesUp(r) \/ Settle(r) \/ Grant(r)
                           \/ Uncache(r) \/ StatementFails(r) \/ AdminSetsTier(r)
    \/ Crash \/ ExpireSubscription
    \/ LoadProfile \/ CacheProfile \/ ProfileExpires
    \/ NextDay

Spec == Init /\ [][Next]_vars

-----------------------------------------------------------------------------
(* Properties.                                                             *)

(* Every variable keeps its type.                                          *)
TypeOK ==
    /\ status \in [Orders -> {"none", "PENDING", "PAID"}]
    /\ package \in [Orders -> Packages]
    /\ paidOn \in [Orders -> Days \cup {Nothing}]
    /\ link \in [Orders -> {"none", "open", "paid"}]
    /\ tier \in Tiers /\ tierExpiresAt \in Dates \cup {Nothing}
    /\ gifts \subseteq Tiers
    /\ req \in [Requests -> [step : {"idle", "ask", "settle", "grant", "uncache"},
                             order : Orders \cup {Nothing},
                             expires : Dates \cup {Nothing}]]
    /\ cached \in Tiers \cup {Nothing} /\ loaded \in Tiers \cup {Nothing}
    /\ today \in Days
    /\ failed \in BOOLEAN

Quiet(o) == \A r \in Requests : req[r].order # o

(* The user has a package only if PayOS has been paid for an order of that *)
(* package, or an administrator has set it (PayOSWebhook and               *)
(* VerifyPaymentClient upgrade to the package of the row).                 *)
TierIsEarned ==
    tier # "FREE" =>
        \/ tier \in gifts
        \/ \E o \in Orders : link[o] = "paid" /\ package[o] = tier

(* A paid month is a month: unless a statement failed, a payment that has  *)
(* been dealt with keeps the subscription alive for Month days, whatever   *)
(* the webhook, the client's query, the daily job and other payments do    *)
(* meanwhile; only an administrator can set the user to FREE.              *)
PaidMonthIsKept ==
    \A o \in {p \in Orders : status[p] = "PAID" /\ Quiet(p)} :
        ~failed /\ today <= paidOn[o] + Month =>
            /\ tierExpiresAt # Nothing /\ tierExpiresAt >= paidOn[o] + Month
            /\ tier # "FREE" \/ "FREE" \in gifts

(* The user has a package that was paid for or given, and a month that was *)
(* paid for is not cut short.                                              *)
TierIsPaid == TierIsEarned /\ PaidMonthIsKept

(* One payment buys one month: unless a statement failed, the subscription *)
(* ends Month days after the day on which some payment became PAID,        *)
(* however often and however late PayOS or the client repeat the notice.   *)
NoMonthUnpaid ==
    ~failed /\ tierExpiresAt # Nothing =>
        \E o \in Orders : status[o] = "PAID" /\ tierExpiresAt = paidOn[o] + Month
=============================================================================
