--------------------------- MODULE ServicesProofs ---------------------------
(***************************************************************************)
(* Proofs about the services of a user, for any values of the constants:   *)
(* every invariant that MCServices checks, and UsageNeverShrinks.          *)
(*                                                                         *)
(* Of Billing: that one payment buys one month, and that a tier is paid    *)
(* for or given and a paid month not cut short.  Of AuthTokens, whose      *)
(* proofs are in AuthTokensProofs: its invariants beside the other         *)
(* services.  Of RateLimit: WindowIsBounded.  Of FlashCards: the quota,    *)
(* the repetitions and the cached sets.  Of Progress: badges, streaks and  *)
(* plans.  Of KeyQuota: the database's use of a key never shrinks, and     *)
(* Redis shows the quota in use.  The types are part of each invariant.    *)
(***************************************************************************)
EXTENDS MCServices, Integers, Sequences, FiniteSetTheorems, TLAPS

-----------------------------------------------------------------------------
(* Billing.                                                                *)

HandlerStep == {"idle", "ask", "settle", "grant", "uncache"}
Handler == [step : HandlerStep, order : Orders \cup {Nothing},
            expires : Dates \cup {Nothing}]

(* A handler at work on an order knows which, and the date it will write.  *)
KnowsItsOrder(r) ==
    /\ req[r].step \in {"ask", "settle", "grant"} => req[r].order \in Orders
    /\ req[r].step \in {"settle", "grant"} => req[r].expires = today + Month

(* The order of a handler that found it PENDING is so still, or was paid   *)
(* by another handler today; after its own UPDATE it is paid today.        *)
PaidToday(o) == status[o] = "PAID" /\ paidOn[o] = today

OrderIsFresh(r) ==
    /\ req[r].step \in {"ask", "settle"} =>
          status[req[r].order] = "PENDING" \/ PaidToday(req[r].order)
    /\ req[r].step = "grant" /\ ~failed => PaidToday(req[r].order)

HandlersOK == \A r \in Requests : KnowsItsOrder(r) /\ OrderIsFresh(r)

IInv == TypeOK /\ HandlersOK /\ NoMonthUnpaid

-----------------------------------------------------------------------------
(* Initial states.                                                         *)

LEMMA InitOK == Init => IInv
  <1> SUFFICES ASSUME Init PROVE IInv
    OBVIOUS
  <1>1. Nothing \in Dates \cup {Nothing} /\ 0 \in Days
    BY MonthAssumption DEF Days
  <1>2. Idle \in Handler
    BY <1>1 DEF Idle, Handler, HandlerStep
  <1>3. req \in [Requests -> Handler]
    BY <1>2 DEF Init
  <1>4. status \in [Orders -> {"none", "PENDING", "PAID"}]
    BY DEF Init
  <1>5. package \in [Orders -> Packages] /\ tier \in Tiers
    BY DEF Init, Packages, Tiers
  <1>6. paidOn \in [Orders -> Days \cup {Nothing}]
    BY DEF Init
  <1>7. TypeOK
    BY <1>1, <1>3, <1>4, <1>5, <1>6 DEF TypeOK, Init, Handler, HandlerStep
  <1>8. HandlersOK
    BY DEF Init, HandlersOK, KnowsItsOrder, OrderIsFresh, Idle
  <1>9. NoMonthUnpaid
    BY DEF Init, NoMonthUnpaid
  <1> QED
    BY <1>7, <1>8, <1>9 DEF IInv

-----------------------------------------------------------------------------
(* What an action does to the handlers.                                    *)

LEMMA IdleIsHandler == Idle \in Handler
  BY DEF Idle, Handler, HandlerStep

LEMMA UpgradeIsHandler ==
  ASSUME TypeOK, NEW o \in Orders
  PROVE  Upgrade(o) \in Handler
  <1>1. today + Month \in Dates
    BY MonthAssumption DEF TypeOK, Days, Dates
  <1> QED
    BY <1>1 DEF Upgrade, Handler, HandlerStep

(* One handler changes, to what is a handler.                              *)
LEMMA HandlerType ==
  ASSUME TypeOK, NEW r \in Requests, NEW hd \in Handler,
         req' = [req EXCEPT ![r] = hd]
  PROVE  /\ req' \in [Requests -> Handler]
         /\ req'[r] = hd
         /\ \A q \in Requests \ {r} : req'[q] = req[q]
  BY DEF TypeOK, Handler, HandlerStep

LEMMA GoesType ==
  ASSUME TypeOK, NEW r \in Requests, NEW s \in HandlerStep, Goes(r, s)
  PROVE  /\ req' \in [Requests -> Handler]
         /\ req'[r].step = s
         /\ req'[r].order = req[r].order
         /\ req'[r].expires = req[r].expires
         /\ \A q \in Requests \ {r} : req'[q] = req[q]
  <1> DEFINE hd == [req[r] EXCEPT !.step = s]
  <1>1. req[r] \in Handler
    BY DEF TypeOK, Handler, HandlerStep
  <1>2. hd \in Handler /\ hd.step = s /\ hd.order = req[r].order
        /\ hd.expires = req[r].expires
    BY <1>1 DEF Handler
  <1>3. req' = [req EXCEPT ![r] = hd]
    BY DEF Goes
  <1> HIDE DEF hd
  <1> QED
    BY <1>2, <1>3, HandlerType

(* Where the rows of payments, the day and the failure stay as they are,   *)
(* only the handler that moves has something to show.                      *)
LEMMA OthersKeep ==
  ASSUME HandlersOK, UNCHANGED <<status, paidOn, today, failed>>, NEW r \in Requests,
         \A q \in Requests \ {r} : req'[q] = req[q],
         KnowsItsOrder(r)', OrderIsFresh(r)'
  PROVE  HandlersOK'
  BY DEF HandlersOK, KnowsItsOrder, OrderIsFresh, PaidToday

(* A handler with no order to deal with has nothing to show.               *)
LEMMA RestingKeeps ==
  ASSUME HandlersOK, UNCHANGED <<status, paidOn, today, failed>>, NEW r \in Requests,
         \A q \in Requests \ {r} : req'[q] = req[q],
         req'[r].step \in {"idle", "uncache"}
  PROVE  HandlersOK'
  <1>1. KnowsItsOrder(r)' /\ OrderIsFresh(r)'
    BY DEF KnowsItsOrder, OrderIsFresh
  <1> QED
    BY <1>1, OthersKeep

LEMMA IdleStep == Idle.step = "idle"
  BY DEF Idle

LEMMA UpgradeFields ==
  ASSUME NEW o \in Orders
  PROVE  /\ Upgrade(o).step = "settle" /\ Upgrade(o).order = o
         /\ Upgrade(o).expires = today + Month
  BY DEF Upgrade

LEMMA MonthKeeps ==
  ASSUME NoMonthUnpaid, UNCHANGED <<status, paidOn, tierExpiresAt, failed>>
  PROVE  NoMonthUnpaid'
  BY DEF NoMonthUnpaid

-----------------------------------------------------------------------------
(* Steps.                                                                  *)

LEMMA InsertPaymentOK ==
  ASSUME IInv, NEW o \in Orders, InsertPayment(o)
  PROVE  IInv'
  <1> USE DEF IInv, payments, user, profile
  <1>1. TypeOK'
    BY DEF TypeOK, InsertPayment
  <1>2. /\ UNCHANGED <<paidOn, req, today, failed, tierExpiresAt>>
        /\ status[o] = "none"
        /\ \A q \in Orders : q # o => status'[q] = status[q]
    BY DEF InsertPayment, TypeOK
  <1>3. \A r \in Requests : (KnowsItsOrder(r) /\ OrderIsFresh(r))'
    <2> TAKE r \in Requests
    <2>1. KnowsItsOrder(r) /\ OrderIsFresh(r)
      BY DEF HandlersOK
    <2>2. KnowsItsOrder(r)'
      BY <1>2, <2>1 DEF KnowsItsOrder
    <2>3. OrderIsFresh(r)'
      BY <1>2, <2>1 DEF KnowsItsOrder, OrderIsFresh, PaidToday
    <2> QED
      BY <2>2, <2>3
  <1>4. NoMonthUnpaid'
    BY <1>2 DEF NoMonthUnpaid
  <1> QED
    BY <1>1, <1>3, <1>4 DEF HandlersOK

LEMMA LinkOK ==
  ASSUME IInv, NEW o \in Orders, OpenLink(o) \/ CustomerPays(o)
  PROVE  IInv'
  <1> USE DEF IInv, payments, user, profile
  <1>1. TypeOK'
    BY DEF TypeOK, OpenLink, CustomerPays
  <1>2. UNCHANGED <<status, paidOn, req, today, failed, tierExpiresAt>>
    BY DEF OpenLink, CustomerPays
  <1> QED
    BY <1>1, <1>2, MonthKeeps DEF HandlersOK, KnowsItsOrder, OrderIsFresh, PaidToday

LEMMA WebhookReadsOK ==
  ASSUME IInv, NEW r \in Requests, NEW o \in Orders, WebhookReads(r, o)
  PROVE  IInv'
  <1> USE DEF IInv, payments, user, profile
  <1>1. /\ req' \in [Requests -> Handler]
        /\ req'[r] = Upgrade(o)
        /\ \A q \in Requests \ {r} : req'[q] = req[q]
    BY UpgradeIsHandler, HandlerType DEF WebhookReads
  <1>2. TypeOK'
    BY <1>1 DEF TypeOK, WebhookReads, Handler, HandlerStep
  <1>3. /\ UNCHANGED <<status, paidOn, today, failed, tierExpiresAt>>
        /\ status[o] = "PENDING"
    BY DEF WebhookReads, NotYetPaid
  <1>4. KnowsItsOrder(r)' /\ OrderIsFresh(r)'
    BY <1>1, <1>3, UpgradeFields DEF KnowsItsOrder, OrderIsFresh
  <1> QED
    BY <1>1, <1>2, <1>3, <1>4, OthersKeep, MonthKeeps

LEMMA VerifyReadsOK ==
  ASSUME IInv, NEW r \in Requests, NEW o \in Orders, VerifyReads(r, o)
  PROVE  IInv'
  <1> USE DEF IInv, payments, user, profile
  <1> DEFINE hd == [Idle EXCEPT !.step = "ask", !.order = o]
  <1>1. hd \in Handler /\ hd.step = "ask" /\ hd.order = o
    BY DEF Idle, Handler, HandlerStep
  <1>2. req' = [req EXCEPT ![r] = hd]
    BY DEF VerifyReads
  <1>3. /\ UNCHANGED <<status, paidOn, today, failed, tierExpiresAt>>
        /\ status[o] = "PENDING"
    BY DEF VerifyReads, NotYetPaid
  <1> HIDE DEF hd
  <1>4. /\ req' \in [Requests -> Handler]
        /\ req'[r] = hd
        /\ \A q \in Requests \ {r} : req'[q] = req[q]
    BY <1>1, <1>2, HandlerType
  <1>5. TypeOK'
    BY <1>4 DEF TypeOK, VerifyReads, Handler, HandlerStep
  <1>6. KnowsItsOrder(r)' /\ OrderIsFresh(r)'
    BY <1>1, <1>3, <1>4 DEF KnowsItsOrder, OrderIsFresh
  <1> QED
    BY <1>3, <1>4, <1>5, <1>6, OthersKeep, MonthKeeps

LEMMA VerifyAsksOK ==
  ASSUME IInv, NEW r \in Requests, VerifyAsks(r)
  PROVE  IInv'
  <1> USE DEF IInv, payments, user, profile
  <1> DEFINE o == req[r].order
             hd == IF Confirmed(o) THEN Upgrade(o) ELSE Idle
  <1>1. /\ o \in Orders
        /\ status[o] = "PENDING" \/ PaidToday(o)
    BY DEF VerifyAsks, HandlersOK, KnowsItsOrder, OrderIsFresh
  <1>2. req' = [req EXCEPT ![r] = hd]
    BY DEF VerifyAsks, TypeOK
  <1>3. UNCHANGED <<status, paidOn, today, failed, tierExpiresAt>>
    BY DEF VerifyAsks
  <1>4. hd \in Handler
    BY <1>1, UpgradeIsHandler, IdleIsHandler
  <1>5. \/ hd.step = "idle"
        \/ hd.step = "settle" /\ hd.order = o /\ hd.expires = today + Month
    BY <1>1, IdleStep, UpgradeFields
  <1> HIDE DEF hd, o
  <1>6. /\ req' \in [Requests -> Handler]
        /\ req'[r] = hd
        /\ \A q \in Requests \ {r} : req'[q] = req[q]
    BY <1>2, <1>4, HandlerType
  <1>7. TypeOK'
    BY <1>6 DEF TypeOK, VerifyAsks, Handler, HandlerStep
  <1>8. KnowsItsOrder(r)' /\ OrderIsFresh(r)'
    BY <1>1, <1>3, <1>5, <1>6 DEF KnowsItsOrder, OrderIsFresh, PaidToday
  <1> QED
    BY <1>3, <1>6, <1>7, <1>8, OthersKeep, MonthKeeps

LEMMA ToIdleOK ==
  ASSUME IInv, NEW r \in Requests, VerifyGivesUp(r) \/ Uncache(r)
  PROVE  IInv'
  <1> USE DEF IInv, payments, user, profile
  <1>1. /\ req' \in [Requests -> Handler]
        /\ req'[r] = Idle
        /\ \A q \in Requests \ {r} : req'[q] = req[q]
    BY IdleIsHandler, HandlerType DEF VerifyGivesUp, Uncache
  <1>2. TypeOK'
    BY <1>1 DEF TypeOK, VerifyGivesUp, Uncache, Handler, HandlerStep
  <1>3. UNCHANGED <<status, paidOn, today, failed, tierExpiresAt>>
    BY DEF VerifyGivesUp, Uncache
  <1> QED
    BY <1>1, <1>2, <1>3, IdleStep, RestingKeeps, MonthKeeps

LEMMA SettleOK ==
  ASSUME IInv, NEW r \in Requests, Settle(r)
  PROVE  IInv'
  <1> USE DEF IInv, payments, user, profile
  <1> DEFINE o == req[r].order
  <1>1. /\ o \in Orders
        /\ status[o] = "PENDING" \/ PaidToday(o)
        /\ req[r].expires = today + Month
    BY DEF Settle, HandlersOK, KnowsItsOrder, OrderIsFresh
  <1>2. /\ status' \in [Orders -> {"none", "PENDING", "PAID"}]
        /\ paidOn' \in [Orders -> Days \cup {Nothing}]
    BY <1>1 DEF Settle, MarkPaid, TypeOK
  <1>3. /\ req' \in [Requests -> Handler]
        /\ req'[r].step = "grant"
        /\ req'[r].order = o
        /\ req'[r].expires = req[r].expires
        /\ \A q \in Requests \ {r} : req'[q] = req[q]
    BY GoesType DEF Settle, HandlerStep
  <1>4. TypeOK'
    BY <1>2, <1>3 DEF TypeOK, Settle, Handler, HandlerStep
  <1>5. UNCHANGED <<today, failed, tierExpiresAt>>
    BY DEF Settle
  <1>6. /\ status'[o] = "PAID" /\ paidOn'[o] = today
        /\ \A p \in Orders : p # o => status'[p] = status[p] /\ paidOn'[p] = paidOn[p]
    BY <1>1 DEF Settle, MarkPaid, TypeOK, PaidToday
  <1> HIDE DEF o
  <1>7. \A q \in Requests : (KnowsItsOrder(q) /\ OrderIsFresh(q))'
    <2> TAKE q \in Requests
    <2>1. CASE q = r
      BY <2>1, <1>1, <1>3, <1>5, <1>6 DEF KnowsItsOrder, OrderIsFresh, PaidToday
    <2>2. CASE q # r
      <3>1. KnowsItsOrder(q) /\ OrderIsFresh(q) /\ req'[q] = req[q]
        BY <2>2, <1>3 DEF HandlersOK
      <3> QED
        BY <3>1, <1>5, <1>6 DEF KnowsItsOrder, OrderIsFresh, PaidToday
    <2> QED
      BY <2>1, <2>2
  <1>8. NoMonthUnpaid'
    <2> SUFFICES ASSUME ~failed, tierExpiresAt # Nothing
                 PROVE  \E p \in Orders :
                            status'[p] = "PAID" /\ tierExpiresAt = paidOn'[p] + Month
      BY <1>5 DEF NoMonthUnpaid
    <2>1. PICK p \in Orders : status[p] = "PAID" /\ tierExpiresAt = paidOn[p] + Month
      BY DEF NoMonthUnpaid
    <2>2. status'[p] = "PAID" /\ paidOn'[p] = paidOn[p]
      BY <2>1, <1>1, <1>6 DEF PaidToday
    <2> QED
      BY <2>1, <2>2
  <1> QED
    BY <1>4, <1>7, <1>8 DEF HandlersOK

LEMMA GrantOK ==
  ASSUME IInv, NEW r \in Requests, Grant(r)
  PROVE  IInv'
  <1> USE DEF IInv, payments, user, profile
  <1> DEFINE o == req[r].order
  <1>1. /\ o \in Orders
        /\ ~failed => PaidToday(o)
        /\ req[r].expires = today + Month
    BY DEF Grant, HandlersOK, KnowsItsOrder, OrderIsFresh
  <1>2. /\ tier' = package[o]
        /\ tierExpiresAt' = today + Month
        /\ UNCHANGED <<status, paidOn, today, failed>>
    BY <1>1 DEF Grant
  <1>3. tier' \in Tiers /\ tierExpiresAt' \in Dates
    BY <1>1, <1>2, MonthAssumption DEF TypeOK, Tiers, Days, Dates
  <1>4. /\ req' \in [Requests -> Handler]
        /\ req'[r].step = "uncache"
        /\ \A q \in Requests \ {r} : req'[q] = req[q]
    BY GoesType DEF Grant, HandlerStep
  <1>5. TypeOK'
    BY <1>3, <1>4 DEF TypeOK, Grant, Handler, HandlerStep
  <1>6. NoMonthUnpaid'
    BY <1>1, <1>2 DEF NoMonthUnpaid, PaidToday
  <1> QED
    BY <1>2, <1>4, <1>5, <1>6, RestingKeeps

LEMMA StatementFailsOK ==
  ASSUME IInv, NEW r \in Requests, StatementFails(r)
  PROVE  IInv'
  <1> USE DEF IInv, payments, user, profile
  <1>1. failed' = TRUE /\ UNCHANGED <<status, paidOn, today>>
    BY DEF StatementFails
  <1>2. /\ req' \in [Requests -> Handler]
        /\ \A q \in Requests \ {r} : req'[q] = req[q]
        /\ \/ req'[r].step \in {"idle", "uncache"}
           \/ /\ req[r].step = "settle" /\ req'[r].step = "grant"
              /\ req'[r].order = req[r].order /\ req'[r].expires = req[r].expires
    <2>1. CASE req[r].step = "settle" /\ Goes(r, "grant")
      BY <2>1, GoesType DEF HandlerStep
    <2>2. CASE req[r].step = "grant" /\ Goes(r, "uncache")
      BY <2>2, GoesType DEF HandlerStep
    <2>3. CASE req[r].step = "uncache" /\ req' = [req EXCEPT ![r] = Idle]
      BY <2>3, IdleIsHandler, IdleStep, HandlerType
    <2> QED
      BY <2>1, <2>2, <2>3 DEF StatementFails
  <1>3. TypeOK'
    BY <1>2 DEF TypeOK, StatementFails, Handler, HandlerStep
  <1>4. \A q \in Requests : (KnowsItsOrder(q) /\ OrderIsFresh(q))'
    <2> TAKE q \in Requests
    <2>1. KnowsItsOrder(q) /\ OrderIsFresh(q)
      BY DEF HandlersOK
    <2>2. CASE q = r
      BY <2>1, <2>2, <1>1, <1>2 DEF KnowsItsOrder, OrderIsFresh
    <2>3. CASE q # r
      BY <2>1, <2>3, <1>1, <1>2 DEF KnowsItsOrder, OrderIsFresh, PaidToday
    <2> QED
      BY <2>2, <2>3
  <1>5. NoMonthUnpaid'
    BY <1>1 DEF NoMonthUnpaid
  <1> QED
    BY <1>3, <1>4, <1>5 DEF HandlersOK

LEMMA CrashOK ==
  ASSUME IInv, Crash
  PROVE  IInv'
  <1> USE DEF IInv, payments, user, profile
  <1>1. failed' = TRUE /\ \A q \in Requests : req'[q] = Idle
    BY DEF Crash
  <1>2. req' \in [Requests -> Handler]
    BY IdleIsHandler DEF Crash
  <1>3. TypeOK'
    BY <1>2 DEF TypeOK, Crash, Handler, HandlerStep
  <1>4. HandlersOK'
    BY <1>1, IdleStep DEF HandlersOK, KnowsItsOrder, OrderIsFresh
  <1> QED
    BY <1>1, <1>3, <1>4 DEF NoMonthUnpaid

LEMMA AdminSetsTierOK ==
  ASSUME IInv, NEW r \in Requests, AdminSetsTier(r)
  PROVE  IInv'
  <1> USE DEF IInv, payments, user, profile
  <1> DEFINE hd == [Idle EXCEPT !.step = "uncache"]
  <1>1. hd \in Handler /\ hd.step = "uncache"
    BY DEF Idle, Handler, HandlerStep
  <1>2. /\ req' = [req EXCEPT ![r] = hd]
        /\ UNCHANGED <<status, paidOn, today, failed, tierExpiresAt>>
    BY DEF AdminSetsTier
  <1> HIDE DEF hd
  <1>3. /\ req' \in [Requests -> Handler]
        /\ req'[r] = hd
        /\ \A q \in Requests \ {r} : req'[q] = req[q]
    BY <1>1, <1>2, HandlerType
  <1>4. tier' \in Tiers /\ gifts' \subseteq Tiers
    BY DEF AdminSetsTier, TypeOK
  <1>5. TypeOK'
    BY <1>3, <1>4 DEF TypeOK, AdminSetsTier, Handler, HandlerStep
  <1> QED
    BY <1>1, <1>2, <1>3, <1>5, RestingKeeps, MonthKeeps

LEMMA ExpireSubscriptionOK ==
  ASSUME IInv, ExpireSubscription
  PROVE  IInv'
  <1> USE DEF IInv, payments, user, profile
  <1>1. TypeOK'
    BY DEF TypeOK, ExpireSubscription, Tiers
  <1>2. tierExpiresAt' = Nothing /\ UNCHANGED <<status, paidOn, req, today, failed>>
    BY DEF ExpireSubscription
  <1> QED
    BY <1>1, <1>2 DEF NoMonthUnpaid, HandlersOK, KnowsItsOrder, OrderIsFresh, PaidToday

LEMMA ProfileOK ==
  ASSUME IInv, LoadProfile \/ CacheProfile \/ ProfileExpires
  PROVE  IInv'
  <1> USE DEF IInv, payments, user, profile
  <1>1. TypeOK'
    BY DEF TypeOK, LoadProfile, CacheProfile, ProfileExpires
  <1>2. UNCHANGED <<status, paidOn, req, today, failed, tierExpiresAt>>
    BY DEF LoadProfile, CacheProfile, ProfileExpires
  <1> QED
    BY <1>1, <1>2, MonthKeeps DEF HandlersOK, KnowsItsOrder, OrderIsFresh, PaidToday

(* The day does not end while a handler is at work.                        *)
LEMMA NextDayOK ==
  ASSUME IInv, NextDay
  PROVE  IInv'
  <1> USE DEF IInv, payments, user, profile
  <1>1. /\ today' \in Days
        /\ UNCHANGED <<status, paidOn, failed, tierExpiresAt>>
        /\ \A q \in Requests : req'[q] = Idle
    BY MonthAssumption DEF NextDay, TypeOK, Days
  <1>2. TypeOK'
    BY <1>1 DEF TypeOK, NextDay
  <1>3. HandlersOK'
    BY <1>1, IdleStep DEF HandlersOK, KnowsItsOrder, OrderIsFresh
  <1> QED
    BY <1>1, <1>2, <1>3, MonthKeeps

LEMMA StepOK == IInv /\ [Next]_vars => IInv'
  <1> SUFFICES ASSUME IInv, [Next]_vars
               PROVE  IInv'
    OBVIOUS
  <1>1. CASE UNCHANGED vars
    BY <1>1, MonthKeeps DEF IInv, vars, payments, user, profile, TypeOK,
       HandlersOK, KnowsItsOrder, OrderIsFresh, PaidToday
  <1>2. CASE Next
    <2>1. CASE \E o \in Orders : \/ InsertPayment(o) \/ OpenLink(o) \/ CustomerPays(o)
                                 \/ \E r \in Requests : WebhookReads(r, o) \/ VerifyReads(r, o)
      BY <2>1, InsertPaymentOK, LinkOK, WebhookReadsOK, VerifyReadsOK
    <2>2. CASE \E r \in Requests : \/ VerifyAsks(r) \/ VerifyGivesUp(r) \/ Settle(r)
                                   \/ Grant(r) \/ Uncache(r) \/ StatementFails(r)
                                   \/ AdminSetsTier(r)
      BY <2>2, VerifyAsksOK, ToIdleOK, SettleOK, GrantOK, StatementFailsOK, AdminSetsTierOK
    <2>3. CASE Crash \/ ExpireSubscription \/ LoadProfile \/ CacheProfile
               \/ ProfileExpires \/ NextDay
      BY <2>3, CrashOK, ExpireSubscriptionOK, ProfileOK, NextDayOK
    <2> QED
      BY <1>2, <2>1, <2>2, <2>3 DEF Next
  <1> QED
    BY <1>1, <1>2

LEMMA InductiveInvariant == Spec => []IInv
  BY InitOK, StepOK, PTL DEF Spec

-----------------------------------------------------------------------------
(* A tier is earned.                                                       *)

Upgrading(r) == req[r].step \in {"settle", "grant"}

(* A link is of an order that has its row, with its package; a handler     *)
(* upgrades for an order that PayOS has been paid for.                     *)
EarnedInv ==
    /\ TierIsEarned
    /\ \A o \in Orders : link[o] # "none" => status[o] # "none"
    /\ \A r \in Requests : Upgrading(r) => link[req[r].order] = "paid"

LEMMA EarnedInit == Init => EarnedInv
  BY DEF Init, EarnedInv, TierIsEarned, Upgrading, Idle

(* Where no handler turns to an upgrade.                                   *)
LEMMA EarnedKeeps ==
  ASSUME EarnedInv, UNCHANGED <<tier, gifts, link, package>>,
         \A o \in Orders : status[o] # "none" => status'[o] # "none",
         \A r \in Requests : Upgrading(r)' => Upgrading(r) /\ req'[r].order = req[r].order
  PROVE  EarnedInv'
  BY DEF EarnedInv, TierIsEarned

(* Neither does a handler that goes on to another step, or rests.          *)
LEMMA MoverUpgrades ==
  ASSUME NEW r \in Requests,
         \A q \in Requests \ {r} : req'[q] = req[q],
         Upgrading(r)' => Upgrading(r) /\ req'[r].order = req[r].order
  PROVE  \A q \in Requests : Upgrading(q)' => Upgrading(q) /\ req'[q].order = req[q].order
  BY DEF Upgrading

LEMMA EarnedByPayments ==
  ASSUME IInv, EarnedInv, NEW o \in Orders,
         InsertPayment(o) \/ OpenLink(o) \/ CustomerPays(o)
  PROVE  EarnedInv'
  <1> USE DEF payments, user, profile
  <1>1. CASE InsertPayment(o)
    <2>1. /\ status[o] = "none" /\ link[o] = "none"
          /\ \A q \in Orders : q # o => status'[q] = status[q] /\ package'[q] = package[q]
          /\ status'[o] = "PENDING"
          /\ UNCHANGED <<tier, gifts, link, req>>
      BY <1>1 DEF InsertPayment, EarnedInv, IInv, TypeOK
    <2>2. TierIsEarned'
      BY <2>1 DEF EarnedInv, TierIsEarned
    <2> QED
      BY <2>1, <2>2 DEF EarnedInv, Upgrading
  <1>2. CASE OpenLink(o) \/ CustomerPays(o)
    <2>1. /\ UNCHANGED <<tier, gifts, package, req, status>>
          /\ status[o] # "none"
          /\ \A q \in Orders : q # o => link'[q] = link[q]
          /\ link[o] # "paid" /\ link'[o] \in {"open", "paid"}
      BY <1>2 DEF OpenLink, CustomerPays, EarnedInv, IInv, TypeOK
    <2>2. \A q \in Orders : link[q] = "paid" => link'[q] = "paid"
      BY <2>1
    <2>3. TierIsEarned'
      BY <2>1, <2>2 DEF EarnedInv, TierIsEarned
    <2>4. \A r \in Requests : Upgrading(r)' => link'[req'[r].order] = "paid"
      <3> SUFFICES ASSUME NEW r \in Requests, Upgrading(r)
                   PROVE  link'[req[r].order] = "paid"
        BY <2>1 DEF Upgrading
      <3>1. req[r].order \in Orders
        BY DEF Upgrading, IInv, HandlersOK, KnowsItsOrder
      <3> QED
        BY <3>1, <2>2 DEF EarnedInv
    <2> QED
      BY <2>1, <2>3, <2>4 DEF EarnedInv
  <1> QED
    BY <1>1, <1>2

(* PayOS says that the order is paid.                                      *)
LEMMA EarnedByReads ==
  ASSUME IInv, EarnedInv, NEW r \in Requests,
         \/ \E o \in Orders : WebhookReads(r, o) \/ VerifyReads(r, o)
         \/ VerifyAsks(r)
  PROVE  EarnedInv'
  <1> USE DEF payments, user, profile
  <1>1. UNCHANGED <<tier, gifts, link, package, status>>
    BY DEF WebhookReads, VerifyReads, VerifyAsks
  <1>2. /\ \A q \in Requests \ {r} : req'[q] = req[q]
        /\ Upgrading(r)' => link[req'[r].order] = "paid"
    <2>1. CASE \E o \in Orders : WebhookReads(r, o)
      <3>1. PICK o \in Orders : link[o] = "paid" /\ req' = [req EXCEPT ![r] = Upgrade(o)]
        BY <2>1 DEF WebhookReads
      <3>2. req'[r] = Upgrade(o) /\ \A q \in Requests \ {r} : req'[q] = req[q]
        BY <3>1, UpgradeIsHandler, HandlerType DEF IInv
      <3> QED
        BY <3>1, <3>2, UpgradeFields
    <2>2. CASE \E o \in Orders : VerifyReads(r, o)
      <3>1. PICK o \in Orders : VerifyReads(r, o)
        BY <2>2
      <3> DEFINE hd == [Idle EXCEPT !.step = "ask", !.order = o]
      <3>2. hd \in Handler /\ hd.step = "ask"
        BY DEF Idle, Handler, HandlerStep
      <3>3. req' = [req EXCEPT ![r] = hd]
        BY <3>1 DEF VerifyReads
      <3> HIDE DEF hd
      <3>4. req'[r] = hd /\ \A q \in Requests \ {r} : req'[q] = req[q]
        BY <3>2, <3>3, HandlerType DEF IInv
      <3> QED
        BY <3>2, <3>4 DEF Upgrading
    <2>3. CASE VerifyAsks(r)
      <3>1. PICK o \in Orders : o = req[r].order
        BY <2>3 DEF VerifyAsks, IInv, HandlersOK, KnowsItsOrder
      <3>2. CASE Confirmed(o)
        <4>1. req' = [req EXCEPT ![r] = Upgrade(o)]
          BY <2>3, <3>1, <3>2 DEF VerifyAsks, IInv, TypeOK
        <4>2. req'[r] = Upgrade(o) /\ \A q \in Requests \ {r} : req'[q] = req[q]
          BY <4>1, UpgradeIsHandler, HandlerType DEF IInv
        <4> QED
          BY <3>2, <4>2, UpgradeFields DEF Confirmed
      <3>3. CASE ~Confirmed(o)
        <4>1. req' = [req EXCEPT ![r] = Idle]
          BY <2>3, <3>1, <3>3 DEF VerifyAsks, IInv, TypeOK
        <4>2. req'[r] = Idle /\ \A q \in Requests \ {r} : req'[q] = req[q]
          BY <4>1, IdleIsHandler, HandlerType DEF IInv
        <4> QED
          BY <4>2, IdleStep DEF Upgrading
      <3> QED
        BY <3>2, <3>3
    <2> QED
      BY <2>1, <2>2, <2>3
  <1> QED
    BY <1>1, <1>2 DEF EarnedInv, TierIsEarned, Upgrading

(* The package goes to the user only when it is paid for, or given.        *)
LEMMA EarnedByUpgrade ==
  ASSUME IInv, EarnedInv, NEW r \in Requests,
         \/ VerifyGivesUp(r) \/ Settle(r) \/ Grant(r) \/ Uncache(r)
         \/ StatementFails(r) \/ AdminSetsTier(r)
  PROVE  EarnedInv'
  <1> USE DEF payments, user, profile
  <1>1. UNCHANGED <<link, package>>
    BY DEF VerifyGivesUp, Settle, Grant, Uncache, StatementFails, AdminSetsTier
  <1>2. \A o \in Orders : status[o] # "none" => status'[o] # "none"
    <2>1. CASE Settle(r)
      <3>1. status' = [status EXCEPT ![req[r].order] = "PAID"]
        BY <2>1 DEF Settle, MarkPaid
      <3> QED
        BY <3>1 DEF IInv, TypeOK
    <2>2. CASE ~Settle(r)
      BY <2>2 DEF VerifyGivesUp, Grant, Uncache, StatementFails, AdminSetsTier
    <2> QED
      BY <2>1, <2>2
  <1>3. /\ \A q \in Requests \ {r} : req'[q] = req[q]
        /\ Upgrading(r)' => Upgrading(r) /\ req'[r].order = req[r].order
    <2>1. CASE req' = [req EXCEPT ![r] = Idle]
      BY <2>1, IdleIsHandler, IdleStep, HandlerType DEF IInv, Upgrading
    <2>2. CASE Settle(r) \/ (StatementFails(r) /\ req[r].step = "settle" /\ Goes(r, "grant"))
      BY <2>2, GoesType DEF IInv, Settle, HandlerStep, Upgrading
    <2>3. CASE Grant(r) \/ (StatementFails(r) /\ Goes(r, "uncache"))
      BY <2>3, GoesType DEF IInv, Grant, HandlerStep, Upgrading
    <2>4. CASE AdminSetsTier(r)
      <3> DEFINE hd == [Idle EXCEPT !.step = "uncache"]
      <3>1. hd \in Handler /\ hd.step = "uncache"
        BY DEF Idle, Handler, HandlerStep
      <3>2. req' = [req EXCEPT ![r] = hd]
        BY <2>4 DEF AdminSetsTier
      <3> HIDE DEF hd
      <3> QED
        BY <3>1, <3>2, HandlerType DEF IInv, Upgrading
    <2> QED
      BY <2>1, <2>2, <2>3, <2>4 DEF VerifyGivesUp, Uncache, StatementFails
  <1>4. \A q \in Requests : Upgrading(q)' => Upgrading(q) /\ req'[q].order = req[q].order
    BY <1>3, MoverUpgrades
  <1>5. CASE Grant(r)
    <2> DEFINE o == req[r].order
    <2>1. o \in Orders /\ link[o] = "paid" /\ tier' = package[o] /\ gifts' = gifts
      BY <1>5 DEF Grant, EarnedInv, Upgrading, IInv, HandlersOK, KnowsItsOrder
    <2> HIDE DEF o
    <2>2. TierIsEarned'
      BY <1>1, <2>1 DEF TierIsEarned
    <2> QED
      BY <1>1, <1>2, <1>4, <2>2 DEF EarnedInv
  <1>6. CASE AdminSetsTier(r)
    <2>1. TierIsEarned'
      BY <1>6 DEF AdminSetsTier, TierIsEarned
    <2> QED
      BY <1>1, <1>2, <1>4, <2>1 DEF EarnedInv
  <1>7. CASE UNCHANGED <<tier, gifts>>
    BY <1>1, <1>2, <1>4, <1>7, EarnedKeeps
  <1> QED
    BY <1>5, <1>6, <1>7 DEF VerifyGivesUp, Settle, Uncache, StatementFails

LEMMA EarnedStep ==
  ASSUME IInv, EarnedInv, [Next]_vars
  PROVE  EarnedInv'
  <1> USE DEF payments, user, profile
  <1>1. CASE \E o \in Orders : InsertPayment(o) \/ OpenLink(o) \/ CustomerPays(o)
    BY <1>1, EarnedByPayments
  <1>2. CASE \E r \in Requests :
                \/ \E o \in Orders : WebhookReads(r, o) \/ VerifyReads(r, o)
                \/ VerifyAsks(r)
    BY <1>2, EarnedByReads
  <1>3. CASE \E r \in Requests :
                \/ VerifyGivesUp(r) \/ Settle(r) \/ Grant(r) \/ Uncache(r)
                \/ StatementFails(r) \/ AdminSetsTier(r)
    BY <1>3, EarnedByUpgrade
  <1>4. CASE Crash
    BY <1>4, IdleStep, EarnedKeeps DEF Crash, Upgrading
  <1>5. CASE ExpireSubscription
    BY <1>5 DEF ExpireSubscription, EarnedInv, TierIsEarned, Upgrading
  <1>6. CASE LoadProfile \/ CacheProfile \/ ProfileExpires \/ NextDay \/ UNCHANGED vars
    BY <1>6, EarnedKeeps DEF LoadProfile, CacheProfile, ProfileExpires, NextDay, vars, Upgrading
  <1> QED
    BY <1>1, <1>2, <1>3, <1>4, <1>5, <1>6 DEF Next

-----------------------------------------------------------------------------
(* A paid month is kept.                                                   *)

Kept(o) ==
    /\ tierExpiresAt # Nothing /\ tierExpiresAt >= paidOn[o] + Month
    /\ tier # "FREE" \/ "FREE" \in gifts

Granting(o) == \E r \in Requests : req[r].step = "grant" /\ req[r].order = o

(* A PAID row has its day; while its month lasts the user has it, or a     *)
(* handler is about to write it.                                           *)
KeptInv ==
    \A o \in Orders : status[o] = "PAID" =>
        /\ paidOn[o] \in Days /\ paidOn[o] <= today
        /\ ~failed /\ today <= paidOn[o] + Month => Kept(o) \/ Granting(o)

LEMMA KeptInit == Init => KeptInv
  BY DEF Init, KeptInv

(* Where no row becomes PAID, the day stays, and the subscription is not   *)
(* shortened.                                                              *)
LEMMA KeptKeeps ==
  ASSUME KeptInv, UNCHANGED <<paidOn, today>>,
         \A o \in Orders : status'[o] = "PAID" => status[o] = "PAID",
         \/ failed'
         \/ /\ UNCHANGED <<failed, tierExpiresAt>>
            /\ tier' # "FREE" \/ "FREE" \in gifts' \/ (UNCHANGED tier /\ "FREE" \notin gifts)
            /\ \A r \in Requests : req[r].step = "grant" =>
                    req'[r].step = "grant" /\ req'[r].order = req[r].order
  PROVE  KeptInv'
  <1>1. \A o \in Orders : ~failed' /\ Kept(o) => Kept(o)'
    BY DEF Kept
  <1>2. \A o \in Orders : ~failed' /\ Granting(o) => Granting(o)'
    BY DEF Granting
  <1> QED
    BY <1>1, <1>2 DEF KeptInv

(* Nobody at work but r moves, and r has no tier to write.                 *)
LEMMA GrantersStay ==
  ASSUME NEW r \in Requests, req[r].step # "grant",
         \A q \in Requests \ {r} : req'[q] = req[q]
  PROVE  \A q \in Requests : req[q].step = "grant" =>
            req'[q].step = "grant" /\ req'[q].order = req[q].order
  OBVIOUS

LEMMA KeptByRequest ==
  ASSUME IInv, KeptInv, NEW r \in Requests,
         \/ \E o \in Orders : WebhookReads(r, o) \/ VerifyReads(r, o)
         \/ VerifyAsks(r) \/ VerifyGivesUp(r) \/ Uncache(r) \/ AdminSetsTier(r)
  PROVE  KeptInv'
  <1> USE DEF payments, user, profile
  <1>1. UNCHANGED <<status, paidOn, today, failed, tierExpiresAt>>
    BY DEF WebhookReads, VerifyReads, VerifyAsks, VerifyGivesUp, Uncache, AdminSetsTier
  <1>2. tier' # "FREE" \/ "FREE" \in gifts' \/ (UNCHANGED tier /\ "FREE" \notin gifts)
    <2>1. CASE AdminSetsTier(r)
      BY <2>1 DEF AdminSetsTier
    <2>2. CASE UNCHANGED <<tier, gifts>>
      BY <2>2
    <2> QED
      BY <2>1, <2>2 DEF WebhookReads, VerifyReads, VerifyAsks, VerifyGivesUp, Uncache
  <1>3. req[r].step # "grant" /\ \A q \in Requests \ {r} : req'[q] = req[q]
    BY IdleStep DEF WebhookReads, VerifyReads, VerifyAsks, VerifyGivesUp, Uncache,
                    AdminSetsTier, IInv, TypeOK
  <1>4. \A q \in Requests : req[q].step = "grant" =>
            req'[q].step = "grant" /\ req'[q].order = req[q].order
    BY <1>3, GrantersStay
  <1> QED
    BY <1>1, <1>2, <1>4, KeptKeeps

(* The row becomes PAID today, and the handler has the tier to write.      *)
LEMMA KeptBySettle ==
  ASSUME IInv, KeptInv, NEW r \in Requests, Settle(r)
  PROVE  KeptInv'
  <1> USE DEF payments, user, profile
  <1>1. PICK o \in Orders : o = req[r].order /\ (status[o] = "PENDING" \/ PaidToday(o))
    BY DEF Settle, IInv, HandlersOK, KnowsItsOrder, OrderIsFresh
  <1>2. /\ status'[o] = "PAID" /\ paidOn'[o] = today
        /\ \A p \in Orders : p # o => status'[p] = status[p] /\ paidOn'[p] = paidOn[p]
    BY <1>1 DEF Settle, MarkPaid, IInv, TypeOK, PaidToday
  <1>3. /\ req'[r].step = "grant" /\ req'[r].order = o
        /\ \A q \in Requests \ {r} : req'[q] = req[q]
        /\ req[r].step = "settle"
    BY <1>1, GoesType DEF Settle, IInv, HandlerStep
  <1>4. UNCHANGED <<tier, tierExpiresAt, gifts, today, failed>> /\ today \in Days
    BY DEF Settle, IInv, TypeOK
  <1>5. \A p \in Orders : Granting(p) => Granting(p)'
    BY <1>3 DEF Granting
  <1>6. Granting(o)'
    BY <1>3 DEF Granting
  <1>7. \A p \in Orders : p # o /\ Kept(p) => Kept(p)'
    BY <1>2, <1>4 DEF Kept
  <1>8. ASSUME NEW p \in Orders, status'[p] = "PAID"
        PROVE  /\ paidOn'[p] \in Days /\ paidOn'[p] <= today'
               /\ ~failed' /\ today' <= paidOn'[p] + Month => Kept(p)' \/ Granting(p)'
    <2>1. CASE p = o
      BY <2>1, <1>2, <1>4, <1>6 DEF Days
    <2>2. CASE p # o
      BY <2>2, <1>2, <1>4, <1>5, <1>7, <1>8 DEF KeptInv
    <2> QED
      BY <2>1, <2>2
  <1> QED
    BY <1>8 DEF KeptInv

(* The date it writes is Month days from today, later than any other.      *)
LEMMA KeptByGrant ==
  ASSUME IInv, KeptInv, NEW r \in Requests, Grant(r)
  PROVE  KeptInv'
  <1> USE DEF payments, user, profile
  <1>1. req[r].order \in Orders /\ req[r].expires = today + Month
    BY DEF Grant, IInv, HandlersOK, KnowsItsOrder
  <1>2. /\ tierExpiresAt' = today + Month /\ tier' \in Packages
        /\ UNCHANGED <<status, paidOn, today, failed>>
    BY <1>1 DEF Grant, IInv, TypeOK
  <1>3. today \in Nat /\ Month \in Nat /\ today + Month # Nothing /\ tier' # "FREE"
    BY <1>2, MonthAssumption, NothingAssumption DEF IInv, TypeOK, Days, Packages
  <1>4. ASSUME NEW o \in Orders, status[o] = "PAID"
        PROVE  paidOn[o] \in Days /\ paidOn[o] <= today /\ Kept(o)'
    <2>1. paidOn[o] \in Days /\ paidOn[o] <= today /\ paidOn[o] \in Nat
      BY <1>4 DEF KeptInv, Days
    <2>2. today + Month >= paidOn[o] + Month
      BY <2>1, <1>3
    <2> QED
      BY <2>1, <2>2, <1>2, <1>3 DEF Kept
  <1> QED
    BY <1>2, <1>4 DEF KeptInv

(* The daily job ends what has ended.                                      *)
LEMMA KeptByExpiry ==
  ASSUME IInv, KeptInv, ExpireSubscription
  PROVE  KeptInv'
  <1>1. /\ UNCHANGED <<status, paidOn, today, failed, req>>
        /\ tierExpiresAt # Nothing /\ tierExpiresAt < today
    BY DEF ExpireSubscription, Expired, payments, user, profile
  <1>2. \A o \in Orders : Granting(o) => Granting(o)'
    BY <1>1 DEF Granting
  <1>3. ASSUME NEW o \in Orders, status[o] = "PAID", today <= paidOn[o] + Month
        PROVE  ~Kept(o)
    <2>1. paidOn[o] \in Nat /\ today \in Nat /\ tierExpiresAt \in Nat /\ Month \in Nat
      BY <1>1, <1>3, MonthAssumption DEF KeptInv, IInv, TypeOK, Days, Dates
    <2> QED
      BY <2>1, <1>1, <1>3 DEF Kept
  <1> QED
    BY <1>1, <1>2, <1>3 DEF KeptInv

(* At the end of the day no handler is at work.                            *)
LEMMA KeptByNight ==
  ASSUME IInv, KeptInv, NextDay
  PROVE  KeptInv'
  <1>1. /\ UNCHANGED <<status, paidOn, tier, tierExpiresAt, gifts, failed>>
        /\ today' = today + 1 /\ today \in Nat /\ Month \in Nat
        /\ \A r \in Requests : req[r].step = "idle"
    BY MonthAssumption, IdleStep DEF NextDay, IInv, TypeOK, Days, payments, user, profile
  <1>2. ASSUME NEW o \in Orders, status[o] = "PAID"
        PROVE  /\ paidOn[o] \in Days /\ paidOn[o] <= today'
               /\ ~failed /\ today' <= paidOn[o] + Month => Kept(o)
    <2>1. paidOn[o] \in Days /\ paidOn[o] \in Nat /\ paidOn[o] <= today
      BY <1>2 DEF KeptInv, Days
    <2>2. ~Granting(o)
      BY <1>1 DEF Granting
    <2>3. today' <= paidOn[o] + Month => today <= paidOn[o] + Month
      BY <1>1, <2>1
    <2>4. paidOn[o] <= today'
      BY <1>1, <2>1
    <2> QED
      BY <1>2, <2>1, <2>2, <2>3, <2>4 DEF KeptInv
  <1> QED
    BY <1>1, <1>2 DEF KeptInv, Kept

LEMMA KeptStep ==
  ASSUME IInv, KeptInv, [Next]_vars
  PROVE  KeptInv'
  <1> USE DEF payments, user, profile
  <1>1. CASE \E o \in Orders : InsertPayment(o) \/ OpenLink(o) \/ CustomerPays(o)
    <2>1. PICK o \in Orders : InsertPayment(o) \/ OpenLink(o) \/ CustomerPays(o)
      BY <1>1
    <2>2. /\ UNCHANGED <<paidOn, tier, tierExpiresAt, gifts, today, failed, req>>
          /\ status' = status \/ status' = [status EXCEPT ![o] = "PENDING"]
      BY <2>1 DEF InsertPayment, OpenLink, CustomerPays
    <2>3. \A p \in Orders : status'[p] = "PAID" => status[p] = "PAID"
      BY <2>2 DEF IInv, TypeOK
    <2> QED
      BY <2>2, <2>3, KeptKeeps
  <1>2. CASE \E r \in Requests :
                \/ \E o \in Orders : WebhookReads(r, o) \/ VerifyReads(r, o)
                \/ VerifyAsks(r) \/ VerifyGivesUp(r) \/ Uncache(r) \/ AdminSetsTier(r)
    BY <1>2, KeptByRequest
  <1>3. CASE \E r \in Requests : Settle(r)
    BY <1>3, KeptBySettle
  <1>4. CASE \E r \in Requests : Grant(r)
    BY <1>4, KeptByGrant
  <1>5. CASE Crash \/ \E r \in Requests : StatementFails(r)
    BY <1>5, KeptKeeps DEF Crash, StatementFails
  <1>6. CASE ExpireSubscription
    BY <1>6, KeptByExpiry
  <1>7. CASE NextDay
    BY <1>7, KeptByNight
  <1>8. CASE LoadProfile \/ CacheProfile \/ ProfileExpires \/ UNCHANGED vars
    BY <1>8, KeptKeeps DEF LoadProfile, CacheProfile, ProfileExpires, vars
  <1> QED
    BY <1>1, <1>2, <1>3, <1>4, <1>5, <1>6, <1>7, <1>8 DEF Next

-----------------------------------------------------------------------------

(* Every variable of Billing keeps its type, whatever the orders, the      *)
(* handlers and the bounds.                                                *)
THEOREM BillingTypeCorrect == Spec => []TypeOK
  <1>1. IInv => TypeOK
    BY DEF IInv
  <1> QED
    BY <1>1, InductiveInvariant, PTL

(* One payment buys one month: while no statement has failed, the date on  *)
(* which the subscription ends is Month days after the day on which some   *)
(* order became PAID (PayOSWebhook and VerifyPaymentClient, which may deal *)
(* with one order at once, and repeat each other's UPDATEs).               *)
THEOREM OnePaymentOneMonth == Spec => []NoMonthUnpaid
  <1>1. IInv => NoMonthUnpaid
    BY DEF IInv
  <1> QED
    BY <1>1, InductiveInvariant, PTL

(* The user has a package only if PayOS was paid for an order of that      *)
(* package or an administrator set it; and while no statement has failed,  *)
(* a payment that has been dealt with keeps the subscription alive for     *)
(* Month days, whatever the webhook, the client's query, the daily job and *)
(* other payments do meanwhile.                                            *)
THEOREM TierIsAlwaysPaid == Spec => []TierIsPaid
  <1> DEFINE Inv == IInv /\ EarnedInv /\ KeptInv
  <1>1. Init => Inv
    BY InitOK, EarnedInit, KeptInit
  <1>2. Inv /\ [Next]_vars => Inv'
    BY StepOK, EarnedStep, KeptStep
  <1>3. Inv => TierIsPaid
    <2> SUFFICES ASSUME KeptInv PROVE PaidMonthIsKept
      BY DEF EarnedInv, TierIsPaid
    <2>1. \A o \in Orders : Quiet(o) => ~Granting(o)
      BY DEF Quiet, Granting
    <2> QED
      BY <2>1 DEF PaidMonthIsKept, KeptInv, Kept
  <1> HIDE DEF Inv
  <1> QED
    BY <1>1, <1>2, <1>3, PTL DEF Spec

-----------------------------------------------------------------------------
(* The quota of a key.                                                     *)

(* The counters are two numbers (the minute's is of no concern here).      *)
MemoryOK == mem = [rem |-> mem.rem, used |-> mem.used] /\ mem.used \in Nat

(* The database is behind what SyncToDB is about to write, which is behind *)
(* the memory; a server that is down writes nothing.                       *)
SnapInOrder == snap # Nothing => up /\ snap \in Nat /\ db <= snap /\ snap <= mem.used

InOrder ==
    /\ up => db <= mem.used
    /\ SnapInOrder

KeyInv ==
    /\ MemoryOK /\ db \in Nat
    /\ snap \in Nat \cup {Nothing} /\ (snap # Nothing => up)
    /\ unread \in BOOLEAN
    /\ unread \/ InOrder

LEMMA KeyInitOK == Key!Init => KeyInv
  <1> SUFFICES ASSUME Key!Init PROVE KeyInv
    OBVIOUS
  <1>1. MemoryOK /\ mem.used = 0
    BY DEF Key!Init, MemoryOK
  <1>2. InOrder
    BY <1>1 DEF Key!Init, InOrder, SnapInOrder
  <1> QED
    BY <1>1, <1>2 DEF Key!Init, KeyInv

(* The use in memory grows, and nothing else of interest changes.          *)
LEMMA CountingOK ==
  ASSUME KeyInv, UNCHANGED <<up, db, snap, unread>>,
         MemoryOK', mem'.used >= mem.used
  PROVE  KeyInv' /\ db' = db
  BY DEF KeyInv, MemoryOK, InOrder, SnapInOrder

LEMMA IdlingOK ==
  ASSUME KeyInv, UNCHANGED <<up, mem, db, snap, unread>>
  PROVE  KeyInv' /\ db' = db
  BY DEF KeyInv, MemoryOK, InOrder, SnapInOrder

LEMMA ParseHeadersOK ==
  ASSUME KeyInv, NEW c \in Requests, Key!ParseHeaders(c)
  PROVE  KeyInv' /\ db' = db
  <1>1. mem' = [mem EXCEPT !.used = @ + 1] /\ UNCHANGED <<up, db, snap, unread>>
    BY DEF Key!ParseHeaders, Key!Saves
  <1>2. mem' = [rem |-> mem.rem, used |-> mem.used + 1]
    BY <1>1 DEF KeyInv, MemoryOK
  <1>3. MemoryOK' /\ mem'.used >= mem.used
    BY <1>2 DEF KeyInv, MemoryOK
  <1> QED
    BY <1>1, <1>3, CountingOK

LEMMA RecordCallOK ==
  ASSUME KeyInv, NEW c \in Requests, Key!RecordCall(c)
  PROVE  KeyInv' /\ db' = db
  <1>1. mem' = Key!Recorded /\ UNCHANGED <<up, db, snap, unread>>
    BY DEF Key!RecordCall, Key!Saves
  <1>2. MemoryOK' /\ mem'.used >= mem.used
    BY <1>1 DEF KeyInv, MemoryOK, Key!Recorded
  <1> QED
    BY <1>1, <1>2, CountingOK

LEMMA RefreshOK ==
  ASSUME KeyInv, Key!Refresh
  PROVE  KeyInv' /\ db' = db
  <1>1. mem' = [mem EXCEPT !.rem = KeyLimit] /\ UNCHANGED <<up, db, snap, unread>>
    BY DEF Key!Refresh, Key!Saves
  <1>2. mem' = [rem |-> KeyLimit, used |-> mem.used]
    BY <1>1 DEF KeyInv, MemoryOK
  <1>3. MemoryOK' /\ mem'.used >= mem.used
    BY <1>2 DEF KeyInv, MemoryOK
  <1> QED
    BY <1>1, <1>3, CountingOK

LEMMA CloneOK ==
  ASSUME KeyInv, Key!Clone
  PROVE  KeyInv' /\ db' = db
  BY DEF Key!Clone, KeyInv, MemoryOK, InOrder, SnapInOrder

(* The copy is not older than the row: both were the memory's once.        *)
LEMMA SyncOK ==
  ASSUME KeyInv, Key!SyncToDB, Nothing \notin Nat
  PROVE  KeyInv' /\ (db' >= db \/ unread)
  <1>1. CASE db' = snap
    BY <1>1 DEF Key!SyncToDB, KeyInv, MemoryOK, InOrder, SnapInOrder
  <1>2. CASE db' = db
    BY <1>2 DEF Key!SyncToDB, KeyInv, MemoryOK, InOrder, SnapInOrder
  <1> QED
    BY <1>1, <1>2 DEF Key!SyncToDB

LEMMA KeyCrashOK ==
  ASSUME KeyInv, Key!Crash
  PROVE  KeyInv' /\ db' = db
  BY DEF Key!Crash, KeyInv, MemoryOK, InOrder, SnapInOrder

(* A start takes the row for the use, or says that it could not.           *)
LEMMA RegisterKeyOK ==
  ASSUME KeyInv, Key!RegisterKey
  PROVE  KeyInv' /\ db' = db
  <1>1. CASE mem' = Key!Loaded /\ UNCHANGED unread
    BY <1>1 DEF Key!RegisterKey, Key!Loaded, KeyInv, MemoryOK, InOrder, SnapInOrder
  <1>2. CASE mem' = [Key!Loaded EXCEPT !.used = 0] /\ unread' = TRUE
    BY <1>2 DEF Key!RegisterKey, Key!Loaded, KeyInv, MemoryOK, InOrder, SnapInOrder
  <1> QED
    BY <1>1, <1>2 DEF Key!RegisterKey

LEMMA KeyNextOK ==
  ASSUME KeyInv, [Key!Next]_(Key!vars), Nothing \notin Nat
  PROVE  KeyInv' /\ (db' >= db \/ unread)
  <1>0. db \in Nat
    BY DEF KeyInv
  <1>1. CASE \E c \in Requests : Key!ParseHeaders(c) \/ Key!RecordCall(c)
    BY <1>0, <1>1, ParseHeadersOK, RecordCallOK
  <1>2. CASE \E c \in Requests : \/ Key!Answered(c) \/ Key!CallFailed(c)
                                 \/ Key!ReadRemaining(c) \/ Key!ReadUsed(c)
    <2>1. UNCHANGED <<up, mem, db, snap, unread>>
      BY <1>2 DEF Key!Answered, Key!CallFailed, Key!ReadRemaining, Key!ReadUsed
    <2> QED
      BY <1>0, <2>1, IdlingOK
  <1>3. CASE (\E p \in Key!Savers : Key!Send(p)) \/ Key!RedisExpires \/ UNCHANGED Key!vars
    <2>1. UNCHANGED <<up, mem, db, snap, unread>>
      BY <1>3 DEF Key!Send, Key!RedisExpires, Key!vars
    <2> QED
      BY <1>0, <2>1, IdlingOK
  <1>4. CASE Key!Refresh \/ Key!Clone \/ Key!Crash \/ Key!RegisterKey
    BY <1>0, <1>4, RefreshOK, CloneOK, KeyCrashOK, RegisterKeyOK
  <1>5. CASE Key!SyncToDB
    BY <1>5, SyncOK
  <1> QED
    BY <1>1, <1>2, <1>3, <1>4, <1>5 DEF Key!Next

(* Through any calls, syncs, failed writes and restarts, the day's use in  *)
(* api_key_quotas only grows as long as each start could read it           *)
(* (RegisterKey, SyncToDB).  Nothing stands for no snapshot.               *)
THEOREM UseIsNotLost == Key!Spec => Key!UsageNeverShrinks
  <1>0. Nothing \notin Nat
    BY NothingAssumption
  <1>1. Key!Init => KeyInv
    BY KeyInitOK
  <1>2. KeyInv /\ [Key!Next]_(Key!vars) => KeyInv'
    BY <1>0, KeyNextOK
  <1>3. KeyInv /\ [Key!Next]_(Key!vars) => [db' >= db \/ unread]_(Key!vars)
    BY <1>0, KeyNextOK
  <1> QED
    BY <1>1, <1>2, <1>3, PTL DEF Key!Spec, Key!UsageNeverShrinks

-----------------------------------------------------------------------------
(* Authentication, beside the other services.                              *)

LEMMA AuthConstants == Auth!LifeAssumption /\ Auth!BoundAssumption /\ Auth!NoneAssumption
  BY ServicesAssumption

LEMMA AuthStarts == ASSUME side = "auth", ServicesInit PROVE Auth!Init
  BY DEF ServicesInit

(* While it is the turn of another service, nothing of this one is said.   *)
LEMMA AuthSteps ==
  ASSUME side' = "auth", [ServicesNext]_servicesVars
  PROVE  side = "auth" /\ [Auth!Next]_(Auth!vars)
  BY DEF ServicesNext, servicesVars, authVars, Auth!vars, Auth!claims, Auth!marks,
     Auth!codeVars, Auth!history

AuthInv == side = "auth" => Auth!IInv /\ Auth!LockInv /\ Auth!SInv /\ Auth!TypeInv

LEMMA AuthInvHolds == ServicesSpec => []AuthInv
  <1>1. Auth!Lives
    BY AuthConstants DEF Auth!Lives
  <1>2. ServicesInit => AuthInv
    BY <1>1, AuthStarts, AuthConstants, Auth!InitOK, Auth!LockInit, Auth!SessionInit, Auth!TypeInit
    DEF AuthInv, Auth!Bounded
  <1>3. AuthInv /\ [ServicesNext]_servicesVars => AuthInv'
    BY <1>1, AuthSteps, AuthConstants, Auth!NextOK, Auth!LockStep, Auth!SessionStep, Auth!TypeStep
    DEF AuthInv, Auth!Bounded
  <1> QED
    BY <1>2, <1>3, PTL DEF ServicesSpec

(* A refresh gets past its checks only with a token from after the last    *)
(* change of the password, and a lock on the reset of a password ends      *)
(* (Refresh, ChangePassword, ResetPassword).                               *)
THEOREM RevokedAlwaysStaysOut == ServicesSpec => []RevokedStaysOut
  <1>1. AuthInv => RevokedStaysOut
    <2> SUFFICES ASSUME side = "auth", AuthInv
                 PROVE  Auth!RevokedStaysOut /\ Auth!LockEnds
      BY DEF RevokedStaysOut
    <2>1. Auth!RevokedStaysOut
      BY DEF AuthInv, Auth!IInv, Auth!RefreshOK, Auth!RevokedStaysOut, Auth!Passed
    <2>2. Auth!LockEnds
      BY AuthConstants, Auth!LockSafe DEF AuthInv
    <2> QED
      BY <2>1, <2>2
  <1> QED
    BY <1>1, AuthInvHolds, PTL

(* Of the tokens of a session exactly the last that was handed out works,  *)
(* until it ends, is logged out or revoked, unless the requests of the     *)
(* session overlap or a call fails (Refresh, Logout).                      *)
THEOREM OneTokenAlwaysWorks == ServicesSpec => []SessionHasOneToken
  <1>1. Auth!Lives
    BY AuthConstants DEF Auth!Lives
  <1>2. AuthInv => SessionHasOneToken
    BY <1>1, Auth!SessionSafe DEF AuthInv, SessionHasOneToken
  <1> QED
    BY <1>2, AuthInvHolds, PTL

-----------------------------------------------------------------------------
(* The limit on requests, beside the other services.                       *)

LEMMA RateSets ==
  /\ \A S : Rate!Cardinality(S) = Cardinality(S)
  /\ \A S : Rate!IsFiniteSet(S) <=> IsFiniteSet(S)
  <1>1. \A S : Rate!Cardinality(S) = Cardinality(S)
    BY DEF Rate!Cardinality, Cardinality
  <1>2. \A S : Rate!IsFiniteSet(S) <=> IsFiniteSet(S)
    BY DEF Rate!IsFiniteSet, IsFiniteSet
  <1> QED
    BY <1>1, <1>2

LEMMA RateConstants ==
  /\ IsFiniteSet(Calls) /\ Cardinality(Calls) \in Nat
  /\ Slots \in Nat \ {0} /\ CallLimit \in Nat \ {0} /\ Window \in Nat \ {0}
  /\ LastInstant \in Nat /\ MaxFaults \in Nat
  <1>1. Rate!RateAssumption
    BY ServicesAssumption
  <1>2. IsFiniteSet(Calls)
    BY <1>1, RateSets DEF Rate!RateAssumption
  <1> QED
    BY <1>1, <1>2, FS_CardinalityType DEF Rate!RateAssumption

CallRow == [step : {"new", "trim", "count", "add", "expire", "admitted", "refused",
                    "unseen"},
            at : Rate!Instants, count : 0..Cardinality(Calls)]

Decided(q) == call[q].step \in {"admitted", "refused"}

(* A request came at some moment, one at work at this one; of those that   *)
(* added themselves the set has all of the window that ends now, because   *)
(* it lives on for a window after each.                                    *)
InTime(q) ==
    /\ q \in Rate!AtWork => call[q].at = instant
    /\ Decided(q) => call[q].at <= instant
    /\ Decided(q) => call[q].at + Window <= keyEnd \/ call[q].at + Window <= instant
    /\ call[q].step = "expire" \/ Decided(q) => q \in entries \/ call[q].at + Window <= instant

(* What is let through, or will be.                                        *)
Passing(w) ==
    {q \in Calls : /\ call[q].at \in w..(w + Window - 1)
                   /\ \/ call[q].step = "admitted"
                      \/ call[q].step \in {"add", "expire"} /\ Rate!Within(q)}

RateAll ==
    /\ Rate!TypeOK
    /\ Cardinality(Rate!AtWork) <= Slots
    /\ \A q \in Calls : InTime(q)
    /\ \A w \in Rate!Instants : Cardinality(Passing(w)) <= CallLimit + Slots - 1

LEMMA CallRows ==
  Rate!TypeOK <=> /\ entries \subseteq Calls
                  /\ keyEnd \in 0..(LastInstant + Window)
                  /\ call \in [Calls -> CallRow]
                  /\ instant \in Rate!Instants
  BY RateSets DEF Rate!TypeOK, CallRow

LEMMA FiniteCalls ==
  ASSUME NEW S \in SUBSET Calls
  PROVE  IsFiniteSet(S) /\ Cardinality(S) \in Nat /\ Cardinality(S) <= Cardinality(Calls)
  BY RateConstants, FS_Subset, FS_CardinalityType

LEMMA RateAllInit == Rate!Init => RateAll
  <1> SUFFICES ASSUME Rate!Init PROVE RateAll
    OBVIOUS
  <1>1. \A q \in Calls : call[q] = Rate!Fresh
    BY DEF Rate!Init
  <1>2. Rate!Fresh \in CallRow /\ Rate!Fresh.step = "new"
    BY RateConstants DEF Rate!Fresh, CallRow, Rate!Instants
  <1>3. Rate!TypeOK
    <2>1. 0 \in 0..(LastInstant + Window) /\ 0 \in Rate!Instants
      BY RateConstants DEF Rate!Instants
    <2> QED
      BY <1>2, <2>1, CallRows DEF Rate!Init
  <1>4. Rate!AtWork = {} /\ \A w : Passing(w) = {}
    BY <1>1, <1>2 DEF Rate!AtWork, Passing
  <1>5. Cardinality(Rate!AtWork) <= Slots /\ \A w : Cardinality(Passing(w)) <= CallLimit + Slots - 1
    BY <1>4, RateConstants, FS_EmptySet
  <1>6. \A q \in Calls : InTime(q)
    BY <1>1, <1>2, <1>4 DEF InTime, Decided
  <1> QED
    BY <1>3, <1>5, <1>6 DEF RateAll

(* A request takes its next step; the others stay where they are.          *)
LEMMA CallMoves ==
  ASSUME Rate!TypeOK, NEW q \in Calls, NEW n \in CallRow, call' = [call EXCEPT ![q] = n]
  PROVE  /\ call' \in [Calls -> CallRow] /\ call'[q] = n
         /\ \A p \in Calls \ {q} : call'[p] = call[p]
  BY CallRows

LEMMA CallGoes ==
  ASSUME Rate!TypeOK, NEW q \in Calls,
         NEW s \in {"count", "expire", "admitted", "refused", "unseen"}, Rate!Goes(q, s)
  PROVE  /\ call' \in [Calls -> CallRow]
         /\ call'[q].step = s /\ call'[q].at = call[q].at /\ call'[q].count = call[q].count
         /\ \A p \in Calls \ {q} : call'[p] = call[p]
  <1> DEFINE n == [call[q] EXCEPT !.step = s]
  <1>1. n \in CallRow /\ n.step = s /\ n.at = call[q].at /\ n.count = call[q].count
    BY CallRows DEF CallRow
  <1>2. call' = [call EXCEPT ![q] = n]
    BY DEF Rate!Goes
  <1> HIDE DEF n
  <1> QED
    BY <1>1, <1>2, CallMoves

(* One that lets no more through, and starts no more work, keeps the       *)
(* counts.                                                                 *)
LEMMA FewerStay ==
  ASSUME RateAll, Rate!AtWork' \subseteq Rate!AtWork,
         \A w \in Rate!Instants : Passing(w)' \subseteq Passing(w)
  PROVE  /\ Cardinality(Rate!AtWork') <= Slots
         /\ \A w \in Rate!Instants : Cardinality(Passing(w)') <= CallLimit + Slots - 1
  <1>1. /\ Cardinality(Rate!AtWork') <= Cardinality(Rate!AtWork)
        /\ Cardinality(Rate!AtWork') \in Nat /\ Cardinality(Rate!AtWork) \in Nat
    <2>1. Rate!AtWork \subseteq Calls
      BY DEF Rate!AtWork
    <2> QED
      BY <2>1, FiniteCalls, FS_Subset
  <1>2. ASSUME NEW w \in Rate!Instants
        PROVE  Cardinality(Passing(w)') <= CallLimit + Slots - 1
    <2>1. Passing(w) \subseteq Calls /\ Passing(w)' \subseteq Passing(w)
      BY DEF Passing
    <2>2. /\ Cardinality(Passing(w)') <= Cardinality(Passing(w))
          /\ Cardinality(Passing(w)') \in Nat /\ Cardinality(Passing(w)) \in Nat
      BY <2>1, FiniteCalls, FS_Subset
    <2> QED
      BY <2>2, RateConstants DEF RateAll
  <1> QED
    BY <1>1, <1>2, RateConstants DEF RateAll

LEMMA ArriveOK ==
  ASSUME RateAll, NEW q \in Calls, Rate!Arrive(q)
  PROVE  RateAll'
  <1> USE DEF RateAll
  <1> DEFINE n == [call[q] EXCEPT !.step = "trim", !.at = instant]
  <1>1. n \in CallRow /\ n.step = "trim" /\ n.at = instant
    BY CallRows DEF CallRow
  <1>2. /\ call' = [call EXCEPT ![q] = n]
        /\ UNCHANGED <<entries, keyEnd, instant>>
        /\ call[q].step = "new" /\ Cardinality(Rate!AtWork) < Slots
    BY RateSets DEF Rate!Arrive, Rate!Is
  <1> HIDE DEF n
  <1>3. /\ call' \in [Calls -> CallRow] /\ call'[q] = n
        /\ \A p \in Calls \ {q} : call'[p] = call[p]
    BY <1>1, <1>2, CallMoves
  <1>4. Rate!TypeOK'
    BY <1>2, <1>3, CallRows, RateSets DEF CallRow, Rate!TypeOK, Rate!Instants
  <1>5. Rate!AtWork' = Rate!AtWork \cup {q} /\ q \notin Rate!AtWork
    BY <1>1, <1>2, <1>3 DEF Rate!AtWork
  <1>6. Cardinality(Rate!AtWork') <= Slots
    <2>1. IsFiniteSet(Rate!AtWork) /\ Cardinality(Rate!AtWork) \in Nat
      BY FiniteCalls DEF Rate!AtWork
    <2>2. Cardinality(Rate!AtWork \cup {q}) = Cardinality(Rate!AtWork) + 1
      BY <1>5, <2>1, FS_AddElement
    <2>3. Cardinality(Rate!AtWork') = Cardinality(Rate!AtWork) + 1
      BY <1>5, <2>2
    <2> QED
      BY <1>2, <2>1, <2>3, RateConstants
  <1>7. \A w \in Rate!Instants : Passing(w)' = Passing(w)
    BY <1>1, <1>2, <1>3 DEF Passing, Rate!Within
  <1>8. \A p \in Calls : InTime(p)'
    BY <1>1, <1>2, <1>3, <1>5 DEF InTime, Decided, Rate!AtWork
  <1> QED
    BY <1>4, <1>6, <1>7, <1>8

LEMMA TrimOK ==
  ASSUME RateAll, NEW q \in Calls, Rate!Trim(q)
  PROVE  RateAll'
  <1> USE DEF RateAll
  <1>1. /\ call[q].step = "trim" /\ entries' = {e \in entries : call[e].at + Window > call[q].at}
        /\ Rate!Goes(q, "count") /\ UNCHANGED <<keyEnd, instant>>
    BY DEF Rate!Trim, Rate!Is
  <1>2. /\ call' \in [Calls -> CallRow]
        /\ call'[q].step = "count" /\ call'[q].at = call[q].at /\ call'[q].count = call[q].count
        /\ \A p \in Calls \ {q} : call'[p] = call[p]
    BY <1>1, CallGoes
  <1>3. Rate!TypeOK'
    <2>1. entries' \subseteq Calls
      BY <1>1, CallRows
    <2> QED
      BY <1>1, <1>2, <2>1, CallRows, RateSets DEF Rate!TypeOK, CallRow, Rate!Instants
  <1>4. Rate!AtWork' = Rate!AtWork
    BY <1>1, <1>2 DEF Rate!AtWork
  <1>5. \A w \in Rate!Instants : Passing(w)' \subseteq Passing(w)
    BY <1>1, <1>2 DEF Passing, Rate!Within
  <1>6. call[q].at = instant
    BY <1>1 DEF InTime, Rate!AtWork
  <1>7. ASSUME NEW p \in Calls PROVE InTime(p)'
    <2>1. CASE p = q
      BY <1>1, <1>2, <1>4, <2>1 DEF InTime, Decided
    <2>2. CASE p # q
      <3>1. call'[p] = call[p] /\ InTime(p)
        BY <1>2, <2>2
      <3>2. call[p].at \in Nat /\ instant \in Nat
        BY CallRows DEF CallRow, Rate!Instants
      <3>3. p \in entries => p \in entries' \/ call[p].at + Window <= instant
        BY <1>1, <1>6, <3>2, RateConstants
      <3> QED
        BY <1>1, <1>4, <3>1, <3>3 DEF InTime, Decided
    <2> QED
      BY <2>1, <2>2
  <1> QED
    BY <1>3, <1>4, <1>5, <1>7, FewerStay

(* The count: whoever is let through in the window is in the set, or at    *)
(* work with this request.                                                 *)
LEMMA CountOK ==
  ASSUME RateAll, NEW q \in Calls, Rate!Count(q)
  PROVE  RateAll'
  <1> USE DEF RateAll
  <1> DEFINE n == [call[q] EXCEPT !.step = "add", !.count = Cardinality(entries)]
  <1>0. entries \subseteq Calls /\ instant \in Nat
    BY CallRows DEF Rate!Instants
  <1>1. n \in CallRow /\ n.step = "add" /\ n.at = call[q].at /\ n.count = Cardinality(entries)
    <2>1. Cardinality(entries) \in 0..Cardinality(Calls)
      BY <1>0, FiniteCalls, RateConstants
    <2> QED
      BY <2>1, CallRows DEF CallRow
  <1>2. /\ call' = [call EXCEPT ![q] = n]
        /\ UNCHANGED <<entries, keyEnd, instant>>
        /\ call[q].step = "count"
    BY RateSets DEF Rate!Count, Rate!Is
  <1> HIDE DEF n
  <1>3. /\ call' \in [Calls -> CallRow] /\ call'[q] = n
        /\ \A p \in Calls \ {q} : call'[p] = call[p]
    BY <1>1, <1>2, CallMoves
  <1>4. Rate!TypeOK'
    BY <1>2, <1>3, CallRows, RateSets DEF Rate!TypeOK, CallRow, Rate!Instants
  <1>5. Rate!AtWork' = Rate!AtWork /\ q \in Rate!AtWork
    BY <1>1, <1>2, <1>3 DEF Rate!AtWork
  <1>6. \A p \in Calls : InTime(p)'
    BY <1>1, <1>2, <1>3, <1>5 DEF InTime, Decided
  <1>7. ASSUME NEW w \in Rate!Instants
        PROVE  Cardinality(Passing(w)') <= CallLimit + Slots - 1
    <2>1. CASE q \notin Passing(w)'
      <3>1. Passing(w)' \subseteq Passing(w) /\ Passing(w) \subseteq Calls
        BY <1>3, <2>1 DEF Passing, Rate!Within
      <3>2. /\ Cardinality(Passing(w)') <= Cardinality(Passing(w))
            /\ Cardinality(Passing(w)') \in Nat /\ Cardinality(Passing(w)) \in Nat
        BY <3>1, FiniteCalls, FS_Subset
      <3> QED
        BY <3>2, RateConstants
    <2>2. CASE q \in Passing(w)'
      <3>1. Cardinality(entries) < CallLimit /\ instant \in w..(w + Window - 1) /\ w \in Nat
        <4>1. call[q].at = instant
          BY <1>5 DEF InTime
        <4> QED
          BY <1>1, <1>3, <2>2, <4>1 DEF Passing, Rate!Within, Rate!Instants
      <3>2. Passing(w)' \subseteq entries \cup Rate!AtWork
        <4> SUFFICES ASSUME NEW p \in Passing(w)', p \notin Rate!AtWork
                     PROVE  p \in entries
          OBVIOUS
        <4>1. p \in Calls /\ p # q /\ call'[p] = call[p] /\ InTime(p)
          BY <1>3, <1>5 DEF Passing
        <4>2. call[p].step = "admitted" /\ call[p].at \in w..(w + Window - 1)
          BY <4>1 DEF Passing, Rate!AtWork
        <4>3. call[p].at + Window > instant
          BY <3>1, <4>2, <1>0, RateConstants
        <4>4. ~(call[p].at + Window <= instant)
          BY <3>1, <4>2, <4>3, <1>0, RateConstants
        <4> QED
          BY <4>1, <4>2, <4>4 DEF InTime, Decided
      <3>3. /\ IsFiniteSet(entries) /\ IsFiniteSet(Rate!AtWork)
            /\ Cardinality(entries) \in Nat /\ Cardinality(Rate!AtWork) \in Nat
        BY <1>0, FiniteCalls DEF Rate!AtWork
      <3>4. /\ IsFiniteSet(entries \cup Rate!AtWork)
            /\ Cardinality(entries \cup Rate!AtWork) <= Cardinality(entries) + Cardinality(Rate!AtWork)
            /\ Cardinality(entries \cup Rate!AtWork) \in Nat
        <4>1. /\ IsFiniteSet(entries \cup Rate!AtWork)
              /\ Cardinality(entries \cup Rate!AtWork) =
                    Cardinality(entries) + Cardinality(Rate!AtWork) - Cardinality(entries \cap Rate!AtWork)
          BY <3>3, FS_Union
        <4>2. Cardinality(entries \cap Rate!AtWork) \in Nat
          BY <1>0, FiniteCalls
        <4>3. Cardinality(entries \cup Rate!AtWork) \in Nat
          BY <4>1, FS_CardinalityType
        <4> QED
          BY <3>3, <4>1, <4>2, <4>3
      <3>5. /\ Cardinality(Passing(w)') <= Cardinality(entries \cup Rate!AtWork)
            /\ Cardinality(Passing(w)') \in Nat
        BY <3>2, <3>4, FS_Subset, FS_CardinalityType
      <3> QED
        BY <3>1, <3>3, <3>4, <3>5, RateConstants
    <2> QED
      BY <2>1, <2>2
  <1> QED
    BY <1>4, <1>5, <1>6, <1>7

LEMMA AddOK ==
  ASSUME RateAll, NEW q \in Calls, Rate!Add(q)
  PROVE  RateAll'
  <1> USE DEF RateAll
  <1>1. /\ call[q].step = "add" /\ entries' = entries \cup {q}
        /\ Rate!Goes(q, "expire") /\ UNCHANGED <<keyEnd, instant>>
    BY DEF Rate!Add, Rate!Is
  <1>2. /\ call' \in [Calls -> CallRow]
        /\ call'[q].step = "expire" /\ call'[q].at = call[q].at /\ call'[q].count = call[q].count
        /\ \A p \in Calls \ {q} : call'[p] = call[p]
    BY <1>1, CallGoes
  <1>3. Rate!TypeOK'
    <2>1. entries' \subseteq Calls
      BY <1>1, CallRows
    <2> QED
      BY <1>1, <1>2, <2>1, CallRows, RateSets DEF Rate!TypeOK, CallRow, Rate!Instants
  <1>4. Rate!AtWork' = Rate!AtWork
    BY <1>1, <1>2 DEF Rate!AtWork
  <1>5. \A w \in Rate!Instants : Passing(w)' \subseteq Passing(w)
    BY <1>1, <1>2 DEF Passing, Rate!Within
  <1>6. ASSUME NEW p \in Calls PROVE InTime(p)'
    BY <1>1, <1>2, <1>4 DEF InTime, Decided, Rate!AtWork
  <1> QED
    BY <1>3, <1>4, <1>5, <1>6, FewerStay

LEMMA DecideOK ==
  ASSUME RateAll, NEW q \in Calls, Rate!Decide(q)
  PROVE  RateAll'
  <1> USE DEF RateAll
  <1> DEFINE s == IF Rate!Within(q) THEN "admitted" ELSE "refused"
  <1>1. /\ call[q].step = "expire" /\ keyEnd' = instant + Window
        /\ Rate!Goes(q, s) /\ UNCHANGED <<entries, instant>>
        /\ s \in {"admitted", "refused"} /\ (s = "admitted" => Rate!Within(q))
    BY DEF Rate!Decide, Rate!Is
  <1> HIDE DEF s
  <1>2. /\ call' \in [Calls -> CallRow]
        /\ call'[q].step = s /\ call'[q].at = call[q].at /\ call'[q].count = call[q].count
        /\ \A p \in Calls \ {q} : call'[p] = call[p]
    BY <1>1, CallGoes
  <1>0. instant \in 0..LastInstant /\ instant \in Nat
    BY CallRows DEF Rate!Instants
  <1>3. Rate!TypeOK'
    <2>1. entries' \subseteq Calls /\ keyEnd' \in 0..(LastInstant + Window)
      BY <1>0, <1>1, CallRows, RateConstants
    <2> QED
      BY <1>1, <1>2, <2>1, CallRows, RateSets DEF Rate!TypeOK, CallRow, Rate!Instants
  <1>4. Rate!AtWork' = Rate!AtWork \ {q} /\ q \in Rate!AtWork
    BY <1>1, <1>2 DEF Rate!AtWork
  <1>5. \A w \in Rate!Instants : Passing(w)' \subseteq Passing(w)
    BY <1>1, <1>2 DEF Passing, Rate!Within
  <1>6. ASSUME NEW p \in Calls PROVE InTime(p)'
    <2>1. InTime(p) /\ InTime(q) /\ call[p].at \in Nat
      BY CallRows DEF CallRow, Rate!Instants
    <2>2. CASE p = q
      BY <1>0, <1>1, <1>2, <1>4, <2>1, <2>2, RateConstants DEF InTime, Decided
    <2>3. CASE p # q
      BY <1>0, <1>1, <1>2, <1>4, <2>1, <2>3, RateConstants DEF InTime, Decided
    <2> QED
      BY <2>2, <2>3
  <1> QED
    BY <1>3, <1>4, <1>5, <1>6, FewerStay

(* A pipeline that failed: its request leaves the work and is none of those *)
(* let through by a count.                                                 *)
LEMMA ExecFailsOK ==
  ASSUME RateAll, NEW q \in Calls, Rate!ExecFails(q)
  PROVE  RateAll'
  <1> USE DEF RateAll
  <1>1. /\ q \in Rate!AtWork /\ Rate!Goes(q, "unseen") /\ UNCHANGED <<entries, instant>>
        /\ keyEnd' \in {keyEnd, instant + Window}
    BY DEF Rate!ExecFails
  <1>2. /\ call' \in [Calls -> CallRow]
        /\ call'[q].step = "unseen" /\ call'[q].at = call[q].at /\ call'[q].count = call[q].count
        /\ \A p \in Calls \ {q} : call'[p] = call[p]
    BY <1>1, CallGoes
  <1>0. instant \in 0..LastInstant /\ instant \in Nat /\ keyEnd \in 0..(LastInstant + Window)
    BY CallRows DEF Rate!Instants
  <1>3. Rate!TypeOK'
    <2>1. entries' \subseteq Calls /\ keyEnd' \in 0..(LastInstant + Window)
      BY <1>0, <1>1, CallRows, RateConstants
    <2> QED
      BY <1>1, <1>2, <2>1, CallRows, RateSets DEF Rate!TypeOK, CallRow, Rate!Instants
  <1>4. Rate!AtWork' = Rate!AtWork \ {q}
    BY <1>1, <1>2 DEF Rate!AtWork
  <1>5. \A w \in Rate!Instants : Passing(w)' \subseteq Passing(w)
    BY <1>1, <1>2 DEF Passing, Rate!Within
  <1>6. ASSUME NEW p \in Calls PROVE InTime(p)'
    <2>1. InTime(p) /\ call[p].at \in Nat
      BY CallRows DEF CallRow, Rate!Instants
    <2>2. CASE p = q
      BY <1>2, <1>4, <2>2 DEF InTime, Decided
    <2>3. CASE p # q
      <3>1. call'[p] = call[p] /\ instant' = instant /\ entries' = entries
        BY <1>1, <1>2, <2>3
      <3>2. call[p].at <= instant /\ (call[p].at + Window <= keyEnd \/ call[p].at + Window <= instant)
            => (call[p].at + Window <= keyEnd' \/ call[p].at + Window <= instant)
        BY <1>0, <1>1, <2>1, RateConstants
      <3> QED
        BY <1>4, <2>1, <2>3, <3>1, <3>2 DEF InTime, Decided
    <2> QED
      BY <2>2, <2>3
  <1> QED
    BY <1>3, <1>4, <1>5, <1>6, FewerStay

LEMMA RatePassOK ==
  ASSUME RateAll, Rate!Pass
  PROVE  RateAll'
  <1> USE DEF RateAll
  <1>1. /\ instant < LastInstant /\ Rate!AtWork = {} /\ instant' = instant + 1
        /\ call' = call
        /\ \/ keyEnd = instant' /\ entries' = {} /\ keyEnd' = 0
           \/ keyEnd # instant' /\ UNCHANGED <<entries, keyEnd>>
    BY DEF Rate!Pass
  <1>0. instant \in Nat /\ instant' \in Rate!Instants /\ keyEnd \in Nat
    BY <1>1, CallRows, RateConstants DEF Rate!Instants
  <1>3. Rate!TypeOK'
    <2>1. entries' \subseteq Calls /\ keyEnd' \in 0..(LastInstant + Window)
      BY <1>1, CallRows, RateConstants
    <2> QED
      BY <1>0, <1>1, <2>1, CallRows, RateSets DEF Rate!TypeOK, CallRow, Rate!Instants
  <1>4. Rate!AtWork' = Rate!AtWork
    BY <1>1 DEF Rate!AtWork
  <1>5. \A w \in Rate!Instants : Passing(w)' \subseteq Passing(w)
    BY <1>1 DEF Passing, Rate!Within
  <1>6. ASSUME NEW p \in Calls PROVE InTime(p)'
    <2>1. InTime(p) /\ call[p].at \in Nat /\ call[p].step # "expire"
      BY <1>1, CallRows DEF CallRow, Rate!Instants, Rate!AtWork
    <2> QED
      BY <1>0, <1>1, <1>4, <2>1, RateConstants DEF InTime, Decided
  <1> QED
    BY <1>3, <1>4, <1>5, <1>6, FewerStay

LEMMA RateStep ==
  ASSUME RateAll, [Rate!Next]_(Rate!vars)
  PROVE  RateAll'
  <1>1. CASE UNCHANGED Rate!vars
    BY <1>1 DEF Rate!vars, RateAll, Rate!TypeOK, Rate!AtWork, InTime, Decided, Passing, Rate!Within
  <1> QED
    BY <1>1, ArriveOK, TrimOK, CountOK, AddOK, DecideOK, ExecFailsOK, RatePassOK DEF Rate!Next

LEMMA RateStarts == ASSUME side = "rate", ServicesInit PROVE Rate!Init
  BY DEF ServicesInit

LEMMA RateSteps ==
  ASSUME side' = "rate", [ServicesNext]_servicesVars
  PROVE  side = "rate" /\ [Rate!Next]_(Rate!vars)
  BY DEF ServicesNext, servicesVars, rateVars, Rate!vars

RateSide == side = "rate" => RateAll

LEMMA RateSideHolds == ServicesSpec => []RateSide
  <1>1. ServicesInit => RateSide
    BY RateStarts, RateAllInit DEF RateSide
  <1>2. RateSide /\ [ServicesNext]_servicesVars => RateSide'
    BY RateSteps, RateStep DEF RateSide
  <1> QED
    BY <1>1, <1>2, PTL DEF ServicesSpec

LEMMA WindowHolds ==
  ASSUME RateAll
  PROVE  Rate!WindowIsBounded
  <1> SUFFICES ASSUME NEW w \in Rate!Instants
               PROVE  Cardinality({q \in Calls : Rate!Is(q, "admitted") /\ call[q].at \in w..(w + Window - 1)})
                        <= CallLimit + Slots - 1
    BY RateSets DEF Rate!WindowIsBounded
  <1> DEFINE A == {q \in Calls : Rate!Is(q, "admitted") /\ call[q].at \in w..(w + Window - 1)}
  <1>1. A \subseteq Passing(w) /\ Passing(w) \subseteq Calls
    BY DEF Passing, Rate!Is
  <1>2. /\ Cardinality(A) <= Cardinality(Passing(w))
        /\ Cardinality(A) \in Nat /\ Cardinality(Passing(w)) \in Nat
    BY <1>1, FiniteCalls, FS_Subset
  <1> HIDE DEF A
  <1>3. Cardinality(A) <= CallLimit + Slots - 1
    BY <1>2, RateConstants DEF RateAll
  <1> QED
    BY <1>3 DEF A

-----------------------------------------------------------------------------
(* Flash cards, beside the other services.                                 *)

CardHandler == [op : {"none", "cards", "quiz", "read", "mark"},
                step : {"idle", "quota", "ask", "insert", "query", "fill", "update", "uncache"},
                set : Sets \cup {Nothing}, seen : Cards!CardRow \cup {Nothing},
                quality : Qualities \cup {0}]

(* Where a handler deals with a set, it has one; where it marks, a card.   *)
HoldsItsSet(w) ==
    /\ h[w].step \in {"insert", "query", "fill", "update", "uncache"} => h[w].set \in Sets
    /\ h[w].step = "update" => h[w].seen \in Cards!CardRow

CardTypes == Cards!TypeOK /\ \A w \in Requests : HoldsItsSet(w)

LEMMA CardConstants ==
  /\ CardLimit \in Nat \ {0} /\ QuizLimit \in Nat \ {0} /\ Qualities \subseteq Int
  /\ LastCardDay \in Nat /\ MaxCardRequests \in Nat /\ MaxFaults \in Nat
  /\ Nothing \notin Cards!CardRow /\ Nothing \notin Sets
  BY ServicesAssumption DEF Cards!QuotaAssumption, Cards!NoneAssumption

LEMMA NewCardIsRow == Cards!NewCard \in Cards!CardRow
  BY DEF Cards!NewCard, Cards!CardRow

LEMMA IdleIsCardHandler == Cards!Idle \in CardHandler /\ Cards!Idle.step = "idle" /\ Cards!Idle.op = "none"
  BY DEF Cards!Idle, CardHandler

(* What sm2Update gives is a row again, whatever the quality.              *)
LEMMA IntervalIsNat ==
  ASSUME NEW c \in Cards!CardRow, NEW quality \in Int
  PROVE  Cards!Interval(c, quality) \in Nat
  <1>1. c.interval \in Nat /\ c.ease \in Nat /\ c.reps \in Nat
    BY DEF Cards!CardRow
  <1>2. (c.interval * c.ease) \div 100 \in Int
    BY <1>1, Z3
  <1>3. Cards!AtLeast((c.interval * c.ease) \div 100, 1) \in Nat
    BY <1>2 DEF Cards!AtLeast
  <1> QED
    BY <1>1, <1>3 DEF Cards!Interval

LEMMA EaseIsNat ==
  ASSUME NEW c \in Cards!CardRow, NEW quality \in Int
  PROVE  Cards!Ease(c, quality) \in Nat
  <1>1. c.ease \in Nat
    BY DEF Cards!CardRow
  <1>2. (5 - quality) * (8 + 2 * (5 - quality)) \in Int
    BY Z3
  <1> DEFINE less == (5 - quality) * (8 + 2 * (5 - quality))
  <1>3. Cards!Ease(c, quality) = Cards!AtLeast(c.ease + 10 - less, 130)
    BY DEF Cards!Ease
  <1>4. less \in Int
    BY <1>2
  <1> HIDE DEF less
  <1> QED
    BY <1>1, <1>3, <1>4 DEF Cards!AtLeast

LEMMA MarkedIsRow ==
  ASSUME CardTypes, NEW w \in Requests, h[w].step = "update", card[h[w].set] \in Cards!CardRow
  PROVE  /\ Cards!Marked(w) \in Cards!CardRow
         /\ Cards!Marked(w).reps = card[h[w].set].reps + IF h[w].quality >= 3 THEN 1 ELSE 0
         /\ ~Cards!Marked(w).remembered => Cards!Marked(w).next = cardDay + 1
         /\ h[w].quality \in Int
  <1> DEFINE q == h[w].quality
             i == Cards!Interval(h[w].seen, q)
             e == Cards!Ease(h[w].seen, q)
             n == card[h[w].set].reps + IF q >= 3 THEN 1 ELSE 0
  <1>1. q \in Int /\ h[w].seen \in Cards!CardRow
    <2>1. q \in Qualities \cup {0}
      BY DEF CardTypes, Cards!TypeOK
    <2>2. Qualities \subseteq Int
      BY CardConstants
    <2> HIDE DEF q
    <2>3. q \in Int
      BY <2>1, <2>2
    <2> QED
      BY <2>3 DEF CardTypes, HoldsItsSet
  <1>2. i \in Nat /\ e \in Nat
    BY <1>1, IntervalIsNat, EaseIsNat
  <1>3. q < 3 => i = 1
    BY DEF Cards!Interval
  <1>4. n \in Nat /\ cardDay \in Nat
    BY CardConstants DEF Cards!CardRow, CardTypes, Cards!TypeOK, Cards!Days
  <1>5. Cards!Marked(w) = [remembered |-> q >= 3, interval |-> i, ease |-> e, reps |-> n,
                           next |-> cardDay + i]
    BY DEF Cards!Marked
  <1>6. (q >= 3) \in BOOLEAN
    OBVIOUS
  <1> HIDE DEF i, e, n
  <1>7. Cards!Marked(w) \in Cards!CardRow
    BY <1>2, <1>4, <1>5, <1>6 DEF Cards!CardRow
  <1>8. ~Cards!Marked(w).remembered => Cards!Marked(w).next = cardDay + 1
    <2> SUFFICES ASSUME ~Cards!Marked(w).remembered PROVE Cards!Marked(w).next = cardDay + 1
      OBVIOUS
    <2> DEFINE good == q >= 3
    <2>3. Cards!Marked(w) = [remembered |-> good, interval |-> i, ease |-> e, reps |-> n,
                             next |-> cardDay + i]
      BY <1>5
    <2>4. ~good
      <3> HIDE DEF good
      <3> QED
        BY <2>3
    <2>1. ~(q >= 3)
      BY <2>4
    <2>2. q < 3
      BY <1>1, <2>1
    <2> QED
      BY <1>3, <1>4, <1>5, <2>2
  <1>9. Cards!Marked(w).reps = n
    BY <1>5
  <1> QED
    BY <1>1, <1>7, <1>8, <1>9 DEF n

-----------------------------------------------------------------------------
(* Moves of a handler.                                                     *)

LEMMA CardMove ==
  ASSUME CardTypes, NEW w \in Requests, NEW n \in CardHandler, h' = [h EXCEPT ![w] = n]
  PROVE  /\ h' \in [Requests -> CardHandler] /\ h'[w] = n
         /\ \A v \in Requests \ {w} : h'[v] = h[v]
  BY DEF CardTypes, Cards!TypeOK, CardHandler

(* A new request: what it is, and of whom.                                 *)
LEMMA CardBegins ==
  ASSUME CardTypes, NEW w \in Requests, NEW n \in CardHandler, Cards!Begins(w, n)
  PROVE  /\ h' \in [Requests -> CardHandler] /\ h'[w] = n
         /\ \A v \in Requests \ {w} : h'[v] = h[v]
         /\ cardBegun' \in 0..MaxCardRequests
         /\ h[w].step = "idle"
  <1>1. h' = [h EXCEPT ![w] = n]
    BY DEF Cards!Begins
  <1>2. cardBegun' \in 0..MaxCardRequests
    BY CardConstants DEF Cards!Begins, CardTypes, Cards!TypeOK
  <1> QED
    BY <1>1, <1>2, CardMove, IdleIsCardHandler DEF Cards!Begins

LEMMA CardLeaves ==
  ASSUME CardTypes, NEW w \in Requests, Cards!Leaves(w)
  PROVE  /\ h' \in [Requests -> CardHandler] /\ h'[w].step = "idle" /\ h'[w].op = "none"
         /\ \A v \in Requests \ {w} : h'[v] = h[v]
         /\ cardBegun' = cardBegun
  BY CardMove, IdleIsCardHandler DEF Cards!Leaves

LEMMA CardGoes ==
  ASSUME CardTypes, NEW w \in Requests,
         NEW s \in {"ask", "uncache"}, Cards!Goes(w, s)
  PROVE  /\ h' \in [Requests -> CardHandler] /\ h'[w].step = s
         /\ h'[w].op = h[w].op /\ h'[w].set = h[w].set
         /\ \A v \in Requests \ {w} : h'[v] = h[v]
         /\ cardBegun' = cardBegun
  <1> DEFINE n == [h[w] EXCEPT !.step = s]
  <1>1. n \in CardHandler /\ n.step = s /\ n.op = h[w].op /\ n.set = h[w].set
    BY DEF CardTypes, Cards!TypeOK, CardHandler
  <1>2. h' = [h EXCEPT ![w] = n] /\ cardBegun' = cardBegun
    BY DEF Cards!Goes
  <1> HIDE DEF n
  <1> QED
    BY <1>1, <1>2, CardMove

LEMMA CardFails ==
  ASSUME CardTypes, Cards!Fails
  PROVE  cardFaults' \in 0..MaxFaults
  BY CardConstants DEF CardTypes, Cards!TypeOK, Cards!Fails

-----------------------------------------------------------------------------
(* The invariant.                                                          *)

(* No mark before there is a card; then as many as are written.            *)
MarksOf(s) ==
    /\ card[s] = Nothing => recalls[s] = 0
    /\ card[s] # Nothing =>
        /\ s \in sets /\ card[s].reps = recalls[s]
        /\ ~card[s].remembered => Cards!Due(card[s])

(* The card is inserted once, before anyone marks it.                      *)
WriterIsRight(w) ==
    /\ h[w].step = "insert" => h[w].set \in sets /\ card[h[w].set] = Nothing
    /\ h[w].step = "update" => card[h[w].set] # Nothing

OneInserter ==
    \A w, v \in Requests :
        h[w].step = "insert" /\ h[v].step = "insert" /\ h[w].set = h[v].set => w = v

MarksInv ==
    /\ \A s \in Sets : MarksOf(s)
    /\ \A w \in Requests : WriterIsRight(w)
    /\ OneInserter

(* What a reader has is stale only where the overlap is on record.         *)
ShownInv ==
    \A s \in Sets :
        /\ cache[s] # Nothing /\ cache[s].card # card[s] => s \in overlapped
        /\ \A w \in Requests :
            Cards!At(w, "read", "fill") /\ h[w].set = s /\ h[w].seen # card[s] => s \in overlapped

CardAll == CardTypes /\ Cards!QuotaCountsToday /\ MarksInv /\ ShownInv

LEMMA CardAllInit == Cards!Init => CardAll
  <1> SUFFICES ASSUME Cards!Init PROVE CardAll
    OBVIOUS
  <1> USE CardConstants
  <1>1. h = [w \in Requests |-> Cards!Idle] /\ h \in [Requests -> CardHandler]
    BY IdleIsCardHandler DEF Cards!Init
  <1>2. \A w \in Requests : h[w].step = "idle"
    BY <1>1, IdleIsCardHandler
  <1>3. /\ card = [s \in Sets |-> Nothing] /\ cache = [s \in Sets |-> Nothing]
        /\ recalls = [s \in Sets |-> 0]
    BY DEF Cards!Init
  <1>4. Cards!TypeOK
    BY <1>1, <1>3 DEF Cards!TypeOK, Cards!Init, CardHandler, Cards!Days, Cards!Kinds
  <1>5. CardTypes
    BY <1>2, <1>4 DEF CardTypes, HoldsItsSet
  <1>6. Cards!QuotaCountsToday
    BY DEF Cards!QuotaCountsToday, Cards!Init, Cards!Kinds, Cards!Limit
  <1>7. MarksInv
    BY <1>2, <1>3 DEF MarksInv, MarksOf, WriterIsRight, OneInserter
  <1>8. ShownInv
    BY <1>2, <1>3 DEF ShownInv, Cards!At
  <1> QED
    BY <1>5, <1>6, <1>7, <1>8 DEF CardAll

(* What a step of a handler that writes no card leaves.                    *)
LEMMA MarksStay ==
  ASSUME MarksInv, NEW w \in Requests, UNCHANGED <<cardDay, sets, card, recalls>>,
         \A v \in Requests \ {w} : h'[v] = h[v],
         h'[w].step \notin {"insert", "update"}
  PROVE  MarksInv'
  BY DEF MarksInv, MarksOf, WriterIsRight, OneInserter, Cards!Due

LEMMA ShownStays ==
  ASSUME ShownInv, NEW w \in Requests, UNCHANGED <<card, cache, overlapped>>,
         \A v \in Requests \ {w} : h'[v] = h[v],
         h'[w].step # "fill"
  PROVE  ShownInv'
  BY DEF ShownInv, Cards!At

LEMMA QuotaStays ==
  ASSUME Cards!QuotaCountsToday, UNCHANGED <<cardDay, quota, granted>>
  PROVE  Cards!QuotaCountsToday'
  BY DEF Cards!QuotaCountsToday

LEMMA SetsStay ==
  ASSUME CardTypes, NEW w \in Requests, \A v \in Requests \ {w} : h'[v] = h[v],
         HoldsItsSet(w)'
  PROVE  \A v \in Requests : HoldsItsSet(v)'
  BY DEF CardTypes, HoldsItsSet

(* A handler that moves, and writes nothing.                               *)
LEMMA CardOnlyMoves ==
  ASSUME CardAll, NEW w \in Requests,
         UNCHANGED <<cardDay, quota, sets, card, quizzes, cache, granted, recalls, overlapped>>,
         h' \in [Requests -> CardHandler], \A v \in Requests \ {w} : h'[v] = h[v],
         h'[w].step \notin {"insert", "update", "fill"}, HoldsItsSet(w)',
         cardBegun' \in 0..MaxCardRequests, cardFaults' \in 0..MaxFaults
  PROVE  CardAll'
  <1>1. Cards!TypeOK'
    BY DEF CardAll, CardTypes, Cards!TypeOK, CardHandler
  <1>2. CardTypes'
    BY <1>1, SetsStay DEF CardAll, CardTypes
  <1> QED
    BY <1>2, MarksStay, ShownStays, QuotaStays DEF CardAll

(* One more making of today is counted on the row.                         *)
LEMMA MakingIsCounted ==
  ASSUME CardTypes, Cards!QuotaCountsToday, NEW kind \in Cards!Kinds,
         Cards!Open(kind), UNCHANGED cardDay,
         quota' = Cards!Counted(kind),
         granted' = [granted EXCEPT ![kind] = @ + 1]
  PROVE  /\ Cards!QuotaCountsToday'
         /\ quota' \in [day : Cards!Days, used : [Cards!Kinds -> Nat]]
         /\ granted' \in [Cards!Kinds -> Nat]
  <1>0. /\ cardDay \in Nat /\ quota.day \in Nat /\ cardDay \in Cards!Days
        /\ quota.used \in [Cards!Kinds -> Nat]
        /\ granted \in [Cards!Kinds -> Nat]
        /\ \A k \in Cards!Kinds : Cards!Limit[k] \in Nat \ {0}
    BY CardConstants DEF CardTypes, Cards!TypeOK, Cards!Days, Cards!Limit, Cards!Kinds
  <1>1. granted' \in [Cards!Kinds -> Nat]
    BY <1>0
  <1>2. /\ quota'.day = cardDay /\ quota'.used \in [Cards!Kinds -> Nat]
        /\ quota' \in [day : Cards!Days, used : [Cards!Kinds -> Nat]]
        /\ \A k \in Cards!Kinds :
              quota'.used[k] = IF quota.day < cardDay THEN (IF k = kind THEN 1 ELSE 0)
                               ELSE (IF k = kind THEN quota.used[k] + 1 ELSE quota.used[k])
    BY <1>0 DEF Cards!Counted
  <1>3. ASSUME NEW k \in Cards!Kinds
        PROVE  granted'[k] = quota'.used[k] /\ granted'[k] <= Cards!Limit[k]
    <2>1. /\ granted[k] = IF quota.day = cardDay THEN quota.used[k] ELSE 0
          /\ granted[k] <= Cards!Limit[k] /\ quota.day <= cardDay
      BY DEF Cards!QuotaCountsToday
    <2>2. granted'[k] = IF k = kind THEN granted[k] + 1 ELSE granted[k]
      BY <1>0
    <2>3. k = kind => quota.day < cardDay \/ quota.used[k] < Cards!Limit[k]
      BY DEF Cards!Open
    <2> QED
      BY <1>0, <1>2, <2>1, <2>2, <2>3
  <1>4. Cards!QuotaCountsToday'
    BY <1>0, <1>2, <1>3 DEF Cards!QuotaCountsToday, Cards!Limit
  <1> QED
    BY <1>1, <1>2, <1>4

LEMMA CardMakes ==
  ASSUME CardAll, NEW w \in Requests, NEW kind \in Cards!Kinds, Cards!Open(kind),
         quota' = Cards!Counted(kind), granted' = [granted EXCEPT ![kind] = @ + 1],
         UNCHANGED <<cardDay, sets, card, quizzes, cache, cardFaults, recalls, overlapped>>,
         h' \in [Requests -> CardHandler], \A v \in Requests \ {w} : h'[v] = h[v],
         h'[w].step = "ask", cardBegun' \in 0..MaxCardRequests
  PROVE  CardAll'
  <1>1. /\ Cards!QuotaCountsToday'
        /\ quota' \in [day : Cards!Days, used : [Cards!Kinds -> Nat]]
        /\ granted' \in [Cards!Kinds -> Nat]
    BY MakingIsCounted DEF CardAll
  <1>2. Cards!TypeOK'
    BY <1>1 DEF CardAll, CardTypes, Cards!TypeOK, CardHandler
  <1>3. CardTypes'
    BY <1>2, SetsStay DEF CardAll, CardTypes, HoldsItsSet
  <1> QED
    BY <1>1, <1>3, MarksStay, ShownStays DEF CardAll

LEMMA SpendOK ==
  ASSUME CardAll, NEW w \in Requests, Cards!SpendCards(w) \/ Cards!SpendQuiz(w)
  PROVE  CardAll'
  <1> USE DEF CardAll
  <1>0. cardBegun \in 0..MaxCardRequests /\ cardFaults \in 0..MaxFaults
    BY DEF CardTypes, Cards!TypeOK
  <1>1. CASE Cards!SpendCards(w) /\ Cards!Open("cards")
    <2>1. Cards!Grant(w, "cards")
      BY <1>1 DEF Cards!SpendCards
    <2>2. Cards!Goes(w, "ask")
      BY <2>1 DEF Cards!Grant
    <2> QED
      BY <1>0, <1>1, <2>1, <2>2, CardGoes, CardMakes DEF Cards!Grant, Cards!rowVars, Cards!Kinds
  <1>2. CASE Cards!SpendCards(w) /\ ~Cards!Open("cards")
    <2>1. Cards!Refuse(w)
      BY <1>2 DEF Cards!SpendCards
    <2>2. HoldsItsSet(w)'
      BY <2>1, CardLeaves DEF Cards!Refuse, HoldsItsSet
    <2> QED
      BY <1>0, <2>1, <2>2, CardLeaves, CardOnlyMoves DEF Cards!Refuse, Cards!rowVars, Cards!history
  <1>3. CASE Cards!SpendQuiz(w)
    <2> DEFINE n == [Cards!Idle EXCEPT !.op = "quiz", !.step = "ask"]
    <2>1. n \in CardHandler /\ n.step = "ask"
      BY DEF Cards!Idle, CardHandler
    <2>2. Cards!Begins(w, n)
      BY <1>3 DEF Cards!SpendQuiz
    <2> HIDE DEF n
    <2> QED
      BY <1>0, <1>3, <2>1, <2>2, CardBegins, CardMakes DEF Cards!SpendQuiz, Cards!rowVars, Cards!Kinds
  <1> QED
    BY <1>1, <1>2, <1>3

(* Requests that begin, end or are refused.                                *)
LEMMA CardBeginsOrEnds ==
  ASSUME CardAll, NEW w \in Requests,
         Cards!CountSets(w) \/ Cards!GetNothing(w) \/ Cards!UpdateFails(w)
  PROVE  CardAll'
  <1> USE DEF CardAll
  <1>0. cardBegun \in 0..MaxCardRequests /\ cardFaults \in 0..MaxFaults
    BY DEF CardTypes, Cards!TypeOK
  <1>1. CASE Cards!CountSets(w)
    <2> DEFINE n == [Cards!Idle EXCEPT !.op = "cards", !.step = "quota"]
    <2>1. n \in CardHandler /\ n.step = "quota"
      BY DEF Cards!Idle, CardHandler
    <2>2. Cards!Begins(w, n)
      BY <1>1 DEF Cards!CountSets
    <2> HIDE DEF n
    <2>3. HoldsItsSet(w)'
      BY <2>1, <2>2, CardBegins DEF HoldsItsSet
    <2> QED
      BY <1>0, <1>1, <2>1, <2>2, <2>3, CardBegins, CardOnlyMoves
      DEF Cards!CountSets, Cards!rowVars, Cards!history
  <1>2. CASE Cards!GetNothing(w)
    <2>1. HoldsItsSet(w)'
      BY <1>2, CardLeaves DEF Cards!GetNothing, HoldsItsSet
    <2> QED
      BY <1>0, <1>2, <2>1, CardLeaves, CardOnlyMoves DEF Cards!GetNothing, Cards!rowVars, Cards!history
  <1>3. CASE Cards!UpdateFails(w)
    <2>1. HoldsItsSet(w)'
      BY <1>3, CardLeaves DEF Cards!UpdateFails, HoldsItsSet
    <2> QED
      BY <1>0, <1>3, <2>1, CardLeaves, CardFails, CardOnlyMoves
      DEF Cards!UpdateFails, Cards!rowVars, Cards!history
  <1> QED
    BY <1>1, <1>2, <1>3

LEMMA MissOK ==
  ASSUME CardAll, NEW w \in Requests, NEW s \in Sets, Cards!MissCache(w, s)
  PROVE  CardAll'
  <1> USE DEF CardAll
  <1>0. cardFaults \in 0..MaxFaults
    BY DEF CardTypes, Cards!TypeOK
  <1> DEFINE n == [Cards!Idle EXCEPT !.op = "read", !.step = "query", !.set = s]
  <1>1. n \in CardHandler /\ n.step = "query" /\ n.set = s
    BY DEF Cards!Idle, CardHandler
  <1>2. Cards!Begins(w, n)
    BY DEF Cards!MissCache
  <1> HIDE DEF n
  <1>3. HoldsItsSet(w)'
    BY <1>1, <1>2, CardBegins DEF HoldsItsSet
  <1> QED
    BY <1>0, <1>1, <1>2, <1>3, CardBegins, CardOnlyMoves
    DEF Cards!MissCache, Cards!rowVars, Cards!history
-----------------------------------------------------------------------------
(* Rows.                                                                   *)

LEMMA InsertSetOK ==
  ASSUME CardAll, NEW w \in Requests, NEW s \in Sets, Cards!InsertSet(w, s)
  PROVE  CardAll'
  <1> USE DEF CardAll
  <1> DEFINE n == [h[w] EXCEPT !.step = "insert", !.set = s]
  <1>1. n \in CardHandler /\ n.step = "insert" /\ n.set = s
    BY DEF CardTypes, Cards!TypeOK, CardHandler
  <1>2. h' = [h EXCEPT ![w] = n]
    BY DEF Cards!InsertSet
  <1> HIDE DEF n
  <1>3. /\ h' \in [Requests -> CardHandler] /\ h'[w] = n
        /\ \A v \in Requests \ {w} : h'[v] = h[v]
    BY <1>1, <1>2, CardMove
  <1>4. /\ sets' = sets \cup {s} /\ s \notin sets
        /\ UNCHANGED <<cardDay, quota, card, quizzes, cache, cardBegun, cardFaults,
                       granted, recalls, overlapped>>
    BY DEF Cards!InsertSet, Cards!history
  <1>5. CardTypes'
    <2>1. Cards!TypeOK'
      BY <1>3, <1>4 DEF CardTypes, Cards!TypeOK, CardHandler
    <2>2. HoldsItsSet(w)'
      BY <1>1, <1>3 DEF HoldsItsSet
    <2> QED
      BY <1>3, <2>1, <2>2, SetsStay DEF CardTypes
  <1>6. MarksInv'
    <2>1. card[s] = Nothing
      BY <1>4 DEF MarksInv, MarksOf
    <2>2. \A t \in Sets : MarksOf(t)'
      BY <1>4 DEF MarksInv, MarksOf, Cards!Due
    <2>3. \A v \in Requests : WriterIsRight(v)'
      BY <1>1, <1>3, <1>4, <2>1 DEF MarksInv, WriterIsRight
    <2>4. \A v \in Requests \ {w} : ~(h'[v].step = "insert" /\ h'[v].set = s)
      BY <1>3, <1>4 DEF MarksInv, WriterIsRight
    <2>5. OneInserter'
      BY <1>1, <1>3, <2>4 DEF MarksInv, OneInserter
    <2> QED
      BY <2>2, <2>3, <2>5 DEF MarksInv
  <1>7. ShownInv'
    BY <1>1, <1>3, <1>4, ShownStays
  <1>8. Cards!QuotaCountsToday'
    BY <1>4, QuotaStays
  <1> QED
    BY <1>5, <1>6, <1>7, <1>8

(* A write to the card of s: to readers and to the cache it is an overlap. *)
LEMMA ShownWritten ==
  ASSUME CardTypes, ShownInv, NEW w \in Requests, NEW s \in Sets,
         Cards!Writes(s), NEW c, card' = [card EXCEPT ![s] = c], UNCHANGED cache,
         \A v \in Requests \ {w} : h'[v] = h[v], h'[w].step # "fill"
  PROVE  ShownInv' /\ overlapped' \subseteq Sets
  <1>1. \A t \in Sets \ {s} : card'[t] = card[t]
    BY DEF CardTypes, Cards!TypeOK
  <1>2. overlapped \subseteq overlapped' /\ overlapped' \subseteq overlapped \cup {s}
    BY DEF Cards!Writes
  <1>3. \/ s \in overlapped'
        \/ cache[s] = Nothing /\ \A v \in Requests : ~(Cards!At(v, "read", "fill") /\ h[v].set = s)
    BY DEF Cards!Writes
  <1>4. overlapped' \subseteq Sets
    BY <1>2 DEF CardTypes, Cards!TypeOK
  <1>5. ASSUME NEW t \in Sets, cache'[t] # Nothing, cache'[t].card # card'[t]
        PROVE  t \in overlapped'
    BY <1>1, <1>2, <1>3, <1>5 DEF ShownInv
  <1>6. ASSUME NEW t \in Sets, NEW v \in Requests, Cards!At(v, "read", "fill")',
               h'[v].set = t, h'[v].seen # card'[t]
        PROVE  t \in overlapped'
    <2>1. v # w /\ h'[v] = h[v] /\ Cards!At(v, "read", "fill")
      BY <1>6 DEF Cards!At
    <2> QED
      BY <1>1, <1>2, <1>3, <1>6, <2>1 DEF ShownInv
  <1> QED
    BY <1>4, <1>5, <1>6 DEF ShownInv

LEMMA InsertCardOK ==
  ASSUME CardAll, NEW w \in Requests, Cards!InsertCard(w)
  PROVE  CardAll'
  <1> USE DEF CardAll
  <1>s. h[w].set \in Sets
    BY DEF Cards!InsertCard, Cards!At, CardTypes, HoldsItsSet
  <1>p. PICK s \in Sets : s = h[w].set
    BY <1>s
  <1>0. /\ h[w].step = "insert" /\ s \in sets /\ card[s] = Nothing
        /\ cardBegun \in 0..MaxCardRequests /\ cardFaults \in 0..MaxFaults
    BY <1>p DEF Cards!InsertCard, Cards!At, CardTypes, MarksInv, WriterIsRight, Cards!TypeOK
  <1>1. /\ h' \in [Requests -> CardHandler] /\ h'[w].step = "idle"
        /\ \A v \in Requests \ {w} : h'[v] = h[v]
        /\ cardBegun' = cardBegun
    BY CardLeaves DEF Cards!InsertCard
  <1>2. HoldsItsSet(w)'
    BY <1>1 DEF HoldsItsSet
  <1>3. UNCHANGED <<cardDay, quota, sets, quizzes, cache, granted, recalls>>
    BY DEF Cards!InsertCard
  <1>4. CASE Cards!Fails /\ UNCHANGED <<card, overlapped>>
    BY <1>0, <1>1, <1>2, <1>3, <1>4, CardFails, CardOnlyMoves
  <1>5. CASE /\ card' = [card EXCEPT ![s] = Cards!NewCard]
             /\ Cards!Writes(s) /\ UNCHANGED cardFaults
    <2>1. card' \in [Sets -> Cards!CardRow \cup {Nothing}]
      BY <1>0, <1>5, NewCardIsRow DEF CardTypes, Cards!TypeOK
    <2>2. ShownInv' /\ overlapped' \subseteq Sets
      BY <1>1, <1>3, <1>5, ShownWritten
    <2>3. CardTypes'
      <3>1. Cards!TypeOK'
        BY <1>0, <1>1, <1>3, <1>5, <2>1, <2>2 DEF CardTypes, Cards!TypeOK, CardHandler
      <3> QED
        BY <1>1, <1>2, <3>1, SetsStay DEF CardTypes
    <2>4. card'[s] = Cards!NewCard /\ \A t \in Sets \ {s} : card'[t] = card[t]
      BY <1>0, <1>5 DEF CardTypes, Cards!TypeOK
    <2>5. \A t \in Sets : MarksOf(t)'
      <3>1. MarksOf(s)'
        <4>1. recalls[s] = 0
          BY <1>0 DEF MarksInv, MarksOf
        <4>2. Cards!NewCard.reps = 0 /\ Cards!NewCard.next = Nothing
          BY DEF Cards!NewCard
        <4> QED
          BY <1>0, <1>3, <2>4, <4>1, <4>2 DEF MarksOf, Cards!Due
      <3>2. \A t \in Sets \ {s} : MarksOf(t)'
        BY <1>3, <2>4 DEF MarksInv, MarksOf, Cards!Due
      <3> QED
        BY <3>1, <3>2
    <2>6. \A v \in Requests \ {w} : ~(h[v].step = "insert" /\ h[v].set = s)
      BY <1>0, <1>p DEF MarksInv, OneInserter
    <2>7. Cards!NewCard # Nothing
      BY CardConstants, NewCardIsRow
    <2>8. ASSUME NEW v \in Requests PROVE WriterIsRight(v)'
      <3>1. CASE v = w
        BY <1>1, <3>1 DEF WriterIsRight
      <3>2. CASE v # w
        <4>1. h'[v] = h[v] /\ WriterIsRight(v)
          BY <1>1, <3>2 DEF MarksInv
        <4>2. h[v].step \in {"insert", "update"} => h[v].set \in Sets
          BY DEF CardTypes, HoldsItsSet
        <4>3. h[v].step = "insert" => h[v].set # s
          BY <2>6, <3>2
        <4> QED
          BY <1>3, <2>4, <2>7, <4>1, <4>2, <4>3 DEF WriterIsRight
      <3> QED
        BY <3>1, <3>2
    <2>9. OneInserter'
      BY <1>1 DEF MarksInv, OneInserter
    <2>10. MarksInv'
      BY <2>5, <2>8, <2>9 DEF MarksInv
    <2> QED
      BY <1>3, <2>2, <2>3, <2>10, QuotaStays
  <1> QED
    BY <1>p, <1>4, <1>5 DEF Cards!InsertCard

LEMMA InsertQuizOK ==
  ASSUME CardAll, NEW w \in Requests, Cards!InsertQuiz(w)
  PROVE  CardAll'
  <1> USE DEF CardAll
  <1>1. /\ h' \in [Requests -> CardHandler] /\ h'[w].step = "idle"
        /\ \A v \in Requests \ {w} : h'[v] = h[v]
        /\ cardBegun' = cardBegun
    BY CardLeaves DEF Cards!InsertQuiz
  <1>2. /\ UNCHANGED <<cardDay, quota, sets, card, cache, cardFaults, granted, recalls, overlapped>>
        /\ quizzes' = quizzes + 1
    BY DEF Cards!InsertQuiz, Cards!history
  <1>3. Cards!TypeOK'
    BY <1>1, <1>2 DEF CardTypes, Cards!TypeOK, CardHandler
  <1>4. CardTypes'
    BY <1>1, <1>3, SetsStay DEF CardTypes, HoldsItsSet
  <1> QED
    BY <1>1, <1>2, <1>4, MarksStay, ShownStays, QuotaStays

-----------------------------------------------------------------------------
(* Readers.                                                                *)

LEMMA QueryOK ==
  ASSUME CardAll, NEW w \in Requests, Cards!QueryCards(w)
  PROVE  CardAll'
  <1> USE DEF CardAll
  <1>0. h[w].set \in Sets /\ card[h[w].set] \in Cards!CardRow \cup {Nothing}
    BY DEF Cards!QueryCards, Cards!At, CardTypes, HoldsItsSet, Cards!TypeOK
  <1> DEFINE n == [h[w] EXCEPT !.step = "fill", !.seen = card[h[w].set]]
  <1>1. n \in CardHandler /\ n.step = "fill" /\ n.set = h[w].set /\ n.seen = card[h[w].set]
    BY <1>0 DEF CardTypes, Cards!TypeOK, CardHandler
  <1>2. h' = [h EXCEPT ![w] = n]
    BY DEF Cards!QueryCards
  <1> HIDE DEF n
  <1>3. /\ h' \in [Requests -> CardHandler] /\ h'[w] = n
        /\ \A v \in Requests \ {w} : h'[v] = h[v]
    BY <1>1, <1>2, CardMove
  <1>4. UNCHANGED <<cardDay, quota, sets, card, quizzes, cache, cardBegun, cardFaults,
                    granted, recalls, overlapped>>
    BY DEF Cards!QueryCards, Cards!rowVars, Cards!history
  <1>5. CardTypes'
    <2>1. Cards!TypeOK'
      BY <1>3, <1>4 DEF CardTypes, Cards!TypeOK, CardHandler
    <2>2. HoldsItsSet(w)'
      BY <1>0, <1>1, <1>3 DEF HoldsItsSet
    <2> QED
      BY <1>3, <2>1, <2>2, SetsStay DEF CardTypes
  <1>6. ShownInv'
    BY <1>1, <1>3, <1>4 DEF ShownInv, Cards!At
  <1> QED
    BY <1>1, <1>3, <1>4, <1>5, <1>6, MarksStay, QuotaStays

LEMMA FillOK ==
  ASSUME CardAll, NEW w \in Requests, Cards!FillCache(w)
  PROVE  CardAll'
  <1> USE DEF CardAll
  <1>s. h[w].set \in Sets
    BY DEF Cards!FillCache, Cards!At, CardTypes, HoldsItsSet
  <1>p. PICK s \in Sets : s = h[w].set
    BY <1>s
  <1> DEFINE e == [card |-> h[w].seen]
  <1>0. Cards!At(w, "read", "fill") /\ h[w].seen \in Cards!CardRow \cup {Nothing}
    BY DEF Cards!FillCache, CardTypes, Cards!TypeOK
  <1>1. /\ h' \in [Requests -> CardHandler] /\ h'[w].step = "idle"
        /\ \A v \in Requests \ {w} : h'[v] = h[v]
        /\ cardBegun' = cardBegun
    BY CardLeaves DEF Cards!FillCache
  <1>2. /\ UNCHANGED <<cardDay, quota, sets, card, quizzes, cardFaults, granted, recalls, overlapped>>
        /\ cache' = [cache EXCEPT ![s] = e]
    BY <1>p DEF Cards!FillCache, Cards!rowVars, Cards!history
  <1>3. e \in [card : Cards!CardRow \cup {Nothing}] /\ e.card = h[w].seen
    BY <1>0
  <1> HIDE DEF e
  <1>4. Cards!TypeOK'
    BY <1>0, <1>1, <1>2, <1>3 DEF CardTypes, Cards!TypeOK, CardHandler
  <1>5. CardTypes'
    BY <1>1, <1>4, SetsStay DEF CardTypes, HoldsItsSet
  <1>6. cache'[s] = e /\ \A t \in Sets \ {s} : cache'[t] = cache[t]
    BY <1>0, <1>2 DEF CardTypes, Cards!TypeOK
  <1>7. e.card # card[s] => s \in overlapped
    BY <1>0, <1>p, <1>3 DEF ShownInv
  <1>8. ShownInv'
    BY <1>1, <1>2, <1>6, <1>7 DEF ShownInv, Cards!At
  <1> QED
    BY <1>1, <1>2, <1>5, <1>8, MarksStay, QuotaStays

(* The entry of s goes; with it the overlap, if no reader has an old card. *)
LEMMA ShownDropped ==
  ASSUME CardTypes, ShownInv, NEW s \in Sets, UNCHANGED card,
         cache' = [cache EXCEPT ![s] = Nothing],
         overlapped' = IF Cards!Over(s) THEN overlapped \ {s} ELSE overlapped,
         \A v \in Requests : Cards!At(v, "read", "fill")' => h'[v] = h[v]
  PROVE  /\ ShownInv' /\ overlapped' \subseteq Sets
         /\ cache' \in [Sets -> [card : Cards!CardRow \cup {Nothing}] \cup {Nothing}]
  <1>1. cache'[s] = Nothing /\ \A t \in Sets \ {s} : cache'[t] = cache[t]
    BY DEF CardTypes, Cards!TypeOK
  <1>2. \A t \in Sets \ {s} : t \in overlapped => t \in overlapped'
    OBVIOUS
  <1>3. s \in overlapped => s \in overlapped' \/ Cards!Over(s)
    OBVIOUS
  <1>4. ASSUME NEW t \in Sets, NEW v \in Requests, Cards!At(v, "read", "fill")',
               h'[v].set = t, h'[v].seen # card'[t]
        PROVE  t \in overlapped'
    <2>1. h'[v] = h[v] /\ Cards!At(v, "read", "fill")
      BY <1>4 DEF Cards!At
    <2>2. t \in overlapped
      BY <1>4, <2>1 DEF ShownInv
    <2>3. t = s => ~Cards!Over(s)
      BY <1>4, <2>1 DEF Cards!Over
    <2> QED
      BY <1>2, <1>3, <2>2, <2>3
  <1>5. ASSUME NEW t \in Sets, cache'[t] # Nothing, cache'[t].card # card'[t]
        PROVE  t \in overlapped'
    BY <1>1, <1>2, <1>5 DEF ShownInv
  <1>6. /\ overlapped' \subseteq Sets
        /\ cache' \in [Sets -> [card : Cards!CardRow \cup {Nothing}] \cup {Nothing}]
    BY DEF CardTypes, Cards!TypeOK
  <1> QED
    BY <1>4, <1>5, <1>6 DEF ShownInv

LEMMA ExpiresOK ==
  ASSUME CardAll, NEW s \in Sets, Cards!CacheExpires(s)
  PROVE  CardAll'
  <1> USE DEF CardAll
  <1>1. UNCHANGED <<cardDay, quota, sets, card, quizzes, h, cardBegun, cardFaults, granted, recalls>>
    BY DEF Cards!CacheExpires, Cards!rowVars
  <1>2. /\ ShownInv' /\ overlapped' \subseteq Sets
        /\ cache' \in [Sets -> [card : Cards!CardRow \cup {Nothing}] \cup {Nothing}]
    BY <1>1, ShownDropped DEF Cards!CacheExpires
  <1>3. CardTypes'
    BY <1>1, <1>2 DEF CardTypes, Cards!TypeOK, HoldsItsSet
  <1>4. MarksInv'
    BY <1>1 DEF MarksInv, MarksOf, WriterIsRight, OneInserter, Cards!Due
  <1> QED
    BY <1>1, <1>2, <1>3, <1>4, QuotaStays
-----------------------------------------------------------------------------
(* Marks.                                                                  *)

LEMMA ReadMarkOK ==
  ASSUME CardAll, NEW w \in Requests, NEW s \in Sets, NEW quality \in Qualities,
         Cards!ReadMark(w, s, quality)
  PROVE  CardAll'
  <1> USE DEF CardAll
  <1> DEFINE n == [op |-> "mark", step |-> "update", set |-> s,
                   seen |-> card[s], quality |-> quality]
  <1>0. card[s] \in Cards!CardRow /\ card[s] # Nothing
    BY DEF Cards!ReadMark, CardTypes, Cards!TypeOK
  <1>1. /\ n \in CardHandler /\ n.step = "update" /\ n.set = s /\ n.seen = card[s]
    BY <1>0 DEF CardHandler
  <1>2. Cards!Begins(w, n)
    BY DEF Cards!ReadMark
  <1> HIDE DEF n
  <1>3. /\ h' \in [Requests -> CardHandler] /\ h'[w] = n
        /\ \A v \in Requests \ {w} : h'[v] = h[v]
        /\ cardBegun' \in 0..MaxCardRequests
    BY <1>1, <1>2, CardBegins
  <1>4. UNCHANGED <<cardDay, quota, sets, card, quizzes, cache, cardFaults,
                    granted, recalls, overlapped>>
    BY DEF Cards!ReadMark, Cards!rowVars, Cards!history
  <1>5. CardTypes'
    <2>1. Cards!TypeOK'
      BY <1>3, <1>4 DEF CardTypes, Cards!TypeOK, CardHandler
    <2>2. HoldsItsSet(w)'
      BY <1>0, <1>1, <1>3 DEF HoldsItsSet
    <2> QED
      BY <1>3, <2>1, <2>2, SetsStay DEF CardTypes
  <1>6. MarksInv'
    BY <1>0, <1>1, <1>3, <1>4 DEF MarksInv, MarksOf, WriterIsRight, OneInserter, Cards!Due
  <1> QED
    BY <1>1, <1>3, <1>4, <1>5, <1>6, ShownStays, QuotaStays

LEMMA UpdateOK ==
  ASSUME CardAll, NEW w \in Requests, Cards!UpdateCard(w)
  PROVE  CardAll'
  <1> USE DEF CardAll
  <1>s. h[w].set \in Sets /\ h[w].step = "update"
    BY DEF Cards!UpdateCard, Cards!At, CardTypes, HoldsItsSet
  <1>p. PICK s \in Sets : s = h[w].set
    BY <1>s
  <1>c. PICK c : c = Cards!Marked(w)
    OBVIOUS
  <1>0. card[s] # Nothing /\ card[s] \in Cards!CardRow /\ recalls[s] \in Nat
    BY <1>s, <1>p DEF MarksInv, WriterIsRight, CardTypes, Cards!TypeOK
  <1>1. /\ c \in Cards!CardRow /\ c # Nothing
        /\ c.reps = card[s].reps + IF h[w].quality >= 3 THEN 1 ELSE 0
        /\ ~c.remembered => c.next = cardDay + 1
        /\ h[w].quality \in Int
    BY <1>s, <1>p, <1>c, <1>0, MarkedIsRow, CardConstants
  <1>2. /\ card' = [card EXCEPT ![s] = c]
        /\ recalls' = IF h[w].quality >= 3 THEN [recalls EXCEPT ![s] = @ + 1] ELSE recalls
        /\ Cards!Writes(s) /\ Cards!Goes(w, "uncache")
        /\ UNCHANGED <<cardDay, quota, sets, quizzes, cache, cardFaults, granted>>
    BY <1>p, <1>c DEF Cards!UpdateCard
  <1>3. /\ h' \in [Requests -> CardHandler] /\ h'[w].step = "uncache" /\ h'[w].set = s
        /\ \A v \in Requests \ {w} : h'[v] = h[v]
        /\ cardBegun' = cardBegun
    BY <1>2, <1>p, CardGoes
  <1>4. ShownInv' /\ overlapped' \subseteq Sets
    BY <1>2, <1>3, ShownWritten
  <1>5. /\ card'[s] = c /\ recalls'[s] = recalls[s] + IF h[w].quality >= 3 THEN 1 ELSE 0
        /\ \A t \in Sets \ {s} : card'[t] = card[t] /\ recalls'[t] = recalls[t]
        /\ card' \in [Sets -> Cards!CardRow \cup {Nothing}] /\ recalls' \in [Sets -> Nat]
    BY <1>0, <1>1, <1>2 DEF CardTypes, Cards!TypeOK
  <1>6. CardTypes'
    <2>1. Cards!TypeOK'
      BY <1>2, <1>3, <1>4, <1>5 DEF CardTypes, Cards!TypeOK, CardHandler
    <2>2. HoldsItsSet(w)'
      BY <1>3 DEF HoldsItsSet
    <2> QED
      BY <1>3, <2>1, <2>2, SetsStay DEF CardTypes
  <1>7. \A t \in Sets : MarksOf(t)'
    <2>1. MarksOf(s)'
      <3>1. s \in sets' /\ card[s].reps = recalls[s]
        BY <1>0, <1>2 DEF MarksInv, MarksOf
      <3>2. c.reps = recalls'[s]
        BY <1>1, <1>5, <3>1
      <3>3. ~c.remembered => Cards!Due(c)'
        <4>1. cardDay' = cardDay /\ cardDay \in Nat
          BY <1>2, CardConstants DEF CardTypes, Cards!TypeOK, Cards!Days
        <4> QED
          BY <1>1, <4>1 DEF Cards!Due
      <3> QED
        BY <1>1, <1>5, <3>1, <3>2, <3>3 DEF MarksOf, Cards!Due
    <2>2. \A t \in Sets \ {s} : MarksOf(t)'
      BY <1>2, <1>5 DEF MarksInv, MarksOf, Cards!Due
    <2> QED
      BY <2>1, <2>2
  <1>8. ASSUME NEW v \in Requests PROVE WriterIsRight(v)'
    <2>1. CASE v = w
      BY <1>3, <2>1 DEF WriterIsRight
    <2>2. CASE v # w
      <3>1. h'[v] = h[v] /\ WriterIsRight(v)
        BY <1>3, <2>2 DEF MarksInv
      <3>2. h[v].step \in {"insert", "update"} => h[v].set \in Sets
        BY DEF CardTypes, HoldsItsSet
      <3> QED
        BY <1>0, <1>1, <1>2, <1>5, <3>1, <3>2 DEF WriterIsRight
    <2> QED
      BY <2>1, <2>2
  <1>9. OneInserter'
    BY <1>3 DEF MarksInv, OneInserter
  <1>10. MarksInv'
    BY <1>7, <1>8, <1>9 DEF MarksInv
  <1> QED
    BY <1>2, <1>4, <1>6, <1>10, QuotaStays

LEMMA UncacheOK ==
  ASSUME CardAll, NEW w \in Requests, Cards!Uncache(w)
  PROVE  CardAll'
  <1> USE DEF CardAll
  <1>s. h[w].set \in Sets
    BY DEF Cards!Uncache, Cards!At, CardTypes, HoldsItsSet
  <1>p. PICK s \in Sets : s = h[w].set
    BY <1>s
  <1>0. cardBegun \in 0..MaxCardRequests
    BY DEF CardTypes, Cards!TypeOK
  <1>1. /\ h' \in [Requests -> CardHandler] /\ h'[w].step = "idle"
        /\ \A v \in Requests \ {w} : h'[v] = h[v]
        /\ cardBegun' = cardBegun
    BY CardLeaves DEF Cards!Uncache
  <1>2. UNCHANGED <<cardDay, quota, sets, card, quizzes, granted, recalls>>
    BY DEF Cards!Uncache, Cards!rowVars
  <1>3. HoldsItsSet(w)'
    BY <1>1 DEF HoldsItsSet
  <1>4. CASE Cards!Fails /\ UNCHANGED <<cache, overlapped>>
    BY <1>0, <1>1, <1>2, <1>3, <1>4, CardFails, CardOnlyMoves
  <1>5. CASE /\ cache' = Cards!Dropped(s)
             /\ overlapped' = IF Cards!Over(s) THEN overlapped \ {s} ELSE overlapped
             /\ UNCHANGED cardFaults
    <2>1. \A v \in Requests : Cards!At(v, "read", "fill")' => h'[v] = h[v]
      BY <1>1 DEF Cards!At
    <2>2. /\ ShownInv' /\ overlapped' \subseteq Sets
          /\ cache' \in [Sets -> [card : Cards!CardRow \cup {Nothing}] \cup {Nothing}]
      BY <1>2, <1>5, <2>1, ShownDropped DEF Cards!Dropped
    <2>3. Cards!TypeOK'
      BY <1>0, <1>1, <1>2, <1>5, <2>2 DEF CardTypes, Cards!TypeOK, CardHandler
    <2>4. CardTypes'
      BY <1>1, <1>3, <2>3, SetsStay DEF CardTypes
    <2> QED
      BY <1>1, <1>2, <2>2, <2>4, MarksStay, QuotaStays
  <1> QED
    BY <1>p, <1>4, <1>5 DEF Cards!Uncache

LEMMA MidnightOK ==
  ASSUME CardAll, Cards!Midnight
  PROVE  CardAll'
  <1> USE DEF CardAll
  <1>0. /\ cardDay \in Nat /\ quota.day \in Nat /\ quota.day <= cardDay
        /\ cardDay' = cardDay + 1 /\ cardDay' \in Cards!Days
        /\ granted' = [k \in Cards!Kinds |-> 0]
        /\ UNCHANGED <<quota, sets, card, quizzes, cache, h, cardBegun, cardFaults, recalls, overlapped>>
    BY CardConstants
    DEF CardTypes, Cards!TypeOK, Cards!Days, Cards!Midnight, Cards!rowVars, Cards!QuotaCountsToday
  <1>1. CardTypes'
    <2>1. granted' \in [Cards!Kinds -> Nat]
      BY <1>0
    <2> QED
      BY <1>0, <2>1 DEF CardTypes, Cards!TypeOK, HoldsItsSet
  <1>2. Cards!QuotaCountsToday'
    <2>1. \A k \in Cards!Kinds : Cards!Limit[k] \in Nat
      BY CardConstants DEF Cards!Limit, Cards!Kinds
    <2> QED
      BY <1>0, <2>1 DEF Cards!QuotaCountsToday, Cards!Limit
  <1>3. ASSUME NEW t \in Sets PROVE MarksOf(t)'
    <2>1. card[t] # Nothing => card[t].next \in Nat \cup {Nothing}
      BY DEF CardTypes, Cards!TypeOK, Cards!CardRow
    <2>2. MarksOf(t)
      BY DEF MarksInv
    <2>3. card[t] # Nothing /\ Cards!Due(card[t]) => Cards!Due(card[t])'
      BY <1>0, <2>1 DEF Cards!Due
    <2> QED
      BY <1>0, <2>2, <2>3 DEF MarksOf, Cards!Due
  <1>4. MarksInv'
    BY <1>0, <1>3 DEF MarksInv, WriterIsRight, OneInserter
  <1>5. ShownInv'
    BY <1>0 DEF ShownInv, Cards!At
  <1> QED
    BY <1>1, <1>2, <1>4, <1>5

LEMMA CardStep ==
  ASSUME CardAll, [Cards!Next]_(Cards!vars)
  PROVE  CardAll'
  <1>1. CASE \E w \in Requests :
               \/ Cards!SpendCards(w) \/ Cards!SpendQuiz(w)
               \/ Cards!InsertCard(w) \/ Cards!InsertQuiz(w)
               \/ Cards!QueryCards(w) \/ Cards!FillCache(w)
               \/ Cards!UpdateCard(w) \/ Cards!Uncache(w)
    BY <1>1, SpendOK, InsertCardOK, InsertQuizOK, QueryOK, FillOK, UpdateOK, UncacheOK
  <1>2. CASE \E w \in Requests, s \in Sets : Cards!InsertSet(w, s) \/ Cards!MissCache(w, s)
    BY <1>2, InsertSetOK, MissOK
  <1>3. CASE \E w \in Requests : Cards!CountSets(w) \/ Cards!GetNothing(w) \/ Cards!UpdateFails(w)
    BY <1>3, CardBeginsOrEnds
  <1>4. CASE \E w \in Requests : \E s \in Sets, quality \in Qualities : Cards!ReadMark(w, s, quality)
    BY <1>4, ReadMarkOK
  <1>5. CASE \E s \in Sets : Cards!CacheExpires(s)
    BY <1>5, ExpiresOK
  <1>6. CASE Cards!Midnight
    BY <1>6, MidnightOK
  <1>7. CASE UNCHANGED Cards!vars
    BY <1>7 DEF Cards!vars, Cards!rowVars, Cards!history, CardAll, CardTypes, Cards!TypeOK, HoldsItsSet,
       Cards!QuotaCountsToday, MarksInv, MarksOf, WriterIsRight, OneInserter, Cards!Due,
       ShownInv, Cards!At
  <1> QED
    BY <1>1, <1>2, <1>3, <1>4, <1>5, <1>6, <1>7 DEF Cards!Next

LEMMA CardsStart == ASSUME side = "cards", ServicesInit PROVE Cards!Init
  BY DEF ServicesInit

LEMMA CardsStep ==
  ASSUME side' = "cards", [ServicesNext]_servicesVars
  PROVE  side = "cards" /\ [Cards!Next]_(Cards!vars)
  BY DEF ServicesNext, servicesVars, cardVars, Cards!vars, Cards!rowVars, Cards!history

CardSide == side = "cards" => CardAll

LEMMA CardSideHolds == ServicesSpec => []CardSide
  <1>1. ServicesInit => CardSide
    BY CardsStart, CardAllInit DEF CardSide
  <1>2. CardSide /\ [ServicesNext]_servicesVars => CardSide'
    BY CardsStep, CardStep DEF CardSide
  <1> QED
    BY <1>1, <1>2, PTL DEF ServicesSpec

LEMMA CardsKeepFaith ==
  ASSUME CardAll
  PROVE  Cards!RecallsAreCounted /\ Cards!ShownSetIsCurrent
  <1>1. sets \subseteq Sets
    BY DEF CardAll, CardTypes, Cards!TypeOK
  <1>2. Cards!RecallsAreCounted
    BY <1>1 DEF CardAll, MarksInv, MarksOf, Cards!RecallsAreCounted
  <1>3. Cards!ShownSetIsCurrent
    BY <1>1 DEF CardAll, ShownInv, Cards!ShownSetIsCurrent
  <1> QED
    BY <1>2, <1>3

-----------------------------------------------------------------------------
(* Progress, beside the other services.                                    *)

(* The operators of the standard modules, as the instances name them.      *)
LEMMA StudySets ==
  /\ \A S : Study!Cardinality(S) = Cardinality(S)
  /\ \A S : Study!IsFiniteSet(S) <=> IsFiniteSet(S)
  <1>1. \A S : Study!Cardinality(S) = Cardinality(S)
    BY DEF Study!Cardinality, Cardinality
  <1>2. \A S : Study!IsFiniteSet(S) <=> IsFiniteSet(S)
    BY DEF Study!IsFiniteSet, IsFiniteSet
  <1> QED
    BY <1>1, <1>2

LEMMA StudyConstants ==
  /\ Week \in Nat \ {0} /\ DayLength \in Nat \ {0}
  /\ Chunks \subseteq Nat /\ IsFiniteSet(Questions)
  /\ LastHour \in Nat /\ MaxActions \in Nat /\ MaxFaults \in Nat
  /\ Nothing \notin Study!StreakRow /\ Nothing \notin Study!PlanRow
  <1>1. Study!ProgressAssumption /\ Study!NoneAssumption
    BY ServicesAssumption
  <1> QED
    BY <1>1, StudySets DEF Study!ProgressAssumption, Study!NoneAssumption

(* Arithmetic.                                                             *)
LEMMA Quotient ==
  ASSUME NEW a \in Int, NEW b \in Nat \ {0}
  PROVE  /\ a \div b \in Int
         /\ (a \div b) * b <= a /\ a < (a \div b) * b + b
         /\ a >= 0 => a \div b >= 0
  BY Z3

LEMMA QuotientGrows ==
  ASSUME NEW a \in Int, NEW c \in Int, NEW b \in Nat \ {0}, a <= c
  PROVE  a \div b <= c \div b
  BY Z3

LEMMA QuotientOfSuccessor ==
  ASSUME NEW a \in Nat, NEW b \in Nat \ {0}
  PROVE  (a + 1) \div b \in {a \div b, (a \div b) + 1}
  BY Z3

LEMMA ShareOfHundred ==
  ASSUME NEW c \in Nat, NEW n \in Nat \ {0}, c <= n
  PROVE  (100 * c) \div n \in 0..100
  BY Z3

(* The number of equal parts of size b that hold a: enough, and with one   *)
(* part less not enough.                                                   *)
LEMMA Ceiling ==
  ASSUME NEW a \in Nat, NEW b \in Nat \ {0}
  PROVE  /\ Study!CeilDiv(a, b) \in Nat
         /\ Study!CeilDiv(a, b) * b >= a
         /\ (Study!CeilDiv(a, b) - 1) * b < a
  <1>1. Study!CeilDiv(a, b) = (a + b - 1) \div b
    BY DEF Study!CeilDiv
  <1>2. /\ (a + b - 1) \div b \in Nat
        /\ ((a + b - 1) \div b) * b >= a
        /\ ((a + b - 1) \div b - 1) * b < a
    BY Z3
  <1> QED
    BY <1>1, <1>2

(* Whole days from an hour to the first hour of a day.                     *)
LEMMA WholeDays ==
  ASSUME NEW n \in Nat, NEW a \in Nat, NEW b \in Nat \ {0}
  PROVE  (n * b - a + b - 1) \div b = n - (a \div b)
  BY Z3

LEMMA BadgeList ==
  /\ Study!Len(Study!badgeDefs) = 3
  /\ Study!badgeDefs[1] = "first_quiz" /\ Study!badgeDefs[2] = "quiz_master"
  /\ Study!badgeDefs[3] = "week_streak"
  /\ \A n \in 1..3 : Study!badgeDefs[n] \in Study!Badges
  /\ Study!Badges = {"first_quiz", "quiz_master", "week_streak"}
  <1>1. /\ Study!Len(Study!badgeDefs) = 3
        /\ Study!badgeDefs[1] = "first_quiz" /\ Study!badgeDefs[2] = "quiz_master"
        /\ Study!badgeDefs[3] = "week_streak"
    BY DEF Study!badgeDefs
  <1>2. Study!Badges = {Study!badgeDefs[n] : n \in 1..3}
    BY <1>1 DEF Study!Badges
  <1>3. 1..3 = {1, 2, 3}
    OBVIOUS
  <1> QED
    BY <1>1, <1>2, <1>3

LEMMA ScoreIsShare ==
  ASSUME NEW answers \in Study!Answers
  PROVE  Study!Score(answers) \in 0..100
  <1>1. PICK asked \in SUBSET Questions : answers \in [asked -> Study!Right \cup {Nothing}]
    BY DEF Study!Answers
  <1> DEFINE correct == {q \in DOMAIN answers : Study!Option(answers[q]) = 1}
  <1>2. DOMAIN answers = asked /\ IsFiniteSet(asked)
    BY <1>1, StudyConstants, FS_Subset
  <1>3. IsFiniteSet(correct) /\ Cardinality(correct) <= Cardinality(asked)
    BY <1>2, FS_Subset
  <1>4. Cardinality(correct) \in Nat /\ Cardinality(asked) \in Nat
    BY <1>2, <1>3, FS_CardinalityType
  <1>5. CASE answers = << >>
    BY <1>5 DEF Study!Score
  <1>6. CASE answers # << >>
    <2>1. asked # {}
      <3> SUFFICES ASSUME asked = {} PROVE FALSE
        OBVIOUS
      <3>1. answers = [q \in {} |-> 0]
        BY <1>1
      <3>2. << >> = [q \in {} |-> 0]
        OBVIOUS
      <3> QED
        BY <1>6, <3>1, <3>2
    <2>2. Cardinality(asked) # 0
      BY <1>2, <2>1, FS_EmptySet
    <2>4. Study!Score(answers) = (100 * Cardinality(correct)) \div Cardinality(DOMAIN answers)
      BY <1>6, StudySets DEF Study!Score
    <2>3. Study!Score(answers) = (100 * Cardinality(correct)) \div Cardinality(asked)
      BY <1>2, <2>4
    <2> HIDE DEF correct
    <2> QED
      BY <1>3, <1>4, <2>2, <2>3, ShareOfHundred
  <1> QED
    BY <1>5, <1>6
-----------------------------------------------------------------------------
(* The invariant.                                                          *)

CheckRow == [step : {"idle", "marker", "earned", "badge", "mark"},
             earned : SUBSET Study!Badges, n : 0..3]

StudyTypes ==
    /\ Study!TypeOK
    /\ \A g \in Requests : check[g].step = "badge" => check[g].n \in 1..3

(* The badges of a quiz are the first two of the list; a check at work is  *)
(* still to look whether badge i was earned, and does not think it given.  *)
WillGive(g, i) ==
    \/ check[g].step \in {"marker", "earned"}
    \/ /\ check[g].step = "badge" /\ check[g].n <= i
       /\ Study!badgeDefs[i] \notin check[g].earned

BadgesInv ==
    ~skipped /\ faults = 0 =>
        \A i \in 1..2 : Study!Merit(Study!badgeDefs[i]) /\ Study!badgeDefs[i] \notin badges =>
            \E g \in Requests : WillGive(g, i)

StreakInv ==
    /\ streak = Nothing => visited = {}
    /\ streak # Nothing =>
        /\ streak.current >= 1 /\ streak.longest >= 1
        /\ streak.last \in visited /\ streak.last <= Study!Today
        /\ Study!StreakIsARun

StudyAll == StudyTypes /\ BadgesInv /\ StreakInv /\ Study!PlanReachesTheExam

LEMMA TodayIsDay ==
  ASSUME hour \in 0..LastHour
  PROVE  /\ Study!Today \in Nat /\ Study!Today <= LastHour \div DayLength
         /\ LastHour \div DayLength \in Nat
  <1>1. hour \div DayLength \in Int /\ LastHour \div DayLength \in Int
    BY StudyConstants, Quotient
  <1>2. hour \div DayLength >= 0 /\ LastHour \div DayLength >= 0
    BY StudyConstants, Quotient
  <1>3. hour \div DayLength <= LastHour \div DayLength
    BY StudyConstants, QuotientGrows
  <1> QED
    BY <1>1, <1>2, <1>3 DEF Study!Today

LEMMA IdleIsCheck == Study!Idle \in CheckRow /\ Study!Idle.step = "idle"
  BY DEF Study!Idle, CheckRow

LEMMA CheckTypes ==
  /\ [step : {"idle", "marker", "earned", "badge", "mark"},
      earned : SUBSET Study!Badges, n : 0..Study!Len(Study!badgeDefs)] = CheckRow
  BY BadgeList DEF CheckRow

LEMMA StudyAllInit == Study!Init => StudyAll
  <1> SUFFICES ASSUME Study!Init PROVE StudyAll
    OBVIOUS
  <1>1. check = [g \in Requests |-> Study!Idle] /\ check \in [Requests -> CheckRow]
    BY IdleIsCheck DEF Study!Init
  <1>2. \A g \in Requests : check[g].step = "idle"
    BY <1>1, IdleIsCheck
  <1>3. Study!TypeOK
    <2>1. 0 \in 0..LastHour /\ 0 \in 0..MaxActions /\ 0 \in 0..MaxFaults
      BY StudyConstants
    <2> QED
      BY <1>1, <2>1, CheckTypes DEF Study!TypeOK, Study!Init
  <1>4. StudyTypes
    BY <1>2, <1>3 DEF StudyTypes
  <1>5. \A i \in 1..2 : ~Study!Merit(Study!badgeDefs[i])
    <2> TAKE i \in 1..2
    <2>1. Study!badgeDefs[i] \in {"first_quiz", "quiz_master"}
      <3>1. i = 1 \/ i = 2
        OBVIOUS
      <3> QED
        BY <3>1, BadgeList
    <2> QED
      BY <2>1 DEF Study!Merit, Study!Init
  <1>6. BadgesInv
    BY <1>5 DEF BadgesInv
  <1>7. StreakInv /\ Study!PlanReachesTheExam
    BY DEF StreakInv, Study!PlanReachesTheExam, Study!Init
  <1> QED
    BY <1>4, <1>6, <1>7 DEF StudyAll

-----------------------------------------------------------------------------
(* Checks.                                                                 *)

LEMMA CheckMove ==
  ASSUME StudyTypes, NEW g \in Requests, NEW n \in CheckRow, check' = [check EXCEPT ![g] = n]
  PROVE  /\ check' \in [Requests -> CheckRow] /\ check'[g] = n
         /\ \A f \in Requests \ {g} : check'[f] = check[f]
  BY CheckTypes DEF StudyTypes, Study!TypeOK

LEMMA StreakStays ==
  ASSUME StreakInv, UNCHANGED <<hour, streak, visited>>
  PROVE  StreakInv'
  BY DEF StreakInv, Study!StreakIsARun, Study!Visited, Study!Today

LEMMA PlanStays ==
  ASSUME Study!PlanReachesTheExam, UNCHANGED plan
  PROVE  Study!PlanReachesTheExam'
  BY DEF Study!PlanReachesTheExam

LEMMA MeritStays ==
  ASSUME UNCHANGED attempts, NEW i \in 1..2
  PROVE  Study!Merit(Study!badgeDefs[i])' <=> Study!Merit(Study!badgeDefs[i])
  <1>1. i = 1 \/ i = 2
    OBVIOUS
  <1>2. CASE i = 1
    BY <1>2, BadgeList DEF Study!Merit, Study!badgeDefs
  <1>3. CASE i = 2
    BY <1>3, BadgeList DEF Study!Merit, Study!badgeDefs
  <1> QED
    BY <1>1, <1>2, <1>3

(* A check that has just begun will look at every badge.                   *)
LEMMA StartsOK ==
  ASSUME StudyAll, NEW g \in Requests, Study!SubmitQuiz(g) \/ Study!MarkCard(g)
  PROVE  StudyAll'
  <1> USE DEF StudyAll
  <1>1. Study!Starts(g)
    BY DEF Study!SubmitQuiz, Study!MarkCard
  <1> DEFINE n == [Study!Idle EXCEPT !.step = "marker"]
  <1>2. n \in CheckRow /\ n.step = "marker"
    BY DEF CheckRow, Study!Idle
  <1>3. check' = [check EXCEPT ![g] = n]
    BY <1>1 DEF Study!Starts
  <1> HIDE DEF n
  <1>4. /\ check' \in [Requests -> CheckRow] /\ check'[g] = n
        /\ \A f \in Requests \ {g} : check'[f] = check[f]
    BY <1>2, <1>3, CheckMove
  <1>5. /\ UNCHANGED <<hour, badges, marker, faults, skipped, streak, plan, visited>>
        /\ acted' \in 0..MaxActions
    BY <1>1, StudyConstants DEF Study!Starts, StudyTypes, Study!TypeOK
  <1>6. attempts' \subseteq 0..100
    <2>1. CASE Study!SubmitQuiz(g)
      BY <2>1, ScoreIsShare DEF Study!SubmitQuiz, StudyTypes, Study!TypeOK
    <2>2. CASE Study!MarkCard(g)
      BY <2>2 DEF Study!MarkCard, StudyTypes, Study!TypeOK
    <2> QED
      BY <2>1, <2>2
  <1>7. StudyTypes'
    BY <1>2, <1>4, <1>5, <1>6, CheckTypes DEF StudyTypes, Study!TypeOK
  <1>8. BadgesInv'
    BY <1>2, <1>4 DEF BadgesInv, WillGive
  <1> QED
    BY <1>5, <1>7, <1>8, StreakStays, PlanStays

(* A step of a check that neither sees the marker nor fails.               *)
LEMMA CheckKeeps ==
  ASSUME BadgesInv, NEW g \in Requests, UNCHANGED <<attempts, skipped, faults>>,
         badges \subseteq badges',
         \A f \in Requests \ {g} : check'[f] = check[f],
         \A i \in 1..2 : WillGive(g, i) =>
             \/ WillGive(g, i)'
             \/ Study!Merit(Study!badgeDefs[i]) => Study!badgeDefs[i] \in badges'
  PROVE  BadgesInv'
  <1> SUFFICES ASSUME ~skipped, faults = 0, NEW i \in 1..2,
                      Study!Merit(Study!badgeDefs[i])', Study!badgeDefs[i] \notin badges'
               PROVE  \E f \in Requests : WillGive(f, i)'
    BY DEF BadgesInv, Study!badgeDefs
  <1>1. Study!Merit(Study!badgeDefs[i])
    BY MeritStays
  <1>2. PICK f \in Requests : WillGive(f, i)
    BY <1>1 DEF BadgesInv
  <1>3. CASE f = g
    BY <1>1, <1>2, <1>3
  <1>4. CASE f # g
    <2>1. WillGive(f, i)'
      BY <1>2, <1>4 DEF WillGive, Study!badgeDefs
    <2> QED
      BY <2>1
  <1> QED
    BY <1>3, <1>4

LEMMA CheckMarkerOK ==
  ASSUME StudyAll, NEW g \in Requests, Study!CheckMarker(g)
  PROVE  StudyAll'
  <1> USE DEF StudyAll
  <1> DEFINE n == IF marker THEN Study!Idle ELSE [check[g] EXCEPT !.step = "earned"]
  <1>1. n \in CheckRow /\ (~marker => n.step = "earned") /\ (marker => n.step = "idle")
    BY IdleIsCheck, CheckTypes DEF StudyTypes, Study!TypeOK, CheckRow
  <1>2. check' = [check EXCEPT ![g] = n] /\ skipped' = marker
    BY DEF Study!CheckMarker
  <1> HIDE DEF n
  <1>3. /\ check' \in [Requests -> CheckRow] /\ check'[g] = n
        /\ \A f \in Requests \ {g} : check'[f] = check[f]
    BY <1>1, <1>2, CheckMove
  <1>4. UNCHANGED <<hour, attempts, badges, marker, acted, faults, streak, plan, visited>>
    BY DEF Study!CheckMarker
  <1>5. StudyTypes'
    BY <1>1, <1>2, <1>3, <1>4, CheckTypes DEF StudyTypes, Study!TypeOK
  <1>6. BadgesInv'
    BY <1>1, <1>2, <1>3 DEF BadgesInv, WillGive
  <1> QED
    BY <1>4, <1>5, <1>6, StreakStays, PlanStays

LEMMA ReadEarnedOK ==
  ASSUME StudyAll, NEW g \in Requests, Study!ReadEarned(g)
  PROVE  StudyAll'
  <1> USE DEF StudyAll
  <1>0. UNCHANGED <<hour, attempts, badges, marker, acted, skipped, streak, plan, visited>>
    BY DEF Study!ReadEarned
  <1> DEFINE n == [step |-> "badge", earned |-> badges, n |-> 1]
  <1>1. CASE check' = [check EXCEPT ![g] = n] /\ UNCHANGED faults
    <2>1. n \in CheckRow /\ n.step = "badge" /\ n.n = 1 /\ n.earned = badges
      BY DEF CheckRow, StudyTypes, Study!TypeOK
    <2> HIDE DEF n
    <2>2. /\ check' \in [Requests -> CheckRow] /\ check'[g] = n
          /\ \A f \in Requests \ {g} : check'[f] = check[f]
      BY <1>1, <2>1, CheckMove
    <2>3. StudyTypes'
      <3>1. Study!TypeOK'
        BY <1>0, <1>1, <2>2, CheckTypes DEF StudyTypes, Study!TypeOK
      <3>2. \A f \in Requests : check'[f].step = "badge" => check'[f].n \in 1..3
        BY <2>1, <2>2 DEF StudyTypes
      <3> QED
        BY <3>1, <3>2 DEF StudyTypes
    <2>4. \A i \in 1..2 : Study!badgeDefs[i] \notin badges => WillGive(g, i)'
      BY <2>1, <2>2 DEF WillGive, Study!badgeDefs
    <2>5. BadgesInv'
      BY <1>0, <1>1, <2>2, <2>4, CheckKeeps
    <2> QED
      BY <1>0, <2>3, <2>5, StreakStays, PlanStays
  <1>2. CASE /\ faults < MaxFaults /\ faults' = faults + 1
             /\ check' = [check EXCEPT ![g] = Study!Idle]
    <2>1. /\ check' \in [Requests -> CheckRow] /\ check'[g] = Study!Idle
          /\ \A f \in Requests \ {g} : check'[f] = check[f]
      BY <1>2, IdleIsCheck, CheckMove
    <2>2. faults' \in 0..MaxFaults /\ faults' # 0
      BY <1>2, StudyConstants DEF StudyTypes, Study!TypeOK
    <2>3. StudyTypes'
      BY <1>0, <2>1, <2>2, IdleIsCheck, CheckTypes DEF StudyTypes, Study!TypeOK
    <2>4. BadgesInv'
      BY <2>2 DEF BadgesInv
    <2> QED
      BY <1>0, <2>3, <2>4, StreakStays, PlanStays
  <1> QED
    BY <1>1, <1>2 DEF Study!ReadEarned

LEMMA CheckBadgeOK ==
  ASSUME StudyAll, NEW g \in Requests, Study!CheckBadge(g)
  PROVE  StudyAll'
  <1> USE DEF StudyAll
  <1> DEFINE c == check[g]
             b == Study!badgeDefs[c.n]
             n == Study!AfterBadge(g)
  <1>0. /\ UNCHANGED <<hour, attempts, marker, acted, skipped, streak, plan, visited>>
        /\ c.step = "badge" /\ check' = [check EXCEPT ![g] = n]
        /\ \/ b \in c.earned /\ UNCHANGED <<badges, faults>>
           \/ /\ b \notin c.earned /\ UNCHANGED faults
              /\ badges' = badges \cup (IF Study!Merit(b) THEN {b} ELSE {})
           \/ faults < MaxFaults /\ faults' = faults + 1 /\ UNCHANGED badges
    BY DEF Study!CheckBadge, Study!AfterEarned
  <1>1. c \in CheckRow /\ c.n \in 1..3 /\ b \in Study!Badges
    BY <1>0, CheckTypes, BadgeList DEF StudyTypes, Study!TypeOK
  <1>2. /\ n \in CheckRow /\ n.earned = c.earned
        /\ c.n < 3 => n.step = "badge" /\ n.n = c.n + 1
        /\ c.n = 3 => n.step = "mark"
    <2>1. n = IF c.n < 3 THEN [c EXCEPT !.n = @ + 1] ELSE [c EXCEPT !.step = "mark"]
      BY BadgeList DEF Study!AfterBadge
    <2> HIDE DEF n, c
    <2> QED
      BY <1>0, <1>1, <2>1 DEF CheckRow
  <1> HIDE DEF n
  <1>3. /\ check' \in [Requests -> CheckRow] /\ check'[g] = n
        /\ \A f \in Requests \ {g} : check'[f] = check[f]
    BY <1>0, <1>2, CheckMove
  <1>4. badges \subseteq badges' /\ badges' \subseteq Study!Badges /\ faults' \in 0..MaxFaults
    <2> HIDE DEF b, c
    <2> QED
      BY <1>0, <1>1, StudyConstants DEF StudyTypes, Study!TypeOK
  <1>5. StudyTypes'
    <2>1. Study!TypeOK'
      BY <1>0, <1>3, <1>4, CheckTypes DEF StudyTypes, Study!TypeOK
    <2>2. check'[g].step = "badge" => check'[g].n \in 1..3
      BY <1>1, <1>2, <1>3
    <2> QED
      BY <1>3, <2>1, <2>2 DEF StudyTypes
  <1>6. CASE UNCHANGED faults
    <2>1. ASSUME NEW i \in 1..2, WillGive(g, i)
          PROVE  \/ WillGive(g, i)'
                 \/ Study!Merit(Study!badgeDefs[i]) => Study!badgeDefs[i] \in badges'
      <3>1. c.n <= i /\ Study!badgeDefs[i] \notin c.earned
        BY <1>0, <2>1 DEF WillGive
      <3>2. CASE c.n < i
        <4>1. /\ check'[g].step = "badge" /\ check'[g].n <= i
              /\ Study!badgeDefs[i] \notin check'[g].earned
          BY <1>1, <1>2, <1>3, <3>1, <3>2
        <4> QED
          BY <4>1 DEF WillGive, Study!badgeDefs
      <3>3. CASE c.n = i
        <4>1. faults \in Nat
          BY DEF StudyTypes, Study!TypeOK
        <4>2. badges' = badges \cup (IF Study!Merit(b) THEN {b} ELSE {})
          BY <1>0, <1>6, <3>1, <3>3, <4>1
        <4> QED
          BY <3>3, <4>2
      <3> QED
        BY <1>1, <3>1, <3>2, <3>3
    <2>2. BadgesInv'
      BY <1>0, <1>3, <1>4, <1>6, <2>1, CheckKeeps
    <2> QED
      BY <1>0, <1>5, <2>2, StreakStays, PlanStays
  <1>7. CASE faults' = faults + 1
    <2>1. faults' # 0
      BY <1>7 DEF StudyTypes, Study!TypeOK
    <2>2. BadgesInv'
      BY <2>1 DEF BadgesInv
    <2> QED
      BY <1>0, <1>5, <2>2, StreakStays, PlanStays
  <1> QED
    BY <1>0, <1>6, <1>7

LEMMA SetMarkerOK ==
  ASSUME StudyAll, NEW g \in Requests, Study!SetMarker(g)
  PROVE  StudyAll'
  <1> USE DEF StudyAll
  <1>0. /\ UNCHANGED <<hour, attempts, badges, acted, faults, skipped, streak, plan, visited>>
        /\ check' = [check EXCEPT ![g] = Study!Idle] /\ marker' = TRUE
        /\ check[g].step = "mark"
    BY DEF Study!SetMarker
  <1>1. /\ check' \in [Requests -> CheckRow] /\ check'[g] = Study!Idle
        /\ \A f \in Requests \ {g} : check'[f] = check[f]
    BY <1>0, IdleIsCheck, CheckMove
  <1>2. StudyTypes'
    BY <1>0, <1>1, IdleIsCheck, CheckTypes DEF StudyTypes, Study!TypeOK
  <1>3. \A i \in 1..2 : ~WillGive(g, i)
    BY <1>0 DEF WillGive
  <1>4. BadgesInv'
    BY <1>0, <1>1, <1>3, CheckKeeps
  <1> QED
    BY <1>0, <1>2, <1>4, StreakStays, PlanStays

LEMMA BadgesStay ==
  ASSUME BadgesInv, UNCHANGED <<attempts, badges, check, faults, skipped>>
  PROVE  BadgesInv'
  <1>1. \A i \in 1..2 : Study!Merit(Study!badgeDefs[i])' <=> Study!Merit(Study!badgeDefs[i])
    BY MeritStays
  <1>2. \A i \in 1..2, g \in Requests : WillGive(g, i)' <=> WillGive(g, i)
    BY DEF WillGive, Study!badgeDefs
  <1>3. \A i \in 1..2 : Study!badgeDefs[i]' = Study!badgeDefs[i]
    BY DEF Study!badgeDefs
  <1> QED
    BY <1>1, <1>2, <1>3 DEF BadgesInv

LEMMA MarkerExpiresOK ==
  ASSUME StudyAll, Study!MarkerExpires
  PROVE  StudyAll'
  <1>1. StudyTypes'
    BY DEF StudyAll, StudyTypes, Study!TypeOK, Study!MarkerExpires
  <1> QED
    BY <1>1, BadgesStay, StreakStays, PlanStays DEF StudyAll, Study!MarkerExpires

-----------------------------------------------------------------------------
(* The streak.                                                             *)

LEMMA LastVisit ==
  ASSUME StreakInv, StudyTypes, streak # Nothing
  PROVE  /\ streak \in Study!StreakRow
         /\ streak.current \in Nat /\ streak.longest \in Nat /\ streak.last \in Nat
         /\ streak.current <= streak.longest
         /\ visited \subseteq Nat
  <1>1. /\ streak \in Study!StreakRow
        /\ streak.current \in Nat /\ streak.longest \in Nat /\ streak.last \in Nat
    BY DEF StudyTypes, Study!TypeOK, Study!StreakRow
  <1>2. visited \subseteq Nat
    BY DEF StudyTypes, Study!TypeOK
  <1> DEFINE first == streak.last - streak.current + 1
  <1>3. /\ first..streak.last \subseteq visited
        /\ \A d \in visited : ~(d..(d + streak.longest) \subseteq visited)
        /\ streak.current >= 1
    BY DEF StreakInv, Study!StreakIsARun, Study!Visited
  <1>4. ASSUME streak.current > streak.longest PROVE FALSE
    <2>1. first \in visited
      BY <1>1, <1>3
    <2>2. first..(first + streak.longest) \subseteq first..streak.last
      BY <1>1, <1>4
    <2> QED
      BY <1>3, <2>1, <2>2
  <1> QED
    BY <1>1, <1>2, <1>4

(* The run of cur days of V that ends with last, and the longest of long.  *)
RunIn(V, last, cur, long) ==
    /\ V \in SUBSET Nat /\ last \in Nat /\ cur \in Nat \ {0} /\ long \in Nat
    /\ cur <= long /\ last \in V /\ \A d \in V : d <= last
    /\ ((last - cur) + 1)..last \subseteq V /\ last - cur \notin V
    /\ \E d \in V : d..(d + long - 1) \subseteq V
    /\ \A d \in V : ~(d..(d + long) \subseteq V)

(* The day after the last visit: the run is one day longer.                *)
LEMMA RunGoesOn ==
  ASSUME NEW V, NEW last, NEW cur, NEW long, RunIn(V, last, cur, long),
         NEW W, W = V \cup {last + 1},
         NEW most \in Nat, most = IF long < cur + 1 THEN cur + 1 ELSE long
  PROVE  /\ \A d \in W : d <= last + 1
         /\ (last - cur + 1)..(last + 1) \subseteq W /\ last - cur \notin W
         /\ \E d \in W : d..(d + most - 1) \subseteq W
         /\ \A d \in W : ~(d..(d + most) \subseteq W)
  <1> USE DEF RunIn
  <1>1. \A d \in W : d <= last + 1
    <2> TAKE d \in W
    <2>1. CASE d \in V
      BY <2>1
    <2>2. CASE d = last + 1
      BY <2>2
    <2> QED
      BY <2>1, <2>2
  <1>2. (last - cur + 1)..(last + 1) \subseteq W /\ last - cur \notin W
    OBVIOUS
  <1>3. \E d \in W : d..(d + most - 1) \subseteq W
    <2>1. CASE long < cur + 1
      <3>1. last - cur + 1 \in W
        OBVIOUS
      <3>2. (last - cur + 1) + most - 1 = last + 1
        BY <2>1
      <3> QED
        BY <1>2, <3>1, <3>2
    <2>2. CASE ~(long < cur + 1)
      BY <2>2
    <2> QED
      BY <2>1, <2>2
  <1>4. ASSUME NEW d \in W, d..(d + most) \subseteq W PROVE FALSE
    <2>0. d \in Nat /\ most >= long /\ most >= cur + 1
      OBVIOUS
    <2>1. d + most \in W
      BY <1>4, <2>0
    <2>2. d + most <= last + 1
      BY <1>1, <2>1
    <2>3. CASE d + most <= last
      <3>1. d..(d + long) \subseteq d..(d + most)
        BY <2>0
      <3>2. d..(d + long) \subseteq V
        <4> SUFFICES ASSUME NEW x \in d..(d + long) PROVE x \in V
          OBVIOUS
        <4>1. x \in W /\ x <= last
          BY <1>4, <2>0, <2>3
        <4> QED
          BY <4>1
      <3>3. d \in V
        BY <2>0, <2>3
      <3> QED
        BY <3>2, <3>3
    <2>4. CASE d + most = last + 1
      <3>1. d <= last - cur /\ last - cur <= d + most
        BY <2>0, <2>4
      <3>2. last - cur \in d..(d + most)
        BY <2>0, <3>1
      <3> QED
        BY <1>2, <1>4, <3>2
    <2> QED
      BY <2>0, <2>2, <2>3, <2>4
  <1> QED
    BY <1>1, <1>2, <1>3, <1>4

(* A later day: a run of one day begins.                                   *)
LEMMA RunBegins ==
  ASSUME NEW V \in SUBSET Nat, NEW last \in Nat, NEW long \in Nat \ {0}, NEW day \in Nat,
         last + 1 < day, last \in V, \A d \in V : d <= last,
         \E d \in V : d..(d + long - 1) \subseteq V,
         \A d \in V : ~(d..(d + long) \subseteq V),
         NEW W, W = V \cup {day}
  PROVE  /\ \A d \in W : d <= day
         /\ day..day \subseteq W /\ day - 1 \notin W
         /\ \E d \in W : d..(d + long - 1) \subseteq W
         /\ \A d \in W : ~(d..(d + long) \subseteq W)
  <1>1. (\A d \in W : d <= day) /\ day..day \subseteq W /\ day - 1 \notin W
    OBVIOUS
  <1>2. \E d \in W : d..(d + long - 1) \subseteq W
    OBVIOUS
  <1>3. ASSUME NEW d \in W, d..(d + long) \subseteq W PROVE FALSE
    <2>0. d \in Nat /\ d + long \in W /\ d + long <= day
      BY <1>1, <1>3
    <2>1. CASE d + long <= last
      <3>1. d..(d + long) \subseteq V /\ d \in V
        BY <1>3, <2>0, <2>1
      <3> QED
        BY <3>1
    <2>2. CASE d + long = day
      <3>1. day - 1 \in d..(d + long)
        BY <2>0, <2>2
      <3> QED
        BY <1>1, <1>3, <3>1
    <2> QED
      BY <2>0, <2>1, <2>2
  <1> QED
    BY <1>1, <1>2, <1>3

(* A visit whose upsert succeeds.                                          *)
Visits ==
    /\ Study!GetStreak
    /\ streak' = Study!Counted /\ visited' = visited \cup {Study!Today}

LEMMA VisitOK ==
  ASSUME StudyAll, Visits
  PROVE  StudyAll'
  <1> USE DEF StudyAll
  <1> DEFINE day == Study!Today
  <1>0. /\ day \in Nat /\ day \in 0..(LastHour \div DayLength) /\ hour \in 0..LastHour
    BY TodayIsDay DEF StudyTypes, Study!TypeOK
  <1>1. /\ UNCHANGED <<hour, attempts, badges, marker, check, acted, faults, skipped, plan>>
        /\ visited' = visited \cup {day} /\ day' = day
    BY DEF Visits, Study!GetStreak, Study!studyVars, Study!Today
  <1> HIDE DEF day
  <1>2. StreakInv' /\ streak' \in Study!StreakRow
    <2>1. CASE streak = Nothing
      <3>1. streak' = [current |-> 1, longest |-> 1, last |-> day] /\ visited' = {day}
        BY <1>1, <2>1 DEF Visits, Study!Counted, StreakInv, day
      <3>2. streak' \in Study!StreakRow /\ streak' # Nothing
        BY <1>0, <3>1, StudyConstants DEF Study!StreakRow
      <3>3. /\ streak'.current = 1 /\ streak'.longest = 1 /\ streak'.last = day
        BY <3>1
      <3>4. Study!StreakIsARun'
        <4>1. day - 1 + 1 = day /\ day + 1 - 1 = day /\ day..day = {day}
          BY <1>0
        <4>2. ~(day..(day + 1) \subseteq {day})
          BY <1>0
        <4> QED
          BY <1>0, <3>1, <3>3, <4>1, <4>2 DEF Study!StreakIsARun, Study!Visited
      <3> QED
        BY <1>0, <1>1, <3>1, <3>2, <3>3, <3>4 DEF StreakInv, day
    <2>2. CASE streak # Nothing
      <3> DEFINE V == visited
                 last == streak.last
                 cur == streak.current
                 long == streak.longest
      <3>1. /\ cur \in Nat \ {0} /\ long \in Nat \ {0} /\ last \in Nat /\ V \in SUBSET Nat
            /\ cur <= long /\ last \in V /\ last <= day
        BY <1>0, <2>2, LastVisit DEF StreakInv, day
      <3>2. /\ \A d \in V : d <= last
            /\ ((last - cur) + 1)..last \subseteq V /\ (last - cur + 1) - 1 \notin V
            /\ \E d \in V : d..(d + long - 1) \subseteq V
            /\ \A d \in V : ~(d..(d + long) \subseteq V)
        BY <2>2 DEF StreakInv, Study!StreakIsARun, Study!Visited
      <3>3. last - cur \notin V
        BY <3>1, <3>2
      <3>4. /\ streak'.last = day
            /\ streak'.current = Study!Current(streak)
            /\ streak'.longest = Study!Larger(long, IF last = day - 1 THEN cur + 1 ELSE 1)
            /\ streak' = [current |-> streak'.current, longest |-> streak'.longest, last |-> day]
        BY <2>2 DEF Visits, Study!Counted, day
      <3> DEFINE C == streak'.current
                 L == streak'.longest
      <3>5. SUFFICES /\ C \in Nat \ {0} /\ L \in Nat \ {0}
                     /\ \A d \in visited' : d <= day
                     /\ (day - C + 1)..day \subseteq visited' /\ (day - C + 1) - 1 \notin visited'
                     /\ \E d \in visited' : d..(d + L - 1) \subseteq visited'
                     /\ \A d \in visited' : ~(d..(d + L) \subseteq visited')
        <4>1. streak' \in Study!StreakRow
          BY <1>0, <3>4, <3>5 DEF Study!StreakRow
        <4>2. streak' # Nothing
          BY <4>1, StudyConstants
        <4>3. Study!StreakIsARun'
          BY <3>4, <3>5 DEF Study!StreakIsARun, Study!Visited
        <4>4. day' = day /\ day \in visited'
          BY <1>1
        <4>5. day' = Study!Today'
          BY DEF day
        <4> QED
          BY <1>0, <3>4, <3>5, <4>1, <4>2, <4>3, <4>4, <4>5 DEF StreakInv
      <3>6. CASE last = day
        <4>1. C = cur /\ L = long
          BY <1>0, <3>1, <3>4, <3>6 DEF Study!Current, Study!Larger, day
        <4>2. visited' = V
          BY <1>1, <3>1, <3>6
        <4> HIDE DEF C, L, V, last, cur, long
        <4> QED
          BY <3>1, <3>2, <3>6, <4>1, <4>2
      <3>7. CASE last = day - 1
        <4>1. C = cur + 1 /\ L = IF long < cur + 1 THEN cur + 1 ELSE long
          BY <1>0, <3>1, <3>4, <3>7 DEF Study!Current, Study!Larger, day
        <4>2. visited' = V \cup {last + 1} /\ day = last + 1
          BY <1>0, <1>1, <3>1, <3>7
        <4>3. C \in Nat \ {0} /\ L \in Nat \ {0}
          <5> HIDE DEF C, L, cur, long
          <5> QED
            BY <3>1, <4>1
        <4>4. day - C + 1 = last - cur + 1 /\ (day - C + 1) - 1 = last - cur
          <5> HIDE DEF C, last, cur
          <5> QED
            BY <3>1, <4>1, <4>2
        <4> HIDE DEF C, L, V, last, cur, long
        <4>5. /\ \A d \in visited' : d <= last + 1
              /\ (last - cur + 1)..(last + 1) \subseteq visited' /\ last - cur \notin visited'
              /\ \E d \in visited' : d..(d + L - 1) \subseteq visited'
              /\ \A d \in visited' : ~(d..(d + L) \subseteq visited')
          <5>1. RunIn(V, last, cur, long) /\ L \in Nat
            BY <3>1, <3>2, <3>3, <4>3 DEF RunIn
          <5>2. L = IF long < cur + 1 THEN cur + 1 ELSE long
            BY <4>1
          <5>3. visited' = V \cup {last + 1}
            BY <4>2
          <5> QED
            BY <5>1, <5>2, <5>3, RunGoesOn
        <4> QED
          BY <4>2, <4>3, <4>4, <4>5
      <3>8. CASE last + 1 < day
        <4>1. C = 1 /\ L = long
          BY <1>0, <3>1, <3>4, <3>8 DEF Study!Current, Study!Larger, day
        <4>2. visited' = V \cup {day}
          BY <1>1
        <4> HIDE DEF C, L, V, last, cur, long
        <4>4. day - C + 1 = day /\ (day - C + 1) - 1 = day - 1
          BY <1>0, <4>1
        <4>5. /\ \A d \in visited' : d <= day
              /\ day..day \subseteq visited' /\ day - 1 \notin visited'
              /\ \E d \in visited' : d..(d + long - 1) \subseteq visited'
              /\ \A d \in visited' : ~(d..(d + long) \subseteq visited')
          BY <1>0, <3>1, <3>2, <3>8, <4>2, RunBegins
        <4>6. /\ C \in Nat \ {0} /\ L \in Nat \ {0}
              /\ \E d \in visited' : d..(d + L - 1) \subseteq visited'
              /\ \A d \in visited' : ~(d..(d + L) \subseteq visited')
          BY <3>1, <4>1, <4>5
        <4>7. /\ \A d \in visited' : d <= day
              /\ (day - C + 1)..day \subseteq visited' /\ (day - C + 1) - 1 \notin visited'
          BY <4>4, <4>5
        <4> QED
          BY <4>6, <4>7
      <3> QED
        <4>1. last = day \/ last = day - 1 \/ last + 1 < day
          <5> HIDE DEF last
          <5> QED
            BY <1>0, <3>1
        <4> QED
          BY <3>6, <3>7, <3>8, <4>1
    <2> QED
      BY <2>1, <2>2
  <1>3. StudyTypes'
    BY <1>0, <1>1, <1>2 DEF StudyTypes, Study!TypeOK
  <1> QED
    BY <1>1, <1>2, <1>3, BadgesStay, PlanStays

-----------------------------------------------------------------------------
(* The plan, and time.                                                     *)

LEMMA CreatePlanOK ==
  ASSUME StudyAll, NEW exam \in Nat, NEW chunks \in Chunks, Study!CreateStudyPlan(exam, chunks)
  PROVE  StudyAll'
  <1> USE DEF StudyAll
  <1> DEFINE total == Study!Pages(chunks)
             left == Study!DaysLeft(exam)
             day == Study!Today
             perDay == Study!PagesPerDay(total, left)
  <1>0. /\ hour \in Nat /\ day \in Nat /\ chunks \in Nat
    BY TodayIsDay, StudyConstants DEF StudyTypes, Study!TypeOK
  <1>1. total \in Nat
    BY <1>0, Ceiling DEF Study!Pages
  <1>2. left = exam - day
    <2>1. left = (exam * DayLength - hour + DayLength - 1) \div DayLength
      BY DEF Study!DaysLeft, Study!CeilDiv
    <2> QED
      BY <1>0, <2>1, StudyConstants, WholeDays DEF Study!Today
  <1>3. left \in Nat
    <2>1. hour <= exam * DayLength
      BY DEF Study!CreateStudyPlan
    <2>2. exam * DayLength \in Nat /\ (exam * DayLength) \div DayLength = exam
      BY StudyConstants, Z3
    <2>3. day <= (exam * DayLength) \div DayLength
      BY <1>0, <2>1, <2>2, StudyConstants, QuotientGrows DEF Study!Today
    <2> QED
      BY <1>0, <1>2, <2>2, <2>3
  <1> HIDE DEF total, left, day
  <1>4. /\ perDay \in Nat
        /\ left > 0 => perDay * left >= total /\ (perDay - 1) * left < total
    <2>1. CASE left > 0
      BY <1>1, <1>3, <2>1, Ceiling DEF Study!PagesPerDay
    <2>2. CASE ~(left > 0)
      BY <2>2 DEF Study!PagesPerDay
    <2> QED
      BY <2>1, <2>2
  <1> HIDE DEF perDay
  <1>5. /\ plan' = [exam |-> exam, made |-> day, total |-> total, perDay |-> perDay]
        /\ UNCHANGED <<hour, attempts, badges, marker, check, acted, faults, skipped, streak, visited>>
    BY DEF Study!CreateStudyPlan, Study!studyVars, perDay, total, left, day
  <1>6. plan' \in Study!PlanRow
    BY <1>0, <1>1, <1>4, <1>5 DEF Study!PlanRow
  <1>7. StudyTypes'
    BY <1>5, <1>6 DEF StudyTypes, Study!TypeOK
  <1>8. Study!PlanReachesTheExam'
    <2>1. /\ plan'.exam = exam /\ plan'.made = day /\ plan'.total = total /\ plan'.perDay = perDay
      BY <1>5
    <2>2. exam > day => left > 0
      BY <1>0, <1>2
    <2> QED
      BY <1>2, <1>4, <2>1, <2>2 DEF Study!PlanReachesTheExam
  <1> QED
    BY <1>5, <1>7, <1>8, BadgesStay, StreakStays

LEMMA DeletePlanOK ==
  ASSUME StudyAll, Study!DeleteStudyPlan
  PROVE  StudyAll'
  <1> USE DEF StudyAll
  <1>1. /\ plan' = Nothing
        /\ UNCHANGED <<hour, attempts, badges, marker, check, acted, faults, skipped, streak, visited>>
    BY DEF Study!DeleteStudyPlan, Study!studyVars
  <1>2. StudyTypes' /\ Study!PlanReachesTheExam'
    BY <1>1 DEF StudyTypes, Study!TypeOK, Study!PlanReachesTheExam
  <1> QED
    BY <1>1, <1>2, BadgesStay, StreakStays

LEMMA PassOK ==
  ASSUME StudyAll, Study!Pass
  PROVE  StudyAll'
  <1> USE DEF StudyAll
  <1>0. hour \in 0..LastHour
    BY DEF StudyTypes, Study!TypeOK
  <1>1. /\ hour' = hour + 1 /\ hour' \in 0..LastHour
        /\ UNCHANGED <<attempts, badges, marker, check, acted, faults, skipped, streak, visited, plan>>
    BY <1>0, StudyConstants DEF Study!Pass, Study!studyVars
  <1>2. StudyTypes'
    BY <1>1 DEF StudyTypes, Study!TypeOK
  <1>3. Study!Today \in Nat /\ Study!Today' \in Nat /\ Study!Today <= Study!Today'
    <2>1. Study!Today \in Nat
      BY <1>0, TodayIsDay
    <2>2. (hour + 1) \div DayLength \in {hour \div DayLength, (hour \div DayLength) + 1}
      BY <1>0, StudyConstants, QuotientOfSuccessor
    <2>3. Study!Today' = (hour + 1) \div DayLength
      BY <1>1 DEF Study!Today
    <2> QED
      BY <2>1, <2>2, <2>3 DEF Study!Today
  <1>4. StreakInv'
    <2>1. streak # Nothing => streak.last \in Nat
      BY LastVisit
    <2> QED
      BY <1>1, <1>3, <2>1 DEF StreakInv, Study!StreakIsARun, Study!Visited
  <1> QED
    BY <1>1, <1>2, <1>4, BadgesStay, PlanStays

LEMMA StudyStep ==
  ASSUME StudyAll, [Study!Next]_(Study!vars)
  PROVE  StudyAll'
  <1>1. CASE \E g \in Requests :
               \/ Study!SubmitQuiz(g) \/ Study!MarkCard(g)
               \/ Study!CheckMarker(g) \/ Study!ReadEarned(g)
               \/ Study!CheckBadge(g) \/ Study!SetMarker(g)
    BY <1>1, StartsOK, CheckMarkerOK, ReadEarnedOK, CheckBadgeOK, SetMarkerOK
  <1>2. CASE Study!MarkerExpires
    BY <1>2, MarkerExpiresOK
  <1>3. CASE Visits
    BY <1>3, VisitOK
  <1>4. CASE \E exam \in 0..(LastHour \div DayLength), chunks \in Chunks :
               Study!CreateStudyPlan(exam, chunks)
    <2>1. \A exam \in 0..(LastHour \div DayLength) : exam \in Nat
      BY StudyConstants, Quotient
    <2> QED
      BY <1>4, <2>1, CreatePlanOK
  <1>5. CASE Study!DeleteStudyPlan
    BY <1>5, DeletePlanOK
  <1>6. CASE Study!Pass
    BY <1>6, PassOK
  <1>7. CASE UNCHANGED Study!vars \/ (Study!GetStreak /\ UNCHANGED <<streak, visited>>)
    <2>1. UNCHANGED <<hour, attempts, badges, marker, check, acted, faults, skipped, streak, plan, visited>>
      BY <1>7 DEF Study!GetStreak, Study!vars, Study!studyVars
    <2>2. StudyTypes'
      BY <2>1 DEF StudyAll, StudyTypes, Study!TypeOK
    <2> QED
      BY <2>1, <2>2, BadgesStay, StreakStays, PlanStays DEF StudyAll
  <1> QED
    <2>1. Study!GetStreak => Visits \/ UNCHANGED <<streak, visited>>
      BY DEF Study!GetStreak, Visits
    <2> QED
      BY <1>1, <1>2, <1>3, <1>4, <1>5, <1>6, <1>7, <2>1 DEF Study!Next

LEMMA StudyStarts == ASSUME side = "study", ServicesInit PROVE Study!Init
  BY DEF ServicesInit

LEMMA StudySteps ==
  ASSUME side' = "study", [ServicesNext]_servicesVars
  PROVE  side = "study" /\ [Study!Next]_(Study!vars)
  BY DEF ServicesNext, servicesVars, studyVars, Study!vars, Study!studyVars

StudySide == side = "study" => StudyAll

LEMMA StudySideHolds == ServicesSpec => []StudySide
  <1>1. ServicesInit => StudySide
    BY StudyStarts, StudyAllInit DEF StudySide
  <1>2. StudySide /\ [ServicesNext]_servicesVars => StudySide'
    BY StudySteps, StudyStep DEF StudySide
  <1> QED
    BY <1>1, <1>2, PTL DEF ServicesSpec

(* With all checks idle nobody is left to give a badge: none is missing.   *)
LEMMA StudyIsTrue ==
  ASSUME StudyAll
  PROVE  Study!NoBadgeForgotten /\ Study!StreakIsARun /\ Study!PlanReachesTheExam
  <1>1. Study!NoBadgeForgotten
    <2> SUFFICES ASSUME \A g \in Requests : check[g] = Study!Idle, ~skipped, faults = 0,
                        NEW b \in {"first_quiz", "quiz_master"}, Study!Merit(b)
                 PROVE  b \in badges
      BY DEF Study!NoBadgeForgotten
    <2>1. PICK i \in 1..2 : b = Study!badgeDefs[i]
      BY BadgeList
    <2>2. \A g \in Requests : ~WillGive(g, i)
      BY IdleIsCheck DEF WillGive
    <2> QED
      BY <2>1, <2>2 DEF StudyAll, BadgesInv
  <1>2. Study!StreakIsARun
    BY DEF StudyAll, StreakInv, Study!StreakIsARun
  <1> QED
    BY <1>1, <1>2 DEF StudyAll

-----------------------------------------------------------------------------
(* The quota of a key, beside the other services.                          *)

(* Calls the transport is to count and RecordCall too, and calls only      *)
(* RecordCall is to count; what is counted twice is bounded through them.  *)
ToCountTwice == {c \in Requests : saver[c].step = "headers"}
ToCountOnce == {c \in Requests : \/ saver[c].step = "record"
                                 \/ saver[c].step = "send" /\ lock = c /\ c # Key!Refresher}

KeyCounts ==
    /\ IsFiniteSet(ToCountTwice) /\ IsFiniteSet(ToCountOnce)
    /\ mem.used + 2 * Cardinality(ToCountTwice) + Cardinality(ToCountOnce) <= 2 * calls
    /\ db <= 2 * calls
    /\ snap # Nothing => snap <= 2 * calls
    /\ ~up => snap = Nothing /\ \A p \in Key!Savers : saver[p].step = "idle"
    /\ lock # Nothing => saver[lock].step = "send"

(* A save that no other overlapped holds what memory holds, as far as it   *)
(* has read it.                                                            *)
SavesWhatIs ==
    \A p \in Key!InFlight : saver[p].alone =>
        /\ saver[p].step \in {"used", "send"} => saver[p].rem = mem.rem
        /\ saver[p].step = "send" => saver[p].used = mem.used

KeyShown == SavesWhatIs /\ Key!QuotaShownIsCurrent

KeyAll == Key!TypeOK /\ KeyCounts /\ KeyShown

LEMMA KeyConstants == Key!LimitAssumption /\ Key!NoneAssumption
  BY ServicesAssumption

LEMMA KeyNumbers ==
  /\ KeyLimit \in Nat \ {0} /\ MaxCalls \in Nat /\ MaxCrashes \in Nat
  /\ Nothing \notin Nat /\ Nothing \notin Key!Savers
  /\ Requests \subseteq Key!Savers
  BY KeyConstants DEF Key!LimitAssumption, Key!NoneAssumption, Key!Savers

LEMMA KeyAllInit == Key!Init => KeyAll
  <1> SUFFICES ASSUME Key!Init PROVE KeyAll
    OBVIOUS
  <1>0. /\ 0 \in 0..KeyLimit /\ KeyLimit \in 0..KeyLimit /\ 0 \in 0..(2 * MaxCalls)
        /\ 0 \in 0..MaxCalls /\ 0 \in 0..MaxCrashes
    BY KeyNumbers
  <1>1. Key!TypeOK
    BY <1>0 DEF Key!Init, Key!TypeOK, Key!Row, Key!Idle
  <1>2. ToCountTwice = {} /\ ToCountOnce = {} /\ Key!InFlight = {}
    BY KeyNumbers DEF Key!Init, ToCountTwice, ToCountOnce, Key!InFlight, Key!Idle
  <1>3. KeyCounts
    BY <1>2, FS_EmptySet, KeyNumbers DEF KeyCounts, Key!Init, Key!TypeOK
  <1>4. KeyShown
    BY <1>2 DEF KeyShown, SavesWhatIs, Key!QuotaShownIsCurrent, Key!Init
  <1> QED
    BY <1>1, <1>3, <1>4 DEF KeyAll

(* What Saves leaves.                                                      *)
LEMMA SavesResult ==
  ASSUME Key!TypeOK, NEW p \in Key!Savers, mem' \in Key!Row,
         NEW s \in {"rem", "send"}, Key!Saves(p, s)
  PROVE  /\ saver' \in [Key!Savers -> [step : {"idle", "headers", "record", "rem", "used", "send"},
                               rem : 0..KeyLimit, used : 0..(2 * MaxCalls), alone : BOOLEAN]]
         /\ saver'[p].step = s /\ saver'[p].rem = mem'.rem /\ saver'[p].used = mem'.used
         /\ saver'[p].alone <=> Key!InFlight = {}
         /\ \A q \in Key!Savers \ {p} :
                /\ saver'[q].step = saver[q].step
                /\ q \in Key!InFlight => ~saver'[q].alone
  <1> DEFINE T == [step : {"idle", "headers", "record", "rem", "used", "send"},
                   rem : 0..KeyLimit, used : 0..(2 * MaxCalls), alone : BOOLEAN]
             New(q) == IF q = p THEN [step |-> s, rem |-> mem'.rem, used |-> mem'.used,
                                      alone |-> Key!InFlight = {}]
                       ELSE [saver[q] EXCEPT !.alone = @ /\ q \notin Key!InFlight]
  <1>1. saver' = [q \in Key!Savers |-> New(q)]
    BY DEF Key!Saves
  <1>2. New(p) = [step |-> s, rem |-> mem'.rem, used |-> mem'.used, alone |-> Key!InFlight = {}]
    OBVIOUS
  <1>3. (Key!InFlight = {}) \in BOOLEAN
    OBVIOUS
  <1>4. New(p) \in T
    BY <1>2, <1>3 DEF Key!Row
  <1>5. ASSUME NEW q \in Key!Savers \ {p}
        PROVE  /\ New(q) \in T /\ New(q).step = saver[q].step
               /\ q \in Key!InFlight => ~New(q).alone
    <2>1. saver[q] \in T
      BY DEF Key!TypeOK
    <2>2. New(q) = [saver[q] EXCEPT !.alone = @ /\ q \notin Key!InFlight]
      OBVIOUS
    <2> DEFINE a == saver[q].alone /\ q \notin Key!InFlight
    <2>3. a \in BOOLEAN
      OBVIOUS
    <2>4. New(q) = [saver[q] EXCEPT !.alone = a]
      BY <2>2
    <2>5. q \in Key!InFlight => a = FALSE
      OBVIOUS
    <2> HIDE DEF a, New
    <2> QED
      BY <2>1, <2>3, <2>4, <2>5
  <1> HIDE DEF New
  <1>6. saver' \in [Key!Savers -> T]
    BY <1>1, <1>4, <1>5
  <1>7. saver'[p] = New(p)
    BY <1>1
  <1>8. saver'[p].step = s /\ saver'[p].rem = mem'.rem /\ saver'[p].used = mem'.used
    BY <1>7, <1>2
  <1>9. saver'[p].alone = (Key!InFlight = {})
    BY <1>7, <1>2
  <1>10. \A q \in Key!Savers \ {p} :
                /\ saver'[q].step = saver[q].step
                /\ q \in Key!InFlight => ~saver'[q].alone
    BY <1>1, <1>5
  <1> QED
    BY <1>6, <1>8, <1>9, <1>10

(* The counters grow in step with the calls.                               *)
LEMMA MemoryBounded ==
  ASSUME Key!TypeOK, KeyCounts
  PROVE  /\ mem.used + 2 * Cardinality(ToCountTwice) + Cardinality(ToCountOnce) <= 2 * MaxCalls
         /\ Cardinality(ToCountTwice) \in Nat /\ Cardinality(ToCountOnce) \in Nat
         /\ mem.used \in Nat /\ mem.rem \in Nat /\ mem.rem <= KeyLimit /\ mem = [rem |-> mem.rem, used |-> mem.used]
  <1>1. Cardinality(ToCountTwice) \in Nat /\ Cardinality(ToCountOnce) \in Nat
    BY FS_CardinalityType DEF KeyCounts
  <1>2. calls \in 0..MaxCalls /\ mem \in Key!Row
    BY DEF Key!TypeOK
  <1>3. mem.used \in Nat /\ mem.rem \in Nat /\ mem.rem <= KeyLimit /\ mem = [rem |-> mem.rem, used |-> mem.used]
    BY <1>2, KeyNumbers DEF Key!Row
  <1> QED
    BY <1>1, <1>2, <1>3, KeyNumbers DEF KeyCounts

(* A step that counts no call, and leaves no more to count.                *)
LEMMA CountsShrink ==
  ASSUME Key!TypeOK, KeyCounts, UNCHANGED <<mem, calls>>,
         ToCountTwice' \subseteq ToCountTwice, ToCountOnce' \subseteq ToCountOnce
  PROVE  /\ IsFiniteSet(ToCountTwice') /\ IsFiniteSet(ToCountOnce')
         /\ mem'.used + 2 * Cardinality(ToCountTwice') + Cardinality(ToCountOnce') <= 2 * calls'
  <1>1. IsFiniteSet(ToCountTwice) /\ IsFiniteSet(ToCountOnce)
    BY DEF KeyCounts
  <1>2. /\ IsFiniteSet(ToCountTwice') /\ IsFiniteSet(ToCountOnce')
        /\ Cardinality(ToCountTwice') <= Cardinality(ToCountTwice)
        /\ Cardinality(ToCountOnce') <= Cardinality(ToCountOnce)
    BY <1>1, FS_Subset
  <1>3. Cardinality(ToCountTwice') \in Nat /\ Cardinality(ToCountOnce') \in Nat
    BY <1>2, FS_CardinalityType
  <1>4. calls \in Nat
    BY KeyNumbers DEF Key!TypeOK
  <1> QED
    BY <1>1, <1>2, <1>3, <1>4, MemoryBounded DEF KeyCounts

LEMMA KeyAnswered ==
  ASSUME KeyAll, NEW c \in Requests, Key!Answered(c)
  PROVE  KeyAll'
  <1> USE KeyNumbers DEF KeyAll
  <1>0. c \in Key!Savers /\ saver[c].step = "idle" /\ calls \in Nat
    BY DEF Key!Answered, Key!Idle, Key!TypeOK
  <1>1. Key!TypeOK'
    BY <1>0 DEF Key!TypeOK, Key!Answered
  <1>2. /\ saver'[c].step = "headers"
        /\ \A q \in Key!Savers \ {c} : saver'[q] = saver[q]
    BY <1>0 DEF Key!Answered, Key!TypeOK
  <1>3. ToCountTwice' = ToCountTwice \cup {c} /\ ToCountOnce' = ToCountOnce /\ c \notin ToCountTwice
    BY <1>0, <1>2 DEF ToCountTwice, ToCountOnce, Key!Answered
  <1>4. IsFiniteSet(ToCountTwice') /\ Cardinality(ToCountTwice') = Cardinality(ToCountTwice) + 1
    BY <1>3, FS_AddElement DEF KeyCounts
  <1>5. KeyCounts'
    <2>1. lock' # Nothing => saver'[lock'].step = "send"
      BY <1>0, <1>2 DEF KeyCounts, Key!Answered, Key!TypeOK
    <2> QED
      BY <1>0, <1>3, <1>4, <2>1, MemoryBounded DEF KeyCounts, Key!Answered, Key!TypeOK
  <1>6. Key!InFlight' = Key!InFlight
    BY <1>0, <1>2 DEF Key!InFlight
  <1>7. SavesWhatIs'
    BY <1>0, <1>2, <1>6 DEF SavesWhatIs, KeyShown, Key!Answered, Key!InFlight
  <1>8. Key!QuotaShownIsCurrent'
    BY <1>6 DEF Key!QuotaShownIsCurrent, KeyShown, Key!Answered
  <1> QED
    BY <1>1, <1>5, <1>7, <1>8 DEF KeyShown

(* The three that change the counters and save them.                       *)
LEMMA KeyShownSaved ==
  ASSUME Key!TypeOK, KeyShown, NEW p \in Key!Savers, mem' \in Key!Row,
         NEW s \in {"rem", "send"}, Key!Saves(p, s)
  PROVE  KeyShown'
  <1>1. Key!InFlight' \ {p} \subseteq Key!InFlight /\ p \in Key!InFlight'
    BY SavesResult DEF Key!InFlight
  <1>2. SavesWhatIs'
    <2> SUFFICES ASSUME NEW q \in Key!InFlight', saver'[q].alone
                 PROVE  /\ saver'[q].step \in {"used", "send"} => saver'[q].rem = mem'.rem
                        /\ saver'[q].step = "send" => saver'[q].used = mem'.used
      BY DEF SavesWhatIs
    <2>1. q \in Key!Savers
      BY DEF Key!InFlight
    <2>2. q = p
      BY <1>1, <2>1, SavesResult
    <2> QED
      BY <2>2, SavesResult
  <1> QED
    BY <1>1, <1>2 DEF KeyShown, Key!QuotaShownIsCurrent

LEMMA AddOne ==
  ASSUME NEW S, IsFiniteSet(S), NEW x
  PROVE  IsFiniteSet(S \cup {x}) /\ Cardinality(S \cup {x}) <= Cardinality(S) + 1
  <1>1. Cardinality(S) \in Nat
    BY FS_CardinalityType
  <1>2. CASE x \in S
    <2>1. S \cup {x} = S
      BY <1>2
    <2>2. IsFiniteSet(S \cup {x}) /\ Cardinality(S \cup {x}) = Cardinality(S)
      BY <2>1, Zenon
    <2> QED
      BY <1>1, <2>2
  <1>3. CASE x \notin S
    BY <1>1, <1>3, FS_AddElement
  <1> QED
    BY <1>2, <1>3

LEMMA KeyParseHeaders ==
  ASSUME KeyAll, NEW c \in Requests, Key!ParseHeaders(c)
  PROVE  KeyAll'
  <1> USE KeyNumbers DEF KeyAll
  <1>0. c \in Key!Savers /\ calls \in 0..MaxCalls /\ c \in ToCountTwice /\ up
    BY DEF Key!ParseHeaders, Key!TypeOK, ToCountTwice, KeyCounts
  <1>1. IsFiniteSet(ToCountTwice \ {c}) /\ Cardinality(ToCountTwice \ {c}) = Cardinality(ToCountTwice) - 1
    BY <1>0, FS_RemoveElement DEF KeyCounts
  <1>2. Cardinality(ToCountTwice \ {c}) \in Nat
    BY <1>1, FS_CardinalityType
  <1>3. mem' = [rem |-> mem.rem, used |-> mem.used + 1] /\ mem' \in Key!Row
    BY <1>1, <1>2, MemoryBounded DEF Key!ParseHeaders, Key!Row
  <1>4. Key!Saves(c, "send")
    BY DEF Key!ParseHeaders
  <1>5. Key!TypeOK'
    BY <1>0, <1>3, <1>4, SavesResult DEF Key!TypeOK, Key!ParseHeaders
  <1>6. ToCountTwice' = ToCountTwice \ {c} /\ ToCountOnce' \subseteq ToCountOnce \cup {c}
    BY <1>0, <1>3, <1>4, SavesResult DEF ToCountTwice, ToCountOnce, Key!ParseHeaders
  <1>7. /\ IsFiniteSet(ToCountOnce \cup {c}) 
        /\ Cardinality(ToCountOnce \cup {c}) <= Cardinality(ToCountOnce) + 1
    BY AddOne DEF KeyCounts
  <1>8. /\ IsFiniteSet(ToCountOnce') /\ Cardinality(ToCountOnce') <= Cardinality(ToCountOnce \cup {c})
    BY <1>6, <1>7, FS_Subset
  <1>9. Cardinality(ToCountOnce') \in Nat /\ Cardinality(ToCountOnce \cup {c}) \in Nat
    BY <1>7, <1>8, FS_CardinalityType
  <1>10. mem'.used + 2 * Cardinality(ToCountTwice') + Cardinality(ToCountOnce') <= 2 * calls
    BY <1>0, <1>1, <1>2, <1>3, <1>6, <1>7, <1>8, <1>9, MemoryBounded DEF KeyCounts
  <1>11. KeyCounts'
    <2>1. lock' = c /\ saver'[c].step = "send"
      BY <1>0, <1>3, <1>4, SavesResult DEF Key!ParseHeaders
    <2> QED
      BY <1>0, <1>1, <1>6, <1>8, <1>10, <2>1 DEF KeyCounts, Key!ParseHeaders
  <1>12. KeyShown'
    BY <1>0, <1>3, <1>4, KeyShownSaved
  <1> QED
    BY <1>5, <1>11, <1>12

LEMMA KeyRecordCall ==
  ASSUME KeyAll, NEW c \in Requests, Key!RecordCall(c)
  PROVE  KeyAll'
  <1> USE KeyNumbers DEF KeyAll
  <1>0. c \in Key!Savers /\ calls \in 0..MaxCalls /\ c \in ToCountOnce /\ up
    BY DEF Key!RecordCall, Key!TypeOK, ToCountOnce, KeyCounts
  <1>1. IsFiniteSet(ToCountOnce \ {c}) /\ Cardinality(ToCountOnce \ {c}) = Cardinality(ToCountOnce) - 1
    BY <1>0, FS_RemoveElement DEF KeyCounts
  <1>2. Cardinality(ToCountOnce \ {c}) \in Nat
    BY <1>1, FS_CardinalityType
  <1>3. mem'.used = mem.used + 1 /\ mem' \in Key!Row
    BY <1>1, <1>2, MemoryBounded DEF Key!RecordCall, Key!Recorded, Key!Row
  <1>4. Key!Saves(c, "rem")
    BY DEF Key!RecordCall, Key!AfterRecord
  <1>5. Key!TypeOK'
    BY <1>0, <1>3, <1>4, SavesResult DEF Key!TypeOK, Key!RecordCall
  <1>6. ToCountTwice' = ToCountTwice /\ ToCountOnce' = ToCountOnce \ {c}
    <2>1. saver[c].step = "record" /\ lock' = Nothing /\ lock = Nothing
      BY DEF Key!RecordCall
    <2>2. saver'[c].step = "rem" /\ \A q \in Requests \ {c} : saver'[q].step = saver[q].step
      BY <1>0, <1>3, <1>4, SavesResult
    <2> QED
      BY <1>0, <2>1, <2>2 DEF ToCountTwice, ToCountOnce
  <1>7. mem'.used + 2 * Cardinality(ToCountTwice') + Cardinality(ToCountOnce') <= 2 * calls
    BY <1>0, <1>1, <1>2, <1>3, <1>6, MemoryBounded DEF KeyCounts
  <1>8. KeyCounts'
    BY <1>0, <1>1, <1>6, <1>7 DEF KeyCounts, Key!RecordCall
  <1>9. KeyShown'
    BY <1>0, <1>3, <1>4, KeyShownSaved
  <1> QED
    BY <1>5, <1>8, <1>9

LEMMA KeyRefresh ==
  ASSUME KeyAll, Key!Refresh
  PROVE  KeyAll'
  <1> USE KeyNumbers DEF KeyAll
  <1>0. Key!Refresher \in Key!Savers /\ saver[Key!Refresher].step = "idle"
    BY DEF Key!Refresh, Key!Savers, Key!Idle
  <1>3. mem' = [rem |-> KeyLimit, used |-> mem.used] /\ mem' \in Key!Row
    BY DEF Key!Refresh, Key!Row, Key!TypeOK
  <1>4. Key!Saves(Key!Refresher, "send")
    BY DEF Key!Refresh
  <1>5. Key!TypeOK'
    BY <1>0, <1>3, <1>4, SavesResult DEF Key!TypeOK, Key!Refresh
  <1>6. ToCountTwice' = ToCountTwice /\ ToCountOnce' = ToCountOnce
    <2>1. lock' = Key!Refresher /\ lock = Nothing
      BY DEF Key!Refresh
    <2>2. /\ saver'[Key!Refresher].step = "send"
          /\ \A q \in Requests \ {Key!Refresher} : saver'[q].step = saver[q].step
      BY <1>0, <1>3, <1>4, SavesResult
    <2> QED
      BY <1>0, <2>1, <2>2 DEF ToCountTwice, ToCountOnce
  <1>7. saver'[Key!Refresher].step = "send"
    BY <1>0, <1>3, <1>4, SavesResult
  <1>8. KeyCounts'
    BY <1>3, <1>6, <1>7 DEF KeyCounts, Key!Refresh
  <1>9. KeyShown'
    BY <1>0, <1>3, <1>4, KeyShownSaved
  <1> QED
    BY <1>5, <1>8, <1>9

(* A step of one saver that changes no counter and starts no save.         *)
LEMMA KeyOneSaver ==
  ASSUME KeyAll, UNCHANGED <<up, mem, calls, db, snap>>, Key!TypeOK',
         NEW p \in Key!Savers, up,
         \A q \in Key!Savers \ {p} : saver'[q] = saver[q],
         (UNCHANGED lock /\ lock # p) \/ lock' = Nothing,
         saver'[p].step # "headers", p \in ToCountOnce' => p \in ToCountOnce
  PROVE  KeyCounts'
  <1> USE DEF KeyAll
  <1>1. ToCountTwice' \subseteq ToCountTwice
    BY KeyNumbers DEF ToCountTwice
  <1>2. ToCountOnce' \subseteq ToCountOnce
    BY KeyNumbers DEF ToCountOnce
  <1>3. lock' # Nothing => saver'[lock'].step = "send"
    BY KeyNumbers DEF KeyCounts, Key!TypeOK
  <1> QED
    BY <1>1, <1>2, <1>3, CountsShrink DEF KeyCounts

SaverRow == [step : {"idle", "headers", "record", "rem", "used", "send"},
             rem : 0..KeyLimit, used : 0..(2 * MaxCalls), alone : BOOLEAN]

LEMMA SaverMoves ==
  ASSUME Key!TypeOK, NEW p \in Key!Savers, NEW n \in SaverRow,
         saver' = [saver EXCEPT ![p] = n]
  PROVE  /\ saver' \in [Key!Savers -> SaverRow] /\ saver'[p] = n
         /\ \A q \in Key!Savers \ {p} : saver'[q] = saver[q]
  BY DEF Key!TypeOK, SaverRow

LEMMA KeySaving ==
  ASSUME KeyAll, NEW c \in Requests,
         Key!CallFailed(c) \/ Key!ReadRemaining(c) \/ Key!ReadUsed(c)
  PROVE  KeyAll'
  <1> USE KeyNumbers DEF KeyAll
  <1>0. c \in Key!Savers /\ saver[c].step \in {"record", "rem", "used"} /\ up /\ lock # c
    BY DEF Key!CallFailed, Key!ReadRemaining, Key!ReadUsed, KeyCounts
  <1>1. UNCHANGED <<up, crashes, mem, lock, redis, db, snap, calls, astray, unread>>
    BY DEF Key!CallFailed, Key!ReadRemaining, Key!ReadUsed
  <1>2. mem.rem \in 0..KeyLimit /\ mem.used \in 0..(2 * MaxCalls)
    BY DEF Key!TypeOK, Key!Row
  <1>m. /\ saver' \in [Key!Savers -> SaverRow]
        /\ \A q \in Key!Savers \ {c} : saver'[q] = saver[q]
        /\ \/ saver[c].step = "record" /\ saver'[c].step = "idle"
           \/ /\ saver[c].step = "rem" /\ saver'[c].step = "used"
              /\ saver'[c].rem = mem.rem /\ saver'[c].alone = saver[c].alone
           \/ /\ saver[c].step = "used" /\ saver'[c].step = "send"
              /\ saver'[c].rem = saver[c].rem /\ saver'[c].used = mem.used
              /\ saver'[c].alone = saver[c].alone
    <2>1. CASE Key!CallFailed(c)
      <3>1. Key!Idle \in SaverRow /\ Key!Idle.step = "idle"
        BY DEF Key!Idle, SaverRow
      <3> QED
        BY <1>0, <2>1, <3>1, SaverMoves DEF Key!CallFailed
    <2>2. CASE Key!ReadRemaining(c)
      <3> DEFINE n == [saver[c] EXCEPT !.step = "used", !.rem = mem.rem]
      <3>1. /\ n \in SaverRow /\ n.step = "used" /\ n.rem = mem.rem
            /\ n.alone = saver[c].alone
        BY <1>0, <1>2 DEF Key!TypeOK, SaverRow
      <3>2. saver[c].step = "rem" /\ saver' = [saver EXCEPT ![c] = n]
        BY <2>2 DEF Key!ReadRemaining
      <3> HIDE DEF n
      <3> QED
        BY <1>0, <3>1, <3>2, SaverMoves
    <2>3. CASE Key!ReadUsed(c)
      <3> DEFINE n == [saver[c] EXCEPT !.step = "send", !.used = mem.used]
      <3>1. /\ n \in SaverRow /\ n.step = "send" /\ n.used = mem.used
            /\ n.rem = saver[c].rem /\ n.alone = saver[c].alone
        BY <1>0, <1>2 DEF Key!TypeOK, SaverRow
      <3>2. saver[c].step = "used" /\ saver' = [saver EXCEPT ![c] = n]
        BY <2>3 DEF Key!ReadUsed
      <3> HIDE DEF n
      <3> QED
        BY <1>0, <3>1, <3>2, SaverMoves
    <2> QED
      BY <2>1, <2>2, <2>3
  <1>3. Key!TypeOK'
    BY <1>1, <1>m DEF Key!TypeOK, SaverRow
  <1>4. \A q \in Key!Savers \ {c} : saver'[q] = saver[q]
    BY <1>m
  <1>5. saver'[c].step \in {"idle", "used", "send"}
    BY <1>m
  <1>6. KeyCounts'
    <2>1. c \in ToCountOnce' => c \in ToCountOnce
      BY <1>0, <1>1, <1>5 DEF ToCountOnce
    <2> QED
      BY <1>0, <1>1, <1>3, <1>4, <1>5, <2>1, KeyOneSaver
  <1>7. Key!InFlight' = Key!InFlight
    BY <1>0, <1>m DEF Key!InFlight
  <1>8. c \in Key!InFlight' =>
          /\ saver'[c].alone = saver[c].alone
          /\ saver'[c].step \in {"used", "send"}
          /\ saver'[c].step = "used" => saver'[c].rem = mem.rem
          /\ saver'[c].step = "send" =>
                saver'[c].rem = saver[c].rem /\ saver[c].step = "used" /\ saver'[c].used = mem.used
    BY <1>m DEF Key!InFlight
  <1>9. SavesWhatIs'
    BY <1>0, <1>1, <1>4, <1>7, <1>8 DEF SavesWhatIs, KeyShown, Key!InFlight
  <1>10. Key!QuotaShownIsCurrent'
    BY <1>1, <1>7 DEF Key!QuotaShownIsCurrent, KeyShown
  <1> QED
    BY <1>3, <1>6, <1>9, <1>10 DEF KeyShown

LEMMA KeySend ==
  ASSUME KeyAll, NEW p \in Key!Savers, Key!Send(p)
  PROVE  KeyAll'
  <1> USE KeyNumbers DEF KeyAll
  <1>0. saver[p].step = "send" /\ up /\ p \in Key!InFlight
    BY DEF Key!Send, KeyCounts, Key!InFlight
  <1>1. UNCHANGED <<up, crashes, mem, db, snap, calls, unread>>
    BY DEF Key!Send
  <1>2. [rem |-> saver[p].rem, used |-> saver[p].used] \in Key!Row /\ saver[p].alone \in BOOLEAN
    BY DEF Key!TypeOK, Key!Row
  <1>3. 0 \in 0..KeyLimit /\ 0 \in 0..(2 * MaxCalls)
    OBVIOUS
  <1>4. /\ saver' \in [Key!Savers -> SaverRow]
        /\ \A q \in Key!Savers \ {p} : saver'[q] = saver[q]
        /\ saver'[p].step = "idle" \/ (saver'[p].step = "record" /\ lock = p /\ p # Key!Refresher)
    <2>1. Key!Idle \in SaverRow /\ Key!Idle.step = "idle"
      BY <1>3 DEF Key!Idle, SaverRow
    <2>2. /\ [Key!Idle EXCEPT !.step = "record"] \in SaverRow
          /\ [Key!Idle EXCEPT !.step = "record"].step = "record"
      BY <1>3 DEF Key!Idle, SaverRow
    <2>3. CASE lock = p /\ p # Key!Refresher
      BY <2>2, <2>3, SaverMoves DEF Key!Send
    <2>4. CASE ~(lock = p /\ p # Key!Refresher)
      BY <2>1, <2>4, SaverMoves DEF Key!Send
    <2> QED
      BY <2>3, <2>4
  <1>5. (UNCHANGED lock /\ lock # p) \/ lock' = Nothing
    BY DEF Key!Send
  <1>6. Key!TypeOK'
    <2>1. redis' \in Key!Row \cup {Nothing} /\ astray' \in BOOLEAN
      BY <1>2 DEF Key!Send, Key!TypeOK
    <2> QED
      BY <1>1, <1>4, <1>5, <2>1 DEF Key!TypeOK, SaverRow
  <1>7. p \in ToCountOnce' => p \in ToCountOnce
    BY <1>0, <1>4 DEF ToCountOnce
  <1>8. KeyCounts'
    BY <1>0, <1>1, <1>4, <1>5, <1>6, <1>7, KeyOneSaver
  <1>9. Key!InFlight' = Key!InFlight \ {p}
    BY <1>4 DEF Key!InFlight
  <1>10. SavesWhatIs'
    BY <1>1, <1>4, <1>9 DEF SavesWhatIs, KeyShown, Key!InFlight
  <1>11. Key!QuotaShownIsCurrent'
    <2> SUFFICES ASSUME up', ~astray' PROVE redis' = mem'
      BY DEF Key!QuotaShownIsCurrent
    <2>1. saver[p].alone /\ redis' = [rem |-> saver[p].rem, used |-> saver[p].used]
      BY DEF Key!Send
    <2>2. saver[p].rem = mem.rem /\ saver[p].used = mem.used
      BY <1>0, <2>1 DEF KeyShown, SavesWhatIs
    <2> QED
      BY <1>1, <2>1, <2>2, MemoryBounded
  <1> QED
    BY <1>6, <1>8, <1>10, <1>11 DEF KeyShown

(* A step that leaves the savers, the counters and the calls.              *)
LEMMA KeyStill ==
  ASSUME KeyAll, UNCHANGED <<up, crashes, mem, lock, saver, calls, astray, unread>>,
         redis' \in {Nothing, redis},
         db' \in {db, snap}, db' # Nothing, snap' \in {Nothing, snap, mem.used},
         up \/ UNCHANGED snap
  PROVE  KeyAll'
  <1> USE KeyNumbers DEF KeyAll
  <1>0. mem.used \in 0..(2 * MaxCalls) /\ mem.used <= 2 * calls
    BY MemoryBounded DEF Key!TypeOK, Key!Row, KeyCounts
  <1>1. Key!TypeOK'
    BY <1>0 DEF Key!TypeOK
  <1>2. ToCountTwice' = ToCountTwice /\ ToCountOnce' = ToCountOnce /\ Key!InFlight' = Key!InFlight
    BY DEF ToCountTwice, ToCountOnce, Key!InFlight
  <1>3. db' <= 2 * calls /\ (snap' # Nothing => snap' <= 2 * calls)
    BY <1>0 DEF KeyCounts
  <1>4. KeyCounts'
    BY <1>2, <1>3 DEF KeyCounts
  <1>5. KeyShown'
    BY <1>2 DEF KeyShown, SavesWhatIs, Key!QuotaShownIsCurrent
  <1> QED
    BY <1>1, <1>4, <1>5

LEMMA KeyDown ==
  ASSUME KeyAll, Key!Crash
  PROVE  KeyAll'
  <1> USE KeyNumbers DEF KeyAll
  <1>0. /\ 0 \in 0..KeyLimit /\ 0 \in 0..(2 * MaxCalls)
    OBVIOUS
  <1>1. Key!TypeOK'
    <2>1. mem' \in Key!Row /\ crashes' \in 0..MaxCrashes
      BY <1>0 DEF Key!Crash, Key!Row, Key!TypeOK
    <2>2. Key!Idle \in SaverRow
      BY <1>0 DEF Key!Idle, SaverRow
    <2>3. saver' \in [Key!Savers -> SaverRow]
      BY <2>2 DEF Key!Crash
    <2> QED
      BY <2>1, <2>3 DEF Key!TypeOK, Key!Crash, SaverRow
  <1>2. ToCountTwice' = {} /\ ToCountOnce' = {} /\ Key!InFlight' = {}
    BY DEF ToCountTwice, ToCountOnce, Key!InFlight, Key!Crash, Key!Idle
  <1>3. KeyCounts'
    <2>1. calls \in Nat
      BY DEF Key!TypeOK
    <2> QED
      BY <1>2, <2>1, FS_EmptySet DEF KeyCounts, Key!Crash, Key!Idle
  <1>4. KeyShown'
    BY <1>2 DEF KeyShown, SavesWhatIs, Key!QuotaShownIsCurrent, Key!Crash
  <1> QED
    BY <1>1, <1>3, <1>4

LEMMA KeyUp ==
  ASSUME KeyAll, Key!RegisterKey
  PROVE  KeyAll'
  <1> USE KeyNumbers DEF KeyAll
  <1>0. snap = Nothing /\ \A p \in Key!Savers : saver[p].step = "idle"
    BY DEF KeyCounts, Key!RegisterKey
  <1>1. /\ mem' \in Key!Row
        /\ mem'.used \in {0, db} /\ unread' \in BOOLEAN
    <2>1. Key!Loaded \in Key!Row /\ Key!Loaded.used = db /\ unread \in BOOLEAN
      BY DEF Key!Loaded, Key!TypeOK, Key!Row
    <2>2. [Key!Loaded EXCEPT !.used = 0] \in Key!Row /\ [Key!Loaded EXCEPT !.used = 0].used = 0
      BY <2>1 DEF Key!Row
    <2> QED
      BY <2>1, <2>2 DEF Key!RegisterKey
  <1>2. UNCHANGED <<crashes, lock, redis, db, saver, snap, calls>> /\ astray' = TRUE /\ up' = TRUE
    BY DEF Key!RegisterKey
  <1>3. Key!TypeOK'
    BY <1>1, <1>2 DEF Key!TypeOK
  <1>4. ToCountTwice' = {} /\ ToCountOnce' = {} /\ Key!InFlight' = {}
    BY <1>0, <1>2 DEF ToCountTwice, ToCountOnce, Key!InFlight
  <1>5. KeyCounts'
    <2>1. calls \in Nat /\ db \in Nat
      BY DEF Key!TypeOK
    <2> QED
      BY <1>1, <1>2, <1>4, <2>1, FS_EmptySet DEF KeyCounts
  <1>6. KeyShown'
    BY <1>2, <1>4 DEF KeyShown, SavesWhatIs, Key!QuotaShownIsCurrent
  <1> QED
    BY <1>3, <1>5, <1>6

LEMMA KeyStep ==
  ASSUME KeyAll, [Key!Next]_(Key!vars)
  PROVE  KeyAll'
  <1>0. db # Nothing /\ mem.used # Nothing
    BY KeyNumbers, MemoryBounded DEF KeyAll, Key!TypeOK
  <1>1. CASE \E c \in Requests : Key!Answered(c) \/ Key!ParseHeaders(c) \/ Key!RecordCall(c)
    BY <1>1, KeyAnswered, KeyParseHeaders, KeyRecordCall
  <1>2. CASE \E c \in Requests : Key!CallFailed(c) \/ Key!ReadRemaining(c) \/ Key!ReadUsed(c)
    BY <1>2, KeySaving
  <1>3. CASE Key!Refresh \/ (\E p \in Key!Savers : Key!Send(p))
    BY <1>3, KeyRefresh, KeySend
  <1>4. CASE Key!RedisExpires \/ UNCHANGED Key!vars
    <2>1. UNCHANGED <<up, crashes, mem, lock, db, saver, snap, calls, astray, unread>>
      BY <1>4 DEF Key!RedisExpires, Key!vars
    <2>2. redis' \in {Nothing, redis}
      BY <1>4 DEF Key!RedisExpires, Key!vars
    <2> QED
      BY <1>0, <2>1, <2>2, KeyStill
  <1>5. CASE Key!Clone
    BY <1>0, <1>5, KeyStill DEF Key!Clone
  <1>6. CASE Key!SyncToDB
    <2>1. up
      BY <1>6 DEF Key!SyncToDB, KeyAll, KeyCounts, Key!TypeOK
    <2> QED
      BY <1>0, <1>6, <2>1, KeyStill DEF Key!SyncToDB
  <1>7. CASE Key!Crash \/ Key!RegisterKey
    BY <1>7, KeyDown, KeyUp
  <1> QED
    BY <1>1, <1>2, <1>3, <1>4, <1>5, <1>6, <1>7 DEF Key!Next

LEMMA KeyStarts == ASSUME side = "key", ServicesInit PROVE Key!Init
  BY DEF ServicesInit

LEMMA KeySteps ==
  ASSUME side' = "key", [ServicesNext]_servicesVars
  PROVE  side = "key" /\ [Key!Next]_(Key!vars)
  BY DEF ServicesNext, servicesVars, keyVars, Key!vars

KeySide == side = "key" => KeyAll

LEMMA KeySideHolds == ServicesSpec => []KeySide
  <1>1. ServicesInit => KeySide
    BY KeyStarts, KeyAllInit DEF KeySide
  <1>2. KeySide /\ [ServicesNext]_servicesVars => KeySide'
    BY KeySteps, KeyStep DEF KeySide
  <1> QED
    BY <1>1, <1>2, PTL DEF ServicesSpec

-----------------------------------------------------------------------------
(* What the services promise, wherever MCServices looks.                   *)

BillingInv == side = "billing" => IInv

LEMMA BillingInvHolds == ServicesSpec => []BillingInv
  <1>1. ServicesInit => BillingInv
    <2> SUFFICES ASSUME ServicesInit, side = "billing" PROVE IInv
      BY DEF BillingInv
    <2>1. Init
      BY DEF ServicesInit
    <2> QED
      BY <2>1, InitOK
  <1>2. BillingInv /\ [ServicesNext]_servicesVars => BillingInv'
    <2> SUFFICES ASSUME BillingInv, [ServicesNext]_servicesVars, side' = "billing" PROVE IInv'
      BY DEF BillingInv
    <2>1. side = "billing" /\ [Next]_vars
      BY DEF ServicesNext, servicesVars
    <2> QED
      BY <2>1, StepOK DEF BillingInv
  <1> QED
    BY <1>1, <1>2, PTL DEF ServicesSpec

(* Every service keeps the types and the bounds of its state: rows,        *)
(* counters, marks in Redis and handlers.                                  *)
THEOREM ServicesTypeCorrect == ServicesSpec => []Typed
  <1>1. BillingInv /\ AuthInv /\ RateSide /\ CardSide /\ StudySide /\ KeySide => Typed
    <2>1. BillingInv => (side = "billing" => TypeOK)
      BY DEF BillingInv, IInv
    <2>2. AuthInv => (side = "auth" => Auth!TypeOK)
      BY DEF AuthInv, Auth!TypeInv
    <2>3. RateSide => (side = "rate" => Rate!TypeOK)
      BY DEF RateSide, RateAll
    <2>4. CardSide => (side = "cards" => Cards!TypeOK)
      BY DEF CardSide, CardAll, CardTypes
    <2>5. StudySide => (side = "study" => Study!TypeOK)
      BY DEF StudySide, StudyAll, StudyTypes
    <2>6. KeySide => (side = "key" => Key!TypeOK)
      BY DEF KeySide, KeyAll
    <2> QED
      BY <2>1, <2>2, <2>3, <2>4, <2>5, <2>6 DEF Typed
  <1> QED
    BY <1>1, BillingInvHolds, AuthInvHolds, RateSideHolds, CardSideHolds, StudySideHolds,
       KeySideHolds, PTL

(* In any window of time no more requests are let through than the limit   *)
(* and one for each further request at work; of a study tool no more are   *)
(* granted in a day than the tier allows, and the row of the quota counts  *)
(* each (RateLimit, checkStudyQuota).                                      *)
THEOREM LimitsAlwaysHold == ServicesSpec => []LimitsHold
  <1>1. RateSide /\ CardSide => LimitsHold
    BY WindowHolds DEF RateSide, CardSide, CardAll, LimitsHold
  <1> QED
    BY <1>1, RateSideHolds, CardSideHolds, PTL

(* No repetition of a card is lost and a forgotten card is due, a badge    *)
(* that was earned is given, the streak is the run of days of the visits,  *)
(* and the pages a day of a plan reach its exam (MarkFlashcard,            *)
(* CheckAndAwardBadges, GetStreak, CreateStudyPlan).                       *)
THEOREM RecordsAreAlwaysTrue == ServicesSpec => []RecordsAreTrue
  <1>1. CardSide /\ StudySide => RecordsAreTrue
    BY CardsKeepFaith, StudyIsTrue DEF CardSide, StudySide, RecordsAreTrue
  <1> QED
    BY <1>1, CardSideHolds, StudySideHolds, PTL

(* A cached set of cards is the set in the table, and the quota that Redis *)
(* shows of a key the one in memory, but for the races they name           *)
(* (GetFlashcards, MarkFlashcard, saveToRedis).                            *)
THEOREM CachesStayCurrent == ServicesSpec => []CachesAreCurrent
  <1>1. CardSide /\ KeySide => CachesAreCurrent
    BY CardsKeepFaith DEF CardSide, KeySide, KeyAll, KeyShown, CachesAreCurrent
  <1> QED
    BY <1>1, CardSideHolds, KeySideHolds, PTL
=============================================================================
