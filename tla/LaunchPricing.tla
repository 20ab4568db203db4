--------------------------- MODULE LaunchPricing ---------------------------
(***************************************************************************)
(* PricingService: the slots of the launch campaign.  The slot decides the *)
(* price, n euros for slot n up to a maximum.  With Redis a slot is the    *)
(* next value of a counter of the region; without it, one more than the    *)
(* highest slotNumber in LaunchPurchase.  A slot reserved is written to    *)
(* that table later, under a unique index on (region, slotNumber).         *)
(*                                                                         *)
(* The row of a purchase is named by its stripeSessionId, unique as well.  *)
(* One campaign: the counters are not kept per campaign, and no operation  *)
(* of the service moves from one campaign to another.                      *)
(***************************************************************************)
EXTENDS Naturals

CONSTANTS
    Regions,     \* PricingRegion
    NoRegion,    \* no region
    Purchases,   \* stripeSessionIds of the LaunchPurchase rows that may be created
    MAX_PRICE,   \* the launch price stops rising here
    MaxCounter   \* BOUND on the Redis counters

ASSUME PricingAssumption ==
    /\ NoRegion \notin Regions
    /\ MAX_PRICE \in Nat \ {0}
    /\ MaxCounter \in Nat

VARIABLES
    redis,       \* whether a Redis client was injected; fixed when the service starts
    counter,     \* counter[g]: the Redis counter of region g, 0 when the key is absent
    restoring,   \* restoring[g]: the slot POST /pricing/init has read for g, 0 if none
    place,       \* place[p]: [region, slotNumber] of purchase row p
    purchase     \* purchase[p]: column status, or "ABSENT" before the row is created

pricingVars == <<redis, counter, restoring, place, purchase>>

PaymentStatuses == {"ABSENT", "PENDING", "COMPLETED"}

Places == [region : Regions \cup {NoRegion}, slotNumber : Nat]

PricingTypeOK ==
    /\ redis \in BOOLEAN
    /\ counter \in [Regions -> Nat]
    /\ restoring \in [Regions -> Nat]
    /\ place \in [Purchases -> Places]
    /\ purchase \in [Purchases -> PaymentStatuses]

PricingInit ==
    /\ redis \in BOOLEAN
    /\ counter = [g \in Regions |-> 0]
    /\ restoring = [g \in Regions |-> 0]
    /\ place = [p \in Purchases |-> [region |-> NoRegion, slotNumber |-> 0]]
    /\ purchase = [p \in Purchases |-> "ABSENT"]

-----------------------------------------------------------------------------
(***************************************************************************)
(* findFirst ordered by slotNumber desc, over the rows whose status is in  *)
(* St: the slotNumber of a row that none exceeds, 0 without rows.          *)
(***************************************************************************)
Slots(g, St) ==
    {place[p].slotNumber : p \in {q \in Purchases : purchase[q] \in St /\ place[q].region = g}}

IsMaxSlot(n, g, St) ==
    /\ n \in Slots(g, St) \cup {0}
    /\ \A m \in Slots(g, St) : m <= n

Recorded == PaymentStatuses \ {"ABSENT"}

PriceOf(n) == IF n <= MAX_PRICE THEN n ELSE MAX_PRICE

(* the slotNumber getCurrentPricing finds: the counter, or the highest slot
   that is paid for *)
CurrentSlots(g) ==
    IF redis
    THEN {counter[g]}
    ELSE {n \in Slots(g, {"COMPLETED"}) \cup {0} : IsMaxSlot(n, g, {"COMPLETED"})}

(* Faulty variant: nextPrice is shown as the price of now. *)
NextPrices(g) == {PriceOf(n + 2) : n \in CurrentSlots(g)}

(* currentPrice, as shown to visitors of region g *)
CurrentPrices(g) == {PriceOf(n + 1) : n \in CurrentSlots(g)}

(* Faulty variant: the slot of what visitors are shown as nextPrice. *)
NextSlotsAsShown(g) ==
    IF redis
    THEN {counter[g] + 1}
    ELSE {n + 2 : n \in {m \in Slots(g, Recorded) \cup {0} : IsMaxSlot(m, g, Recorded)}}

(* reserveSlot: the slot that is reserved now for region g.  Without Redis
   the transaction and its advisory lock end before anybody writes a row, so
   that two requests may be given one slot. *)
NextSlots(g) ==
    IF redis
    THEN {counter[g] + 1}
    ELSE {n + 1 : n \in {m \in Slots(g, Recorded) \cup {0} : IsMaxSlot(m, g, Recorded)}}

ReserveSlot(n, g) ==
    /\ n \in NextSlots(g)
    /\ redis => n <= MaxCounter
    /\ counter' = IF redis THEN [counter EXCEPT ![g] = n] ELSE counter

(* Faulty variant: no unique index. *)
SlotNeverTaken(n, g) == FALSE

(* the unique index on (region, campaignId, slotNumber) *)
SlotTaken(n, g) == n \in Slots(g, Recorded)

(* recordPurchase; P2002 when SlotTaken(n, g) *)
RecordPurchase(p, n, g) ==
    /\ ~SlotTaken(n, g)
    /\ place' = [place EXCEPT ![p] = [region |-> g, slotNumber |-> n]]
    /\ purchase' = [purchase EXCEPT ![p] = "PENDING"]

-----------------------------------------------------------------------------
(***************************************************************************)
(* POST /pricing/reset, and a flush of Redis.                              *)
(***************************************************************************)
ResetCounter(g) ==
    /\ redis
    /\ counter' = [counter EXCEPT ![g] = 0]
    /\ UNCHANGED <<redis, restoring, place, purchase>>

(***************************************************************************)
(* POST /pricing/init, one region: the highest COMPLETED slot is read and  *)
(* then set, over whatever the counter has become.                         *)
(***************************************************************************)
ReadMaxCompleted(g) ==
    /\ redis
    /\ restoring[g] = 0
    /\ \E n \in Slots(g, {"COMPLETED"}) :
          /\ IsMaxSlot(n, g, {"COMPLETED"})
          /\ restoring' = [restoring EXCEPT ![g] = n]
    /\ UNCHANGED <<redis, counter, place, purchase>>

SetCounter(g) ==
    /\ restoring[g] # 0
    /\ counter' = [counter EXCEPT ![g] = restoring[g]]
    /\ restoring' = [restoring EXCEPT ![g] = 0]
    /\ UNCHANGED <<redis, place, purchase>>

=============================================================================
