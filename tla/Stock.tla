-------------------------------- MODULE Stock --------------------------------
(* One item at one location: its open inbound lots, the stockkeeping unit's *)
(* roll-up of them, the item ledger and the inventory account, moved by     *)
(* sales and purchase documents, item journal lines and store requisitions. *)
(* Nothing of this is locked when it is read.  Journal lines take the       *)
(* number-series lock (PostingEngine) before they re-read and write the     *)
(* lots and the roll-up; documents re-read and write them before their      *)
(* journal takes the lock, so theirs is a step of its own.                  *)
(*                                                                          *)
(* Not here: units of measure and several locations (the state is per item  *)
(* and location), backdated lots (lots are drawn in the order of entry).    *)
EXTENDS Integers, Sequences, Functions

CONSTANTS
    Movers,         \* requests under way
    Methods,        \* costing methods tried
    Costs,          \* unit costs of adjustments, amounts of purchase lines
    Quantities,     \* quantities moved
    QtyApproved,    \* approved on the store requisition's line
    Openings,       \* what is in stock at first: sequences of lots
    MaxLots, MaxMoved   \* bounds on the lots and on the total quantity moved

ASSUME StockAssumption ==
    /\ Costs \subseteq Int /\ Quantities \subseteq Nat \ {0} /\ QtyApproved \in Nat
    /\ Openings \subseteq Seq([left : Nat, cost : Int])

VARIABLES
    method,     \* costing method of the item
    lots,       \* inbound item ledger entries: what is left of each, unit cost
    sku,        \* stockkeeping_unit.inventory
    ledger,     \* sum of item_ledger_entry.quantity
    gl,         \* balance of the inventory account
    issued,     \* quantity_issued of the requisition's line
    moves,      \* what each request has read and means to write
    qtyMoved,   \* total quantity moved
    stockMarks  \* "plan", "look": written over what changed since; "return": a credit memo

stockVars == <<method, lots, sku, ledger, gl, issued, moves, qtyMoved, stockMarks>>

Outbound == {"sale", "adjustOut", "issue"}
Journalled == {"adjustIn", "adjustOut", "issue"}
MoveKinds == Outbound \cup {"purchase", "adjustIn", "saleReturn", "purchaseReturn"}

Min2(a, b) == IF a < b THEN a ELSE b
Max2(a, b) == IF a > b THEN a ELSE b
RoundCost(n, d) == (2 * n + d) \div (2 * d)

OpenQty(i) == Max2(lots[i].left, 0)
OnHand == SumFunction([i \in DOMAIN lots |-> OpenQty(i)])
ValueLeft == SumFunction([i \in DOMAIN lots |-> OpenQty(i) * lots[i].cost])

StockInit ==
    /\ method \in Methods
    /\ lots \in Openings
    /\ sku = OnHand /\ ledger = OnHand /\ gl = ValueLeft
    /\ issued = 0 /\ qtyMoved = 0
    /\ moves = [s \in Movers |-> <<>>]
    /\ stockMarks = {}

(* What an outbound quantity takes from each lot: the oldest first, or the  *)
(* newest.                                                                  *)
Taken(q) ==
    [i \in DOMAIN lots |->
        LET before == {j \in DOMAIN lots : IF method = "LIFO" THEN j > i ELSE j < i}
        IN  Min2(OpenQty(i), Max2(q - SumFunction([j \in before |-> OpenQty(j)]), 0))]

(* What costing may decide for an outbound quantity; empty: it refuses.     *)
(* Standard is whatever the item's unit cost is; a specific lot can only be *)
(* named on a journal line                                                  *)
(* (first with a defect: it does not look at what is open).                 *)
CostOutboundBlind(kind, q) ==
    IF lots = <<>> THEN {}
    ELSE {[take |-> [i \in DOMAIN lots |-> IF i = 1 THEN q ELSE 0], cost |-> lots[1].cost]}

CostOutbound(kind, q) ==
    CASE method = "Standard" -> {[take |-> [i \in DOMAIN lots |-> 0], cost |-> c] : c \in Costs}
      [] method = "Specific" ->
            {[take |-> [i \in DOMAIN lots |-> IF i = n THEN q ELSE 0], cost |-> lots[n].cost] :
                n \in {i \in DOMAIN lots : kind = "adjustOut" /\ lots[i].left >= q}}
      [] OTHER ->
            IF OnHand < q THEN {}
            ELSE {[take |-> Taken(q),
                   cost |-> IF method = "Average" THEN RoundCost(ValueLeft, OnHand)
                            ELSE RoundCost(SumFunction([i \in DOMAIN lots |-> Taken(q)[i] * lots[i].cost]), q)]}

StockState == <<lots, sku, issued>>
NoTake == [i \in DOMAIN lots |-> 0]

Move(kind, q, delta, value, take, cost) ==
    [kind |-> kind, q |-> q, delta |-> delta, value |-> value, take |-> take, cost |-> cost,
     overtaken |-> FALSE, looked |-> <<>>]

(* A request reads the lots, the roll-up and the requisition and decides    *)
(* what it will write.  Item journal lines also compare with the roll-up; a *)
(* sales credit memo costs its return as if it were a sale.                 *)
PlanMove(kind, q) ==
    CASE kind \in Outbound ->
            {Move(kind, q, -q, -(q * c.cost), c.take, c.cost) :
                c \in {d \in CostOutbound(kind, q) :
                          /\ kind \in Journalled => sku >= q
                          /\ kind = "issue" => q <= QtyApproved - issued}}
      [] kind = "saleReturn" ->
            {Move(kind, q, q, q * c.cost, NoTake, c.cost) : c \in CostOutbound(kind, q)}
      [] kind = "adjustIn" -> {Move(kind, q, q, q * c, NoTake, c) : c \in Costs}
      [] kind = "purchase" -> {Move(kind, q, q, a, NoTake, RoundCost(a, q)) : a \in Costs}
      [] OTHER -> {Move(kind, q, -q, -a, NoTake, RoundCost(a, q)) : a \in Costs}

BeginMove(s, kind, q) ==
    /\ moves[s] = <<>>
    /\ qtyMoved + q <= MaxMoved
    /\ kind \in {"purchase", "adjustIn"} => Len(lots) < MaxLots
    /\ \E w \in PlanMove(kind, q) : moves' = [moves EXCEPT ![s] = <<w>>]
    /\ UNCHANGED <<method, lots, sku, ledger, gl, issued, qtyMoved, stockMarks>>

(* A document re-reads what it will write back.                             *)
LookAgain(s) ==
    /\ moves[s] # <<>> /\ moves[s][1].looked = <<>> /\ moves[s][1].kind \notin Journalled
    /\ moves' = [moves EXCEPT ![s] = <<[@[1] EXCEPT !.looked = StockState]>>]
    /\ UNCHANGED <<method, lots, sku, ledger, gl, issued, qtyMoved, stockMarks>>

(* The lots drawn on are written back less what was taken; a receipt is a   *)
(* lot of its own                                                           *)
(* (first with a defect: only the first lot drawn on is written back).      *)
DrawnFirst(w, seen) ==
    LET drawn == {i \in DOMAIN w.take : w.take[i] > 0}
    IN  [i \in DOMAIN lots |->
            IF i \in drawn /\ \A j \in drawn : i <= j
            THEN [lots[i] EXCEPT !.left = seen[i].left - w.take[i]] ELSE lots[i]]

Drawn(w, seen) ==
    [i \in DOMAIN lots |->
        IF i \in DOMAIN w.take /\ w.take[i] > 0
        THEN [lots[i] EXCEPT !.left = seen[i].left - w.take[i]] ELSE lots[i]]

(* The writes, made absolute from what was re-read, and the journal.        *)
PostMove(s) ==
    /\ moves[s] # <<>>
    /\ LET w == moves[s][1]
           seen == IF w.kind \in Journalled THEN StockState ELSE w.looked
           now == Drawn(w, seen[1])
       IN  /\ w.kind \notin Journalled => w.looked # <<>>
           /\ lots' = IF w.kind \in {"purchase", "adjustIn"}
                      THEN Append(now, [left |-> w.q, cost |-> w.cost]) ELSE now
           /\ sku' = seen[2] + w.delta
           /\ ledger' = ledger + w.delta
           /\ gl' = gl + w.value
           /\ issued' = IF w.kind = "issue" THEN issued + w.q ELSE issued
           /\ qtyMoved' = qtyMoved + w.q
           /\ stockMarks' = stockMarks \cup (IF w.overtaken THEN {"plan"} ELSE {})
                             \cup (IF StockState # seen THEN {"look"} ELSE {})
                             \cup (IF w.kind \in {"saleReturn", "purchaseReturn"} THEN {"return"} ELSE {})
    /\ moves' = [r \in Movers |-> IF r = s \/ moves[r] = <<>> THEN <<>>
                                 ELSE <<[moves[r][1] EXCEPT !.overtaken = TRUE]>>]
    /\ UNCHANGED method

(* The request is refused later, or the database ends it in a deadlock.     *)
AbandonMove(s) ==
    /\ moves[s] # <<>>
    /\ moves' = [moves EXCEPT ![s] = <<>>]
    /\ UNCHANGED <<method, lots, sku, ledger, gl, issued, qtyMoved, stockMarks>>

StockNext ==
    \E s \in Movers :
        \/ \E kind \in MoveKinds, q \in Quantities : BeginMove(s, kind, q)
        \/ LookAgain(s) \/ PostMove(s) \/ AbandonMove(s)

StockSpec == StockInit /\ [][StockNext]_stockVars

----------------------------------------------------------------------------
LeftOver == SumFunction([i \in DOMAIN lots |-> lots[i].left])

(* The inventory account is what the open lots cost, to half a unit of the  *)
(* currency per unit of quantity moved (each posting rounds one unit cost), *)
(* where a lot leaves at its own cost and nothing was overtaken.            *)
ValueWithinRounding ==
    stockMarks = {} /\ method \notin {"Average", "Standard"} =>
        LET off == gl - ValueLeft IN 2 * Max2(off, -off) <= qtyMoved

(* The roll-up is the item ledger, and the lots together are the roll-up,   *)
(* however receipts, sales, adjustments and issues interleave, unless a     *)
(* document wrote back a roll-up or a lot that had changed since it looked  *)
(* (a lost update); lots also part from the roll-up where the code leaves   *)
(* them alone, in a credit memo and under Standard costing.  And no lot is  *)
(* drawn below zero and no more issued than approved unless something moved *)
(* between the plan and the posting.  And the account is worth the lots, to *)
(* the rounding of each posting.                                            *)
StockAgrees ==
    /\ ValueWithinRounding
    /\ "look" \notin stockMarks => sku = ledger
    /\ stockMarks \cap {"look", "return"} = {} /\ method # "Standard" => LeftOver = sku
    /\ "plan" \notin stockMarks =>
          issued <= QtyApproved /\ \A i \in DOMAIN lots : lots[i].left >= 0
=============================================================================
