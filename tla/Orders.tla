------------------------------- MODULE Orders -------------------------------
(* One quotation and the orders made of it, or one order: sent, released,   *)
(* shipped or received, invoiced, reopened, its lines rewritten.  The line  *)
(* has one quantity, posted in whole: the code never changes the quantities *)
(* to ship, receive and invoice from the whole of the line.  Sales and      *)
(* purchase orders are the same code but for the interim account, which     *)
(* only purchases have.  A request reads header and line without a lock and *)
(* writes later, by key; posting adds to the line's quantities.             *)
(*                                                                          *)
(* Not here: amounts, tax, the lots moved (Stock), invoices and credit      *)
(* memos without an order, posted once and deleted (DocumentLife).          *)
EXTENDS Naturals, Integers, Sequences, FiniteSets

CONSTANTS
    Clerks,     \* requests under way
    MaxOrders,  \* bound on the orders made of the quotation
    MaxPosts    \* bound on the postings

VARIABLES
    orders,     \* documents in the order they were made; gone: deleted
    orderReads, \* what each request has read
    moved,      \* postings that moved the goods
    billed,     \* postings that put the line on the account of the party
    interim,    \* Goods Received Not Invoiced
    posts,      \* postings so far, MaxPosts at most
    overtaken,  \* a request wrote over a document changed since its read
    shippedTwice    \* goods moved alone, then again with the invoice

orderVars == <<orders, orderReads, moved, billed, interim, posts, overtaken, shippedTwice>>

NewDoc(type) == [type |-> type, status |-> "Open", gone |-> FALSE, shipped |-> 0, invoiced |-> 0]

OrderInit ==
    /\ \E type \in {"Quote", "Order"} : orders = <<NewDoc(type)>>
    /\ orderReads = [c \in Clerks |-> <<>>]
    /\ moved = 0 /\ billed = 0 /\ interim = 0 /\ posts = 0
    /\ overtaken = FALSE /\ shippedTwice = FALSE

(* What the request is about: the operation, and for a posting what to post.*)
Requested ==
    {<<op>> : op \in {"makeOrder", "submit", "approve", "return", "reopen", "setLines", "delete"}}
        \cup {<<"post", what>> : what \in (SUBSET {"ship", "invoice"}) \ {{}}}

(* (first with a defect: a shipped order can be reopened)                   *)
OrderAcceptsShipped(op, d) ==
    CASE op = "makeOrder" -> d.type = "Quote"
      [] op = "submit" -> d.type = "Order" /\ d.status = "Open"
      [] op \in {"approve", "return"} -> d.status = "Pending"
      [] op \in {"reopen", "post"} -> d.status = "Released"
      [] OTHER -> d.status = "Open"

OrderAccepts(op, d) ==
    CASE op = "makeOrder" -> d.type = "Quote"
      [] op = "submit" -> d.type = "Order" /\ d.status = "Open"
      [] op \in {"approve", "return"} -> d.status = "Pending"
      [] op = "reopen" -> d.status = "Released" /\ d.shipped = 0
      [] op = "post" -> d.status = "Released"
      [] OTHER -> d.status = "Open"

AskOrder(c, n, what) ==
    /\ orderReads[c] = <<>>
    /\ ~orders[n].gone /\ OrderAccepts(what[1], orders[n])
    /\ orderReads' = [orderReads EXCEPT ![c] = <<n, what, orders[n]>>]
    /\ UNCHANGED <<orders, moved, billed, interim, posts, overtaken, shippedTwice>>

Nth(c) == orderReads[c][1]
What(c) == orderReads[c][2]
Was(c) == orderReads[c][3]
OrderDoing(c, op) == orderReads[c] # <<>> /\ What(c)[1] = op

FinishOrder(c) ==
    /\ orderReads' = [orderReads EXCEPT ![c] = <<>>]
    /\ overtaken' = (overtaken \/ orders[Nth(c)] # Was(c))

(* A quotation becomes an open order and is deleted.                        *)
MakeOrder(c) ==
    /\ OrderDoing(c, "makeOrder") /\ Len(orders) <= MaxOrders
    /\ orders' = Append([orders EXCEPT ![Nth(c)].gone = TRUE], NewDoc("Order"))
    /\ FinishOrder(c)
    /\ UNCHANGED <<moved, billed, interim, posts, shippedTwice>>

(* The updates by key; those of a deleted document reach no row, and lines  *)
(* written anew start with nothing shipped or invoiced.                     *)
UpdateOrder(c) ==
    /\ orderReads[c] # <<>> /\ What(c)[1] \notin {"makeOrder", "post"}
    /\ orders' = [orders EXCEPT ![Nth(c)] =
            CASE What(c)[1] = "submit" -> [@ EXCEPT !.status = "Pending"]
              [] What(c)[1] = "approve" -> [@ EXCEPT !.status = "Released"]
              [] What(c)[1] = "setLines" -> [@ EXCEPT !.shipped = 0, !.invoiced = 0]
              [] What(c)[1] = "delete" -> [@ EXCEPT !.gone = TRUE]
              [] OTHER -> [@ EXCEPT !.status = "Open"]]
    /\ FinishOrder(c)
    /\ UNCHANGED <<moved, billed, interim, posts, shippedTwice>>

(* How much of a line a posting ships and invoices, and the one quantity    *)
(* that it posts.                                                           *)
LeftToShip(line) == IF line.shipped > 0 THEN 0 ELSE 1
ShipNow(line, what) == IF "ship" \in what THEN LeftToShip(line) ELSE 0

InvoiceNow(line, what) ==
    IF "invoice" \notin what THEN 0
    ELSE LET room == line.shipped + ShipNow(line, what) - line.invoiced
         IN  IF room > 1 THEN 1 ELSE room

PostQty(line, what) == IF "invoice" \in what THEN InvoiceNow(line, what) ELSE ShipNow(line, what)

(* Goods move, and the interim account takes them, whenever the posting     *)
(* ships; the invoice clears the interim account and bills the party; both  *)
(* in the quantity posted.  An order shipped and invoiced is deleted.       *)
PostOrder(c) ==
    /\ OrderDoing(c, "post") /\ posts < MaxPosts
    /\ LET line == Was(c)
           what == What(c)[2]
           q == PostQty(line, what)
           ships == IF "ship" \in what THEN q ELSE 0
           bills == IF "invoice" \in what THEN q ELSE 0
           now == [orders[Nth(c)] EXCEPT !.shipped = @ + ships, !.invoiced = @ + bills]
       IN  /\ q > 0
           /\ orders' = [orders EXCEPT ![Nth(c)] =
                  [now EXCEPT !.gone = @ \/ (now.shipped >= 1 /\ now.invoiced >= 1)]]
           /\ moved' = moved + ships
           /\ billed' = billed + bills
           /\ interim' = interim - ships + bills
           /\ shippedTwice' = (shippedTwice \/ (ships > 0 /\ line.shipped > 0))
    /\ posts' = posts + 1
    /\ FinishOrder(c)

(* The posting finds nothing to post, or is refused.                        *)
RefusePost(c) ==
    /\ OrderDoing(c, "post")
    /\ orderReads' = [orderReads EXCEPT ![c] = <<>>]
    /\ UNCHANGED <<orders, moved, billed, interim, posts, overtaken, shippedTwice>>

OrderNext ==
    \E c \in Clerks :
        \/ \E n \in DOMAIN orders, what \in Requested : AskOrder(c, n, what)
        \/ MakeOrder(c) \/ UpdateOrder(c) \/ PostOrder(c) \/ RefusePost(c)

OrderSpec == OrderInit /\ [][OrderNext]_orderVars

----------------------------------------------------------------------------
(* Whatever the sequence of quotation, release, partial posting, reopening  *)
(* and new lines: the party is billed once and the goods move once, and an  *)
(* order only disappears when both are done or it was never posted, unless  *)
(* requests overtook each other; except that goods shipped alone and then   *)
(* posted with ship and invoice together move a second time.                *)
OrderedOnce ==
    ~overtaken =>
        /\ billed <= 1
        /\ moved <= 1 \/ shippedTwice
        /\ \A n \in DOMAIN orders :
              orders[n].gone /\ orders[n].type = "Order" /\ posts > 0 => moved >= 1 /\ billed = 1

(* The comment on the postings of a purchase order: the interim account     *)
(* "nets to exactly zero once both are posted".                             *)
InterimClears ==
    ~overtaken =>
        \A n \in DOMAIN orders : orders[n].gone /\ orders[n].type = "Order" /\ posts > 0 => interim = 0
=============================================================================
