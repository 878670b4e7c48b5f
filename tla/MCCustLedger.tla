---------------------------- MODULE MCCustLedger ----------------------------
(* Invoices with and without a payment discount, payments in and out of     *)
(* time, a credit memo, and the same in a currency whose rate has moved.    *)
EXTENDS CustLedger

Doc(amount, factor, pays, due, until, disc) ==
    [amount |-> amount, factor |-> factor, pays |-> pays, due |-> due, until |-> until, disc |-> disc]

Invoice     == Doc(5, 1, 1, 4, 0, 0)
LateInvoice == Doc(3, 1, 2, 5, 0, 0)
Discounted  == Doc(4, 1, 1, 3, 2, 1)
Payment     == Doc(-5, 1, 2, 0, 0, 0)
SmallPay    == Doc(-2, 1, 2, 0, 0, 0)
LatePay     == Doc(-4, 1, 3, 0, 0, 0)
UsdInvoice  == Doc(4, 2, 1, 4, 0, 0)
UsdPay      == Doc(-3, 3, 2, 0, 0, 0)
UsdSamePay  == Doc(-3, 2, 2, 0, 0, 0)

KesDocs == {Invoice, LateInvoice, Discounted, Payment, SmallPay, LatePay}
PlainDocs == {Invoice, LateInvoice, Payment, SmallPay}
UsdDocs == {UsdInvoice, UsdPay, UsdSamePay}

\* one clerk at a time, up to four entries; the dollar customer applies payments only
KesCustomer ==
    [documents |-> KesDocs, appliedFrom |-> {-1, 1}, clerks |-> {"s1"}, refusals |-> FALSE,
     maxEntries |-> 4, maxReversals |-> 0]
UsdCustomer == [KesCustomer EXCEPT !.documents = UsdDocs, !.appliedFrom = {-1}]

\* two clerks whose applications cross: from the payments, or from the invoices
CrossingPayments ==
    [KesCustomer EXCEPT !.documents = {Discounted, Payment, SmallPay}, !.appliedFrom = {-1},
                        !.clerks = {"s1", "s2"}, !.maxEntries = 3]
CrossingInvoices == [CrossingPayments EXCEPT !.appliedFrom = {1}]

\* applications that break off, and an accountant who reverses
ReversedCustomer ==
    [KesCustomer EXCEPT !.documents = {Discounted, Payment, SmallPay},
                        !.refusals = TRUE, !.maxEntries = 3, !.maxReversals = 1]
ReversedUsd == [UsdCustomer EXCEPT !.refusals = TRUE, !.maxEntries = 3, !.maxReversals = 2]

AllCustomers ==
    {KesCustomer, UsdCustomer, CrossingPayments, CrossingInvoices, ReversedCustomer, ReversedUsd}

UnapplyOnly == {[KesCustomer EXCEPT !.documents = PlainDocs, !.maxEntries = 2]}

\* a dollar customer whose applications also start from the invoice
UsdOnly == {[UsdCustomer EXCEPT !.appliedFrom = {-1, 1}, !.maxEntries = 2]}

\* a dollar customer with a payment discount
UsdDiscounts ==
    {[UsdCustomer EXCEPT !.documents = {Doc(4, 2, 1, 4, 2, 1), UsdSamePay}, !.maxEntries = 2]}
=============================================================================
