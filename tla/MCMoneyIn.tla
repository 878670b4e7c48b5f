------------------------------ MODULE MCMoneyIn ------------------------------
(* Money that comes in: the customers' ledger in which it settles invoices, *)
(* the life of the receipt that brings it there, and the M-Pesa payments    *)
(* that make receipts.  Each module has its own picture of the others, so a *)
(* behaviour is one of them while the others rest.                          *)
(*                                                                          *)
(* The customers of MCCustLedger; a receipt below, at and above the limit,  *)
(* its maker and a second officer; a paybill payment and a pushed one, two  *)
(* students; two requests at a receipt and at the payments.                 *)
EXTENDS MCCustLedger, Receipts, Mpesa

CONSTANTS q1, q2, ann, bob, c1, k1

Requests == {q1, q2}
Pupils == {ann, bob}
Symm == Permutations(Requests) \cup Permutations(Pupils)

VARIABLE moneyPart   \* which of them this behaviour is

moneyVars == <<moneyPart, vars, receiptVars, mpesaVars>>

MoneyInit ==
    /\ moneyPart \in {"ledger", "receipt", "mpesa"}
    /\ Init /\ ReceiptInit /\ MpesaInit
    /\ moneyPart # "ledger" => customer = CHOOSE c \in Customers : TRUE
    /\ moneyPart # "receipt" => header.amount = 0

LedgerStep == moneyPart = "ledger" /\ Next /\ UNCHANGED <<moneyPart, receiptVars, mpesaVars>>
ReceiptStep == moneyPart = "receipt" /\ ReceiptNext /\ UNCHANGED <<moneyPart, vars, mpesaVars>>
MpesaStep == moneyPart = "mpesa" /\ MpesaNext /\ UNCHANGED <<moneyPart, vars, receiptVars>>

MoneyNext == LedgerStep \/ ReceiptStep \/ MpesaStep

MoneySpec == MoneyInit /\ [][MoneyNext]_moneyVars
=============================================================================
