------------------------------ MODULE Registers ------------------------------
(* The documents and what they keep up to date beside the general ledger:   *)
(* the life of a document, stock, orders, the review of a requisition,      *)
(* payroll, the employee ledger, fixed assets, and the end of a year.  They *)
(* share no state (a journal is where they meet, and it is PostingEngine's),*)
(* so a behaviour is one of them while the others rest.                     *)
EXTENDS DocumentLife, Stock, Orders, Payroll, Imprest, FixedAsset, Review, YearEnd

VARIABLE part   \* which of them this behaviour is

registersVars == <<part, docVars, stockVars, orderVars, payVars, impVars, faVars,
                   reviewVars, yearVars>>

(* Those that rest start from one of their initial states.                  *)
RegistersInit ==
    /\ part \in {"documents", "stock", "orders", "payroll", "imprests", "assets", "review", "years"}
    /\ DocInit /\ StockInit /\ OrderInit /\ PayInit /\ ImpInit /\ FaInit
    /\ ReviewInit /\ YearInit
    /\ part # "documents" => row = CHOOSE r \in Rows : TRUE
    /\ part # "stock" =>
          /\ method = CHOOSE m \in Methods : TRUE
          /\ lots = CHOOSE o \in Openings : TRUE
    /\ part # "orders" => orders[1].type = "Order"
    /\ part # "payroll" => periods[1].name = CHOOSE n \in PeriodNames : TRUE
    /\ part # "imprests" =>
          paper = [d \in Papers |-> [kind |-> "claim", spent |-> CHOOSE a \in Spent : TRUE,
                                     toPayroll |-> FALSE, posted |-> FALSE,
                                     surrendered |-> FALSE, transferred |-> FALSE]]
    /\ part # "assets" => faMethod = CHOOSE m \in FaMethods : TRUE

DocStep ==
    /\ part = "documents" /\ DocNext
    /\ UNCHANGED <<part, stockVars, orderVars, payVars, impVars, faVars,
                   reviewVars, yearVars>>

StockStep ==
    /\ part = "stock" /\ StockNext
    /\ UNCHANGED <<part, docVars, orderVars, payVars, impVars, faVars,
                   reviewVars, yearVars>>

OrderStep ==
    /\ part = "orders" /\ OrderNext
    /\ UNCHANGED <<part, docVars, stockVars, payVars, impVars, faVars,
                   reviewVars, yearVars>>

PayStep ==
    /\ part = "payroll" /\ PayNext
    /\ UNCHANGED <<part, docVars, stockVars, orderVars, impVars, faVars,
                   reviewVars, yearVars>>

ImpStep ==
    /\ part = "imprests" /\ ImpNext
    /\ UNCHANGED <<part, docVars, stockVars, orderVars, payVars, faVars,
                   reviewVars, yearVars>>

FaStep ==
    /\ part = "assets" /\ FaNext
    /\ UNCHANGED <<part, docVars, stockVars, orderVars, payVars, impVars,
                   reviewVars, yearVars>>

ReviewStep ==
    /\ part = "review" /\ ReviewNext
    /\ UNCHANGED <<part, docVars, stockVars, orderVars, payVars, impVars, faVars, yearVars>>

YearStep ==
    /\ part = "years" /\ YearNext
    /\ UNCHANGED <<part, docVars, stockVars, orderVars, payVars, impVars, faVars, reviewVars>>

RegistersNext ==
    \/ DocStep \/ StockStep \/ OrderStep \/ ReviewStep \/ PayStep \/ ImpStep \/ FaStep
    \/ YearStep

RegistersSpec == RegistersInit /\ [][RegistersNext]_registersVars

----------------------------------------------------------------------------
(* What is bought and sold is billed once and moves once however an order is*)
(* taken apart, and a requisition's lines stand once on the orders they were*)
(* raised on (lib/purchaseDocuments.ts, lib/salesDocuments.ts,              *)
(* lib/requisitions.ts).                                                    *)
PurchasingSound == OrderedOnce /\ ReviewSound
=============================================================================
