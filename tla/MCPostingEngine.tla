--------------------------- MODULE MCPostingEngine ---------------------------
(* Small instances of PostingEngine: one KES bank, one USD bank and an       *)
(* income account; a fee receipt, a receipt in dollars, a base-currency      *)
(* journal on the dollar bank and a line list that does not balance.         *)
EXTENDS PostingEngine, TLC

CONSTANTS s1, s2, s3

MCAccounts == {"cash", "usd", "fees", "closed"}
MCPostable == {"cash", "usd", "fees"}
MCDebit == {"cash", "usd", "closed"}
MCBanks == {"cash", "usd"}
MCBankCurrency == [b \in MCBanks |-> IF b = "usd" THEN "USD" ELSE "KES"]

Net(c, u, f, x) ==
    [a \in MCAccounts |->
        CASE a = "cash" -> c [] a = "usd" -> u [] a = "fees" -> f [] OTHER -> x]

Receipt    == [ccy |-> "KES", fcy |-> Net(3, 0, -3, 0), lcy |-> Net(3, 0, -3, 0)]
UsdReceipt == [ccy |-> "USD", fcy |-> Net(0, 1, -1, 0), lcy |-> Net(0, 2, -2, 0)]
UsdOnCash  == [ccy |-> "USD", fcy |-> Net(1, 0, -1, 0), lcy |-> Net(2, 0, -2, 0)]
KesOnUsd   == [ccy |-> "KES", fcy |-> Net(0, 1, -1, 0), lcy |-> Net(0, 1, -1, 0)]
Unbalanced == [ccy |-> "KES", fcy |-> Net(3, 0, -2, 0), lcy |-> Net(3, 0, -2, 0)]
OnInactive == [ccy |-> "KES", fcy |-> Net(3, 0, 0, -3), lcy |-> Net(3, 0, 0, -3)]

AllPostings == {Receipt, UsdReceipt, UsdOnCash, KesOnUsd, Unbalanced, OnInactive}

\* a shilling journal on both banks stands for the plain receipt and the journal on the
\* dollar bank
KesOnBoth  == [ccy |-> "KES", fcy |-> Net(3, 1, -4, 0), lcy |-> Net(3, 1, -4, 0)]
KeyPostings == {KesOnBoth, UsdReceipt, UsdOnCash, Unbalanced, OnInactive}

AllowAll == [s \in Sessions |-> Periods]
SessionSymmetry == Permutations(Sessions)
==============================================================================
