------------------------------- MODULE MCBudgets -------------------------------
(***************************************************************************)
(* One policy of the company over its runs.  In TopSpec it starts at the    *)
(* highest amount, so that an edit lowers or removes it.                    *)
(***************************************************************************)
EXTENDS Budgets

OneScope    == {1}
CompanyOnly == [p \in Policies |-> 1]
AllCompany  == [r \in Runs |-> {1}]
OneCent     == [p \in Policies |-> 1]
FromTop     == Init /\ \A p \in Policies : limit[p] = MaxLimit
TopSpec     == FromTop /\ [][Next]_vars /\ Fairness
================================================================================
