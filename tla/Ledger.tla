------------------------------- MODULE Ledger -------------------------------
(***************************************************************************)
(* What the rollup promises about money, without witnesses, roots, keys or *)
(* games: accounts with a balance, the part of it that is deposited credit *)
(* and the allowance left to game providers, and the total the operator    *)
(* owes.  Rollup implements it.                                            *)
(*                                                                         *)
(* A move is one of five kinds.  Only the owner's signature lets a balance *)
(* fall freely; a provider's debit is paid for out of the allowance, and   *)
(* the operator's revert stops at the deposited credit.                    *)
(***************************************************************************)
EXTENDS Integers

CONSTANTS
    Holders,    \* the accounts
    MaxAmount   \* largest balance and largest total

VARIABLES
    accounts,   \* [Holders -> [balance, credit, allowance]]
    total       \* what the operator owes

vars == <<accounts, total>>

Amount == 0 .. MaxAmount
Empty == [balance |-> 0, credit |-> 0, allowance |-> 0]
Smaller(a, b) == IF a <= b THEN a ELSE b

Init == accounts = [h \in Holders |-> Empty] /\ total = 0

\* Replace one account; the total moves with its balance and must fit.
Move(h, account) ==
    /\ account.balance \in Amount
    /\ total' = total + account.balance - accounts[h].balance
    /\ total' \in Amount
    /\ accounts' = [accounts EXCEPT ![h] = account]

\* Money from outside: credited (a deposit) or not (a win, a bonus).
Fund(h, amount, credited) ==
    Move(h, [balance |-> accounts[h].balance + amount,
             credit |-> accounts[h].credit + credited,
             allowance |-> accounts[h].allowance])

\* The owner withdraws, transfers or plays a round for any net result.
Spend(h, balance) ==
    Move(h, [balance |-> balance, credit |-> Smaller(accounts[h].credit, balance),
             allowance |-> accounts[h].allowance])

\* A provider's debit uses up the allowance.
ProviderDebit(h, amount) ==
    /\ amount <= accounts[h].allowance
    /\ Move(h, [balance |-> accounts[h].balance - amount,
                credit |-> Smaller(accounts[h].credit, accounts[h].balance - amount),
                allowance |-> accounts[h].allowance - amount])

\* The operator takes back what is not deposited credit.
Revert(h, amount) ==
    /\ accounts[h].balance - amount >= accounts[h].credit
    /\ Move(h, [accounts[h] EXCEPT !.balance = @ - amount])

\* The owner sets the allowance.
Grant(h, allowance) == Move(h, [accounts[h] EXCEPT !.allowance = allowance])

Next ==
    \E h \in Holders, amount \in Amount :
        \/ Fund(h, amount, 0)
        \/ Fund(h, amount, amount)
        \/ Spend(h, amount)
        \/ ProviderDebit(h, amount)
        \/ Revert(h, amount)
        \/ Grant(h, amount)

Spec == Init /\ [][Next]_vars

=============================================================================
