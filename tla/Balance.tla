------------------------------ MODULE Balance ------------------------------
(***************************************************************************)
(* Balance, deposit credit and total liability (balance.rs, and            *)
(* compute_new_tl of lib.rs).  `in` is a slot input: in.req what was       *)
(* submitted, in.old the account the witness claims, and the block state   *)
(* it is checked against (see Slot).                                       *)
(***************************************************************************)
EXTENDS Field, TxFlags

is_user_add(t) == t \in {TX_DEPOSIT, TX_WIN, TX_BONUS, TX_REFERRAL}

is_user_sub(t) ==
    is_ihb_or_crash(t) \/ t \in {TX_BET, TX_WITHDRAWAL, TX_RISK_REJECT, TX_TRANSFER}

\* Mutant: the cap forgets the signed debits.
is_operator_loss(t) == t = TX_BET

\* Debits after which the deposit credit is capped at the new balance.
is_balance_loss(t) == is_ihb_or_crash(t) \/ t \in {TX_BET, TX_WITHDRAWAL, TX_TRANSFER}

add_full(in) ==
    IF is_user_add(in.req.tx_type) THEN in.req.amount
    ELSE IF is_ihb_or_crash(in.req.tx_type) THEN in.req.win_amount ELSE 0

sub_full(in) == IF is_user_sub(in.req.tx_type) THEN in.req.amount ELSE 0

new_balance(in) == in.old.balance + add_full(in) - sub_full(in)

\* Mutant: the credit is that of the last deposit.
credit_of_last_deposit(in) ==
    IF in.req.tx_type = TX_DEPOSIT THEN in.req.amount ELSE in.old.deposit_credit

credit_post_deposit(in) ==
    in.old.deposit_credit + (IF in.req.tx_type = TX_DEPOSIT THEN in.req.amount ELSE 0)

new_credit(in) ==
    IF is_balance_loss(in.req.tx_type) /\ new_balance(in) < credit_post_deposit(in)
    THEN new_balance(in) ELSE credit_post_deposit(in)

\* Add first, then subtract: a game may be paid for out of its own win.
build_balance_changes(in) ==
    Require(in.old.balance + add_full(in) <= U64_MAX, "TlOverflow") ??
    Require(new_balance(in) >= 0, "InsufficientBalance") ??
    Require(credit_post_deposit(in) <= U64_MAX, "TlOverflow")

\* Mutant: a revert is only checked for underflow.
revert_to_zero(in) == Require(new_balance(in) >= 0, "RiskRejectBelowCredit")

\* C4: the operator's revert stays above what the user deposited.
risk_reject_floor(in) ==
    Require(in.req.tx_type = TX_RISK_REJECT => new_balance(in) >= in.old.deposit_credit,
            "RiskRejectBelowCredit")

\* Mutant: the total misses what a game pays out.
new_tl_without_wins(in) ==
    in.old_total_liability - sub_full(in)
        + (IF is_user_add(in.req.tx_type) THEN in.req.amount ELSE 0)

new_tl(in) == in.old_total_liability + add_full(in) - sub_full(in)

\* Mutant: off by one, the total may not return to zero.
compute_positive_tl(in) ==
    Require(/\ in.old_total_liability + add_full(in) <= U64_MAX
            /\ new_tl(in) > 0, "TlOverflow")

compute_new_tl(in) ==
    Require(/\ in.old_total_liability + add_full(in) <= U64_MAX
            /\ new_tl(in) >= 0, "TlOverflow")
=============================================================================
