# A verification of the slot validator

`src/` is `rolly-tx-validator`: a pure Rust function, `validate_slot(SlotInput)
-> Result<SlotEffects, SlotRejection>`, that decides whether one rollup slot (a
deposit, a bet, a win, a game round, a withdrawal, ...) may be applied to one
account, and what the account, the tree root and the operator's total liability
become.  It is the native mirror of a zero-knowledge circuit: what it accepts is
later proved, so a slot it accepts wrongly either breaks the proof of a whole
block or moves money.  The crate keeps no state and starts no thread.  The state
it speaks about lives in the engine that calls it, which builds a witness for a
slot, asks the validator, and on `Ok` stores the effects.

The questions a test of one call can hardly reach are therefore about *histories*
of calls: what invariants do accounts keep over every sequence of accepted slots,
and what happens when the witnesses that concurrent callers build are stale.
This project models the validator check by check, composes it with the state it
drives, model-checks the composition on small instances with TLC, and proves the
main properties for every size with TLAPS.

## 1. The system

| Component | State | Operations | Properties that make it correct |
|---|---|---|---|
| **Slot validator** `lib.rs` | none; reads `SlotInput`, whose `current_root` / `current_tl` are the block's | `validate_slot`: type, canonicity, range, root and total checks, then `compute_effects` | an accepted slot is authentic against the present state, and its effects are complete |
| **Balance** `balance.rs`, `compute_new_tl` | balance, deposit credit, total liability | add then subtract, in two words; credit raised by deposits, capped by losses; revert floor | credit never above balance; the total is the sum of the balances; no wrap |
| **Allowance** `allowance.rs` | provider allowance of a leaf | set by the owner, spent by a provider's bet | bets between two settings never take more than was set |
| **Address and key** `address.rs` | `pk_hash`, `address_hash` | first deposit or registration stamps the address; registration installs or rotates the key; redeposit and recipient checks | the payout address never changes |
| **Auth and nonce lanes** `auth.rs`, `advance_nonce` | the nonce: account lane (23 bits) over game lane (40 bits) | a signed slot needs a key and bumps its lane by one; a full lane rejects | no signature is good twice; one lane never disturbs the other |
| **Flags** `flags.rs` | none | one-hot decode of 14 transaction types | - |
| **Fairness** `fairness.rs`, `blackjack.rs` | the seed commitment of a leaf | seed chain, crash reveal, user seed, prediction and payout checks | the operator commits before the bet and reveals what it committed to; one signed bet, one win |
| **Hashes** `hash.rs` | none | Poseidon2 over fixed layouts | distinct inputs, distinct commitments; never called on a limb it panics on |
| **Merkle path** `merkle.rs` | none | leaf to root along 28 siblings | a proof changes exactly one leaf, the present one |
| **Field, packing** `field.rs` | none | canonicity, limb splitting, packing a balance with half an allowance | packing is injective within its bounds |
| engine, tree store, circuit, Schnorr and EIP-712 chains, game crate | outside the repository | | |

How they interact: `validate_slot` calls everything else synchronously, each check
may return early with one rejection, and nothing is written before the last check.
The engine reads the account, the Merkle proof and the total from its stores,
calls the validator, and writes the effects back; the signatures of the slot are
verified in a different circuit, with the nonce lanes and the key hash as the only
link.  Leaf 0 is special: it is the house account of the crash game.

What is hard here, and listed with its lines under `hazards` in `PROJECT.json`:

* **Stale witnesses.** The three things a witness is read from can belong to
  different moments; checks C16 (root) and C18 (total) have to catch every mixture.
* **Long legal sequences.** Credit, allowance, address, key, seed and lanes are
  each changed by several transaction types and checked by others.  Several safety
  arguments in the comments hold only over the whole history of an account
  (`auth.rs`: "an account without a registered Schnorr key can never hold a
  non-zero allowance").
* **Two words that must agree.** The balance and the total go through two separate
  add-then-subtract chains with separate overflow checks.
* **Numeric edges.** Lane ceilings, the allowance width, amounts at the modulus.
* **Order.** Deposit before or after registration; a rotation that brings a fresh
  seed; commitments of the operator, and a key for the house account, among them.
* **Panics.** Hashing, packing, the keno table and the blackjack replay panic on what they
  do not know; each relies on a range check that some earlier call has made.
* **Two things wrong at once**, where one error may hide or cancel another.
* **Queues ahead of validation.** `advance_nonce` exists so that the engine can build a
  slot on top of one that is not validated yet, and may still be rejected.

## 2. The modules

```
 Field --- Packing        TxFlags      words, verdicts, packed words; transaction types
              |             |
             Hash       NonceLanes     commitments and the tree; two-lane nonce
         /    |    \       |
   Balance  Identity  Fairness         one module per group of source files
         \    |    /
             Slot                      validate_slot, compute_effects
              |
           Requests                    what can be submitted, by type
         /    |    \        Sums       sum of a function
  Pipeline  Candidates  Rollup         one call at a time; the tests' inputs;
                          |            accounts, root, total: one action per type
     Ledger, SeedChain, WitnessEngine, SignedSlots, NonceMirror
  (what is promised; what was committed to and revealed; who calls the
   validator, when, and with what)

 MerklePath --- LeafMemory             root_from_leaf by levels; an array of leaves
```

Abstract specifications, and what is shown to implement them:

| Abstract | Promises | Implemented by | Property |
|---|---|---|---|
| `Ledger` | money: fund, spend, provider debit, revert, grant | `Rollup` | `ImplementsLedger` |
| `Rollup` | each slot lands on the present state with its full effects | `WitnessEngine` | `ImplementsRollup` |
| `LeafMemory` | an array of leaves with compare-and-swap | `MerklePath` | `ImplementsLeafMemory` |

`SeedChain` is `Rollup` with a history variable: for each account, what was revealed and what
was committed to, in order.  It adds to the record at the three kinds of slot that are meant
to give an account a commitment (the first key of an account committed to nothing, an
in-house bet, the operator's commitment for leaf 0) and at no other; that the leaf
agrees is a property.

What each of the remaining modules adds to `Rollup` is the calling side that the repository's
comments and public functions speak of, and only that much of it:

* `WitnessEngine`: workers who read account, proof and total at different times, lose
  witnesses and submit them twice.
* `SignedSlots`: the messages owners sign, and an operator who holds them.
* `NonceMirror`: a batch queued ahead of validation, its nonces taken from
  `advance_nonce`; a slot of it may be rejected, those behind it are still tried.

`Pipeline` and `Candidates` are the validator from the inside.  `Pipeline` runs the calls of
`validate_slot`, `compute_effects` and `check_fairness` one per step, on an input of which
nothing is known (it is deserialized from untrusted JSON); a call is *defined* on an input or
it panics.  `Candidates` is the set of inputs of the repository's tests: the builders
(`registered_user`, `consistent_ihb`, `consistent_crash`, ...), and under the tests' names
the ways they spoil an input, each with the rejection it deserves.

Proofs are in modules of their own: `SumProofs`, `SlotProofs` (with the packing),
`RollupProofs` (with the refinement of `Ledger`), `EngineProofs` (with the seed chain),
`SignedProofs`, `PipelineProofs`, `NonceMirrorProofs`, `MerkleProofs`.

### How the model corresponds to the code

* **`validate_slot(in)`** is an operator: `Ok` or the name of the rejection.  The
  checks are operators named after the code's functions and are chained with `??`,
  which is Rust's `?`: the first failure is the result.  The order is the code's.
  The effects (`new_balance`, `new_credit`, `new_allowance`, `new_pk_hash`,
  `new_address_hash`, `new_nonce`, `new_seed_hash`, `new_root`, `new_tl`) are
  operators of `in`; a check on a computed value (an underflow, say) is a condition
  on that operator, so `new_balance` is an integer that may be negative and
  `build_balance_changes` rejects it, as `checked_sub` does.
* **`SlotInput`** is the record `in`: `in.req` is what is submitted, `in.old` the
  account the witness claims the leaf to hold, and the siblings, totals and root as
  in the code.
* **Flags.** A disjunction of one-hot flags is a set of transaction types.
* **Words** are integers with a parameter for the largest value, `U64_MAX`,
  `GOLDILOCKS_P`, `PROVIDER_ALLOWANCE_MAX`, `GAME_LANE_MAX`, `ACCOUNT_LANE_MAX`.
  The runs take small ones, so that every limit is met; the theorems hold for all,
  in particular the code's, in the order `WordAssumption` and `LaneAssumption` state.
* **Groups of limbs** the code only compares, hashes or tests (seeds, hashes) are
  opaque values.  `Zero` is the group of zero limbs, `NonCanonical` a group with a
  limb not below the modulus.
* **Hashes are symbolic**: the hash of a tuple of inputs is that tuple, as a record
  that names them.  Truncation is kept where the code truncates: key and address
  hashes are `[lo, hi]` and the leaf holds only `lo`.
* **The tree** is a function from users to leaves.  A proof fixes every leaf but
  one; `root_from_leaf` replaces that one.  `MerklePath` models it level by level, and
  `MerkleProofs` justifies this: `RootIsItsLeaves` (a root commits to every leaf),
  `ProofIsOfItsTree` (a proof that verifies fixes all leaves but its own),
  `LiftReplacesOneLeaf`.
* **The rollup** (`Rollup`) has three variables: `leaves`, `root`, `tl`.  An action
  is one transaction type over every request the constants allow; it builds the
  witness from the present state, requires `validate_slot(in) = Ok` and stores all
  effects.  A rejected slot changes nothing and is not a step.
* **Requests** are `SlotInput::default()` with the fields the type reads filled in.
  Fields a type does not read keep their default, except where a check reads them
  (a withdrawal names any signed address, a crash round is settled with or without
  the known commitment, a registration may carry a zero key or a non-canonical
  commitment).
* **Signatures** are not in the repository.  In `Rollup` a signed slot may be
  submitted by anybody: the properties there are about what the validator does with
  it, and "unsigned" means "the nonce stands still".  `SignedSlots` adds the owner.  A
  message holds what a slot must not change (type, amount, payee, new key, user seed),
  the key and the value of the lane; `Authorised` is what the Schnorr and EIP-712
  circuits check of it against the leaf, as `auth.rs` and `SlotEffects` describe them.
  The operator keeps every message and may complete and submit each at any time, any
  number of times.  That a message names its account is assumed.
* **Games** are an uninterpreted operator `GameCore` in the proofs.  The rollup's runs play
  a coin flip and a crash game, `Pipeline.cfg` all seven, with a payout that depends on
  every argument the code passes.  `payout_args` keeps the narrowing casts.
* **Packing** is modelled with its own parameters (`LIMB`, `HALF`): a balance leaf holds the
  two packed words, not the balance, so every property about the root is also one about
  the packing.
* **Panics** are in `Pipeline` only: `Defined(call, in)` says when a call returns, from the
  documented panics of `poseidon2` and `pack_balance_fields` and from what the comments of
  `fairness.rs` and `blackjack.rs` say of the game crate.

## 3. What is checked

No run disables the deadlock check.  Two accounts are the smallest number at which one
account's slot can disturb another.

| Run | Question | Bounds |
|---|---|---|
| `rollup_money` (21 000 states) | Over every sequence of money-moving slots, do credit, allowance, balances and total stay consistent, is the leaf readable, is the deposit out of the others' reach, and can the owner always withdraw and revoke? | words 0..6, allowance 0..2, account lane 0..2, game lane 0..1, one key, address and seed, amounts 1..3, wins 0, 2, 4 |
| `rollup_identity` (18 477) | In every order of deposits, registrations, rotations, commitments and rounds, are keys, addresses and lanes consistent? | words 0..6, account lane 0..2, game lane 0..1, two keys, addresses and seeds, both games, amounts 0 and 3 |
| `seed_chain` (15 620) | Does a leaf hold the commitment last given to it, and does every bet reveal what its account was committed to? | every type, two seeds, one key and address, both games, game lane 0..3, account lane 0..2, three commitments of the operator; every amount 0 |
| `witness_engine` (61 056) | Is a witness that mixes reads of different states ever accepted as something the rollup would not do; is one ever rejected for another reason than being stale? | two workers, three requests on two accounts, words 0..2 |
| `signed_slots` (88 836) | Can an operator who delays, repeats, reorders and completes signed messages settle one twice, or as something else, or act without its owner's consent? | one player (account 1), four messages, two keys, seeds and addresses, account lane 0..3, game lane 0..1 |
| `nonce_mirror` (73 809) | Does the engine's nonce, advanced ahead of validation, stay that of the leaf, and what happens behind a rejection? | one player, batches of three, seven types, game lane 0..1, account lane 0..3 |
| `merkle_path` (61 568) | Does a path put together from different trees ever verify although it is not the present one? | depth 3, two leaf values, two workers (symmetric) |
| `pipeline` (33 287) | Does any input reach a panic; does an error hide or cancel another; is a signed bet settled in two ways? | every input of the tests with up to two things wrong; words 0..15, modulus 12, all seven games |
| `pipeline_params`, `pipeline_crash` | the two disagreements below | the instance of `pipeline` |

Why the bounds are enough to be interesting: words of 0..6 with amounts up to 3 let every
add overflow and every subtract underflow, and the total be full while a balance is not.
The account lane has room for a registration, a rotation or a withdrawal, and then meets
its ceiling; the game lane fills while the account lane still has room, which is where a
carry would show.  Credit above, at and below the balance after a debit all occur.  In
`rollup_identity` amounts matter only as zero or not.  Amounts at or above the modulus are in
`pipeline` only: such a slot is rejected before anything else is computed.

In the engine's run a win that is reverted takes the
tree back to a state an old witness was read in, and the total back to an old value
while the tree has changed, which are the two cases in which one of C16 and C18
passes and the other must catch the mixture.  In `signed_slots` four messages are a
registration, two that compete for one nonce and a third in between; the requests hold
every completion the other way round (the other address, the other seed, the user seed
of the other side of the coin) and a registration without a key that brings a fresh
seed.

`nonce_mirror` has the rejections in all positions: every signed slot before the
registration, a debit of an empty account, a slot at the ceiling of its lane; a batch of
three is the least at which a slot stands between two others of its account.  In `seed_chain`
no money moves, because no check or assignment of a seed reads an amount; three game
nonces and two account nonces leave room for a registration, a rotation that brings
another commitment and three bets, in every order, and each of two seeds can be committed to
again after it was revealed.  The house account can be committed to before and after it has
a key.  Depth 3 is the least at which
a path has a level that is neither first nor last, so that the order of the bits and a mixed
path are both visible.  In `pipeline` one thing wrong is a test of the repository; two are
the pairs nobody wrote, over every type of slot the first applies to.

**Fairness.**  None is assumed and no liveness is claimed.  The validator is a synchronous
function without locks or loops that wait; who calls it, how often, and what happens after a
rejection is decided outside the repository, so there is nothing in the code that a fairness
condition could be read from.  What the code does owe to progress is a safety property: no
history may bring it into a state in which a correct slot is refused (`ExitIsOpen`,
`FreshIsAccepted`, `WaitingSurvivesBets`).

The properties:

* `TypeOK`: every leaf holds an account of the code's widths, the total fits.
* `RootCommitsLeaves`: the root commits to exactly the stored accounts.
* `CreditIsCovered`: deposited credit never exceeds the balance.
* `LiabilityIsSum`: the total is the sum of the balances.
* `ExitIsOpen`: in every reachable state, a correct withdrawal of any canonical part
  of a registered account's balance passes every check until the account lane is used
  up, and so does any change of the allowance, zero included, until the game lane is.  It
  fails if any other state (total, credit, root, address, nonce) could block either.
* `UnsignedDebitsAreCapped`: without a signature a balance falls only by what the
  allowance pays for, or above the deposited credit.
* `DepositIsOutOfReach`: credit less allowance never shrinks without a signature, so what
  any number of bets, wins, reverts and deposits can take *adds up* to the allowance.
* `ImplementsLedger`: every slot is a fund, spend, provider debit, revert or grant
  of the abstract ledger, or leaves money alone.
* `KeylessIsInert`: no key, no allowance and no used nonce (`auth.rs`).
* `RegisteredIsComplete`: a key implies a seed commitment and an address, whichever
  of deposit and registration came first.
* `AddressIsImmutable`: a stamped address is never replaced.
* `CommitmentIsHeld`: a leaf holds the commitment its account was last given until the bet
  that reveals it, through rotations that bring another one, crash settlements and all
  other slots; nor does a key for the house account replace the operator's commitment.
* `RevealsWhatWasCommitted`: every bet ever settled revealed a seed whose hash is what its
  account had been committed to in the round before, or at its registration (C9).
* `LanesAdvanceByOne`: a slot bumps at most one lane, by one, never with a carry; a
  new key uses up an account nonce, a larger allowance a game nonce.
* `NoReplay`: a message settles at most once, and of all messages for one value of a
  lane (an allowance and its revocation) at most one.
* `SettledAsSigned`: a settled bet revealed the seed that was committed when its owner
  signed it and played the parameters he saw, whatever landed in between; a settled
  withdrawal paid the address it names.
* `WaitingSurvivesBets`: no slot on the game lane and no unsigned slot stales a waiting
  message on the account lane (the claim of `lib.rs` on the two lanes).
* `OwnersConsent`: unless a message of its owner goes into the slot, an account keeps its
  key and its nonce, its allowance does not grow and its deposit stays out of reach.
* `ImplementsRollup`: the engine with stale reads, lost and repeated witnesses
  implements the rollup.
* `FreshIsAccepted`: a request of the operator that the rules of the ledger leave room for
  (`IsDue`) is accepted on every witness that is not stale.  It relates the checks to the
  whole history: the intermediate sum of the total may not overflow although the balance's
  fits, the credit may not stand in the way, and the root and the lanes may not have drifted
  into a state some check refuses.
* `LeavesUnpack`: balance and allowance are read back from the two packed words of
  every reachable leaf.
* `MirrorIsExact`: as long as no bump of an account was rejected, what `advance_nonce` makes
  of the types of the queued slots is what `validate_slot` stores, on both lanes.
* `RejectedIsQuarantined`: behind such a rejection no slot of that account is accepted until
  the leaf is read again, not even an unsigned one: the nonce is in the leaf.
* `VerifiedPathIsCurrent`, `ImplementsLeafMemory`: a path that verifies is, leaf and every
  sibling, that of the present tree; so the one value the validator keeps behaves as an
  array of leaves with compare-and-swap.
* `NoCallPanics`: no input drives the validator into a call that panics.
* `RejectedForAFlaw`: an input with nothing wrong is accepted, any other is rejected for one
  of the things that are wrong with it.
* `OneWinPerSignedBet`: for a signed user seed and a committed server seed there is one
  win, whatever the operator completes the slot with.

Each property has a mutant in `PROJECT.json`: a plausible slip in one of the modelled
functions (kept beside the definition it replaces, marked *Mutant*) under which the
same run finds the property violated.

### Where a comment and the code disagree

Both are runs that find a violation, and neither moves money by itself.

* `pipeline_params`: `dispatch_payout` is documented to return "`PayoutMismatch` on invalid
  game params".  The coin's prediction is narrowed to a `u8` before it is compared with 1, so
  256, hashed and signed as 256, is accepted and played as 0 (`InvalidParamsAreMismatch`).
  The player signed that number, and `OneWinPerSignedBet` still holds.
* `pipeline_crash`: the second half of `dispatch_payout` is commented "in_house_bet: dispatch
  by game_id".  It is reached by `crash_settle` too: nothing compares the type of the slot
  with its game, and a crash settlement with another game's id is paid by that game on the
  bare server seed (`CrashSettlesCrash`).

## 4. What is proved

For every value of the constants that satisfies the named assumptions, with TLAPS:

| Theorem | States |
|---|---|
| `RollupProofs!TypeCorrect`, `RootCorrect`, `CreditCorrect`, `LiabilityCorrect`, `KeylessCorrect`, `RegisteredCorrect`, `ExitCorrect` | the invariants of the two rollup runs |
| `RollupProofs!AddressCorrect`, `UnsignedDebitsCorrect`, `LanesCorrect` | the action properties |
| `RollupProofs!DepositCorrect`, `DepositFloor` | what is out of reach never shrinks; so, over any history, an owner who signs nothing never falls below what was once out of reach |
| `RollupProofs!RollupImplementsLedger` | `Spec => Money!Spec` |
| `RollupProofs!StreamSafe`, `StreamExit`, `StreamImplementsLedger` | any stream of accepted sound slots (`SlotStream`), whoever builds them, keeps the inductive invariant, leaves owners a way out and is a ledger |
| `RollupProofs!RollupIsStream`, `SignedProofs!SignedIsStream`, `NonceMirrorProofs!MirrorIsStream` | the rollup, the signed messages and the queued batches are such streams |
| `RollupProofs!UnpackCorrect` | every reachable leaf can be unpacked |
| `SlotProofs!UnpackOfPack`, `PackedIsCanonical`, `LegacyLeaf` | packing loses nothing, stays below the modulus, and leaves a leaf without an allowance as it was, for every width |
| `EngineProofs!EngineImplementsRollup`, `EngineLiabilityCorrect` | the engine implements the rollup; so it inherits its invariants |
| `EngineProofs!FreshCorrect` | being stale is the only reason a due request is refused, for any pool, workers and users |
| `MerkleProofs!VerifiedPathCorrect`, `MerkleImplementsMemory` | the properties of `merkle_path`, for a tree of any depth (28 included), any leaf values and workers |
| `MerkleProofs!RootIsItsLeaves`, `ProofIsOfItsTree`, `LiftReplacesOneLeaf` | what `Hash` takes for granted when it models a root by its leaves |
| `SignedProofs!NoReplayCorrect`, `SettledCorrect`, `WaitingCorrect`, `ConsentCorrect` | the properties of signed slots, for any number of messages and accounts |
| `SignedProofs!SignedExit`, `NonceMirrorProofs!MirrorLiability` | an operator who holds messages cannot bring an account into a state its owner cannot leave; the total stays the sum under queued batches |
| `PipelineProofs!NoCallPanicsCorrect` | on every input, tested or not, no panic |
| `PipelineProofs!OneWinCorrect` | one win per signed bet, under the two hypotheses below |
| `PipelineProofs!CorruptionIsRejected` | an input whose state was corrupted is rejected for that, whatever its effects |
| `PipelineProofs!SpoilingIsRejected`, `SwapIsRejected` | an accepted slot, one effect of it spoiled in one of nineteen ways or completed with another secret or game, is rejected by the very check meant for it |
| `PipelineProofs!FlawsCorrect` | `RejectedForAFlaw`, for inputs made from any accepted ones by one spoiled effect, one corruption of the state, or both |
| `NonceMirrorProofs!MirrorCorrect`, `QuarantineCorrect` | the mirror, for any batch length and number of accounts |
| `EngineProofs!HeldCorrect`, `RevealsCorrect` | the properties of `seed_chain`, for any number of users and seeds |
| `EngineProofs!ChainImplementsRollup` | the history is only a record: what is proved of the rollup holds beside it |
| `SignedProofs!SignedImplementsLedger`, `NonceMirrorProofs!MirrorImplementsLedger` | delayed, repeated and rejected slots move money only as the ledger allows |
| `SumProofs!SumIsPartialSum` | the recursive sum is the last of its partial sums |

**Assumptions.**  `WordAssumption` (the allowance bound is below the modulus, the
modulus fits a word), `LaneAssumption` (two full lanes pack below the modulus),
`TreeAssumption` (at least one leaf), `DepthAssumption` (at least one level),
`DefaultIsAValue` (an unused leaf is a leaf), `SeedHashAssumption` and
`IdentityHashAssumption` (commitments are injective and never zero, for keys and
addresses already on the limbs a leaf keeps; this is where collision resistance
enters), `GameAssumption`, `RequestAssumption` (amounts are words),
`PoolAssumption` (the engine's requests are requests of the rollup), `PackingAssumption` (two
limbs hold a word, two halves an allowance, a packed word is below the modulus),
`BatchAssumption` (a queued request is one the types of `SlotInput` allow),
`InputAssumption` (a nonce is a number, an
address has 20 bytes: what deserialization itself ensures).  Nothing is assumed of `GameCore`:
the theorems hold whatever the games pay.  The one exception is `OneWinCorrect`, whose
hypotheses are part of its statement: `RevealsSeed`, the bets revealed are preimages of the
commitments among the seeds considered (what collision resistance gives), and
`StakeFixesWin`, in blackjack two base bets that come to the same total on the same shoe
and actions win the same (a property of the game crate; the `GameCore` of `MCPipeline` has
it).  `SpoilingIsRejected`, `SwapIsRejected` and
`FlawsCorrect` state theirs too: `Telling`, the value put in differs from the one it replaces
(a bet of more than one unit, a credit above zero, another seed); `ReachesEffects`, the
spoiled slot, committed again, still passes the checks of the state; and for the corruptions
`Corruptible`, it has a root and a balance that can be changed.  Evaluated with TLC on the
instance of `pipeline`, all 22 well-formed inputs of `Candidates`, their 118 plain spoilings
(15 different rejections) and their 14 swaps satisfy what is asked of them.  TLC
evaluates each assumption in the runs that extend its module.

The widths of the runs are small; that the widths of the code satisfy the same assumptions
is a lemma, `SlotProofs!CodeWordsFit`: halves of 31 bits, limbs of 32, words of 64, an
allowance of 2^62 - 1, the prime 2^64 - 2^32 + 1, and two lanes of 23 and 40 bits that come to
2^63.

**The argument.**  Every step of `Rollup` is `Submit(req)` for a request of one of
the types.  `SlotProofs` takes the verdict apart once: an accepted slot has passed
each check (`AcceptedChecks`), and from the check of each group follows what the new
account looks like (its balance and credit, nonce, allowance, identity).  Those
lemmas are about single accounts and hold without an induction.  `RollupProofs` adds
the induction.  The inductive invariant is the conjunction of `TypeOK`,
`RootCommitsLeaves` and, of each account, that its credit is covered, that without a key
it is inert, and that with one it is complete.  The parts need each other: the
withdrawal of `ExitIsOpen` needs the root to authenticate, the total to cover the
balance (`LiabilityIsSum`) and the key to come with an address; `KeylessIsInert`
needs the type invariant to know that a zero nonce has zero lanes.  The action
properties follow from the invariant in the state before the step.

Of who calls the validator, and with what in mind, the induction uses only that each slot is
accepted on the present state with a sound request.  That is `SlotStream`.  Whatever calls
the validator need only be shown to be a stream to inherit the invariant, the way out and
the ledger; a slot rejected, repeated, delayed or built ahead is a stutter of the stream.

`DepositFloor` speaks of whole histories: if k of a deposit is out of reach at one moment, the
balance stays at or above k for as long as the nonce stands still.  The bound of one step
(`DepositIsOutOfReach`) adds up over the steps, since each bet lowers the credit by no more
than the allowance it uses up, and `CreditIsCovered` turns the credit into balance.  The floor
is stated for one value of the nonce; as nonces never fall, a nonce that has left that value
does not come back to it.

`ConsentCorrect` is about the types: every type that can move a key or a nonce, raise an
allowance or take from a deposit is one `check_auth` or a circuit demands a signature for, so
that the slot settles a message, and a message is for one account.

`LiabilityIsSum` is the one property about all accounts at once.  Changing one
account changes the sum by the difference (`SumProofs`), which rests on an induction
over the length of the sum.  `Sums!SumBelow` is a recursive *function*, and the
induction is taken from the well-foundedness of `<` on the naturals (a non-empty set of
naturals has a smallest element), a fact about sets that needs no operator parameter.

For the engine the argument is that C16 pins the witness.  If the old leaf lifted along
the siblings is the present root, then the siblings agree with the present tree at every
other leaf and the old leaf is the present one; as leaves determine accounts up to the
limbs they do not hold, and those are determined by the limbs they do, the witness's
account *is* the stored one (`EngineProofs`).  C18 does the same for the total.
The effects are then those of the witness `Rollup` would have built.

The other direction, `FreshCorrect`, goes through the checks one by one and shows that none
is in the way of a due request.  Those of the witness pass on any witness that is read at
once (`HonestWitnessPasses`); those of the effects need the invariants of the rollup, which
the engine has because it implements it: a balance is at most the total (`LiabilityIsSum`,
over all accounts), so what fits the total fits the balance; the reverted amount is at most
the balance because the credit is (`CreditIsCovered`).

For the tree the invariant (`MerkleInv`) says that the present root is the root of some tree
of leaves: there is an array of nodes, level by level, each the hash of its two children.
It is kept because lifting a leaf along siblings that verify gives such an array again
(`LiftMakesTree`), and it is needed because reading a node is defined on roots of trees only.
That a path that verifies is the present one goes down the levels: two
lifts with the same result have the same children at every node, as `two_to_one` is
injective, down to the leaf (`ProofIsOfItsTree`).  Both `>>` and `1 <<` are recursive
functions, so the indices are handled by induction over the levels like everything else.

For signed slots the invariant (`SignedInv`) says of each message: its nonce is at most
the value of its lane; it is unused, or it went into exactly one slot and its lane has
moved past it; and a bet whose nonce is still current was signed for the seed its account
still has.  The last part is where the components meet: a message can only be signed with
a key, a key implies a seed (`RegisteredIsComplete`), and the seed of a player's account that has
one moves only with the game lane (the lemma `SubmitKeepsSeed`), which would leave the message behind.

For the pipeline the invariant (`PipelineInv`) is that every call before the present one has
returned `Ok`.  That no call panics is then a matter of which checks stand before which call:
canonicity before the first hash, the stored allowance before the old leaf is packed,
`compute_new_allowance` before the new one is, keno's and blackjack's screening before the
table and the replay.  The new leaf needs more than a check: that a new nonce, two lanes
within their ceilings, is canonical.

That a wrong input is rejected for what is wrong (`FlawsCorrect`) needs both halves of the
verdict.  A corruption is met by the checks of the state, which come before any effect and
read nothing else.  A spoiled effect leaves those checks alone, since it is committed again;
`compute_effects` is then taken in three parts (money, identity, fairness), and a frame lemma
per part says which fields it reads, so every check before the one meant for the spoiled
field repeats the `Ok` it gave to the slot that was accepted.

For the mirror (`MirrorInv`), the slots of one account are a chain in the batch: each carries
the nonce its predecessor leaves, the mirror the one the last leaves.  An acceptance moves the
leaf along that chain.  A rejected bump leaves the leaf strictly behind every nonce queued
or to be queued, and C16 pins the nonce a witness may carry, so nothing is accepted there;
that is the whole quarantine.  
For the seed chain the invariant (`ChainInv`) is the two properties with the types: what is
recorded is the hash of a seed, hence never zero.  A leaf therefore has the zero seed
exactly when its record is empty, which is how the code tells a first registration, and no
later one is taken for the first.  The reveal is then C9: the seed of the bet hashes to the
commitment of the leaf, which is the last recorded.

A thing the invariant does *not* say, and the code does not promise: rotating a key does
not move the game lane.  A bet signed under a replaced key is refused while the other key
is installed, and becomes good again if the old key is registered again before the game
lane moves.  It is still the bet its owner signed, for the same seed.

## 5. What is only model-checked, and what is not modelled

Only model-checked:

* of `RejectedForAFlaw`, the inputs that `FlawsCorrect` does not reach: two effects spoiled at
  once, whose order of refusal depends on the pair; game parameters that are malformed from
  the start, and a stake tampered with (`tampered_stake`), which depend on what the games pay;
* the two violations.

Everything else the runs check is also proved.

Not modelled, and why:

* the Poseidon2 permutation, the payout tables, the deck and the replay of blackjack:
  dependencies of the crate whose source is not in the repository;
* the circuits, the Schnorr and EIP-712 chains, block and payout proofs: other repositories,
  of which the validator is the mirror; `SignedSlots` has the interface it owes them;
* `schnorr_pk_hash`, which only the tests of the crate call;
* serde, `Display` and the wasm boundary: conversions without state.  Of deserialization the
  pipeline takes only the ranges of the types for granted;
* the engine beyond what `SlotInput`, `SlotEffects` and `advance_nonce` say of it: its stores,
  its persistence and its scheduling.  In particular what it does after a rejected slot in a
  batch is not in the repository: `NonceMirror` lets it go on with the batch, the worst case;
* the rounds of the crash game.  The commitment a round was opened with is stored by the engine
  and handed in as `crash_seed_hash`; the validator compares it with the hash of the revealed
  seed, or compares nothing when it is `None`.  That all bets of a round are handed the same
  commitment is the engine's to ensure, and a model of it would only show that equal values
  are equal;
* the tables of keno, beyond which risks and numbers of picks have one (`KenoTables`).

One abstraction is worth knowing.  A leaf keeps two limbs of the key hash and of the address
hash, while `check_auth` and the `is_addr_all_zero` of `build_address` test all four limbs the
witness gives.  The other two come from the engine's store and no root authenticates
them.  The model has both halves and the same tests, but its witnesses take the second
half from the engine, never from anywhere else: what the validator makes of other values
there is not among the questions of the runs.

## 6. What could come next

* The payout proof's multiset (`slot_h`, `is_multiset_slot`) against the settled slots, when
  the circuits that consume it are at hand.
