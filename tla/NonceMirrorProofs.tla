------------------------- MODULE NonceMirrorProofs -------------------------
(***************************************************************************)
(* The mirrored nonces are exact and a rejection quarantines its account,  *)
(* for any batch length, any number of accounts and lanes of any width.    *)
(*                                                                         *)
(* The slots of one account are a chain in the batch: each carries the     *)
(* nonce its predecessor leaves, and the mirror the nonce the last leaves. *)
(* An acceptance moves the leaf along that chain; a rejected bump leaves   *)
(* it behind for good, since the root pins the nonce a witness may carry.  *)
(***************************************************************************)
EXTENDS NonceMirror, RollupProofs

AdvancedAt(i) == Advanced(batch[i].req, batch[i].nonce)

MirrorTypeOK ==
    /\ mirror \in [Users -> Nat]
    /\ batch \in Seq([req : BatchRequests, nonce : Nat])
    /\ stale \subseteq Users

\* The batch is a chain in each account, and only goes up.
Chained ==
    /\ \A i, j \in DOMAIN batch : i < j /\ UserOf(i) = UserOf(j) =>
          /\ batch[j].nonce >= AdvancedAt(i)
          /\ (\A k \in i + 1 .. j - 1 : UserOf(k) # UserOf(i)) =>
                 batch[j].nonce = AdvancedAt(i)
    /\ \A i \in DOMAIN batch :
          /\ mirror[UserOf(i)] >= AdvancedAt(i)
          /\ (\A k \in DOMAIN batch : k > i => UserOf(k) # UserOf(i)) =>
                 mirror[UserOf(i)] = AdvancedAt(i)

\* The leaf of a stale account is behind whatever is queued or will be.
StaleIsBehind ==
    /\ \A i \in DOMAIN batch :
          UserOf(i) \in stale => batch[i].nonce > leaves[UserOf(i)].nonce
    /\ \A u \in stale : mirror[u] > leaves[u].nonce

MirrorInv ==
    /\ TypeOK /\ RootCommitsLeaves
    /\ MirrorTypeOK /\ Chained /\ StaleIsBehind /\ MirrorIsExact

\* advance_nonce never goes back.
LEMMA AdvancedIsAhead ==
    ASSUME NEW req, NEW n \in Nat
    PROVE  Advanced(req, n) \in Nat /\ Advanced(req, n) >= n
<1>1. ACCOUNT_LANE_UNIT \in Nat
  BY LaneAssumption DEF ACCOUNT_LANE_UNIT
<1>2. \A flag : Bump(flag) \in {0, 1}
  BY DEF Bump
<1>3. \A flag : Bump(flag) * ACCOUNT_LANE_UNIT \in Nat
  BY <1>1, <1>2
<1> QED BY <1>2, <1>3 DEF Advanced, advance_nonce, compute_new_nonce

\* What is queued is a sound request with the nonce of a word.
LEMMA SlotOfBatch ==
    ASSUME MirrorTypeOK, NEW i \in DOMAIN batch
    PROVE  /\ batch[i] = [req |-> batch[i].req, nonce |-> batch[i].nonce]
           /\ SoundRequest(batch[i].req) /\ batch[i].req.tx_type \in TxTypes
           /\ UserOf(i) \in Users /\ batch[i].nonce \in Nat
           /\ AdvancedAt(i) \in Nat /\ AdvancedAt(i) >= batch[i].nonce
<1>1. batch[i] \in [req : BatchRequests, nonce : Nat]
  <2>1. \A S : batch \in Seq(S) => batch[i] \in S
    OBVIOUS
  <2> QED BY <2>1 DEF MirrorTypeOK
<1>2. SoundRequest(batch[i].req) /\ batch[i].req.tx_type \in TxTypes
  BY <1>1, BatchAssumption
<1> QED BY <1>1, <1>2, AdvancedIsAhead DEF SoundRequest, UserOf, AdvancedAt

\* The root pins the nonce: the first slot can be accepted at the leaf's nonce
\* only, and is then an accepted slot of the rollup.
LEMMA AcceptedAtLeaf ==
    ASSUME MirrorInv, AcceptFirst
    PROVE  /\ batch[1].nonce = leaves[UserOf(1)].nonce
           /\ Submit(batch[1].req)
<1> DEFINE in == FirstInput
           u == UserOf(1)
           old == [leaves[u] EXCEPT !.nonce = batch[1].nonce]
<1>1. 1 \in DOMAIN batch /\ Head(batch) = batch[1]
  BY DEF AcceptFirst, MirrorInv, MirrorTypeOK
<1>2. u \in Users /\ batch[1].req.tx_type \in TxTypes /\ leaves[u] \in Account
  BY <1>1, SlotOfBatch DEF MirrorInv, TypeOK
<1>3. in = [req |-> batch[1].req, old |-> old, main_siblings |-> SiblingsOf(leaves),
            old_total_liability |-> tl, current_root |-> root, current_tl |-> tl]
  BY <1>1 DEF FirstInput, SlotInput, UserOf
<1>4. validate_slot(in) = Ok
  BY DEF AcceptFirst
<1>5. compute_root(old, SiblingsOf(leaves), u) = RootOf(leaves)
  <2>1. verify_current_root(in) = Ok
    BY <1>4, AcceptedChecks
  <2> HIDE DEF in
  <2>2. in.old = old /\ in.main_siblings = SiblingsOf(leaves) /\ in.current_root = root
        /\ in.req.user_id = u
    BY <1>3 DEF UserOf
  <2> QED BY <2>1, <2>2 DEF verify_current_root, Require, Ok, MirrorInv, RootCommitsLeaves
<1>6. main_leaf(old) = main_leaf(leaves[u])
  <2> HIDE DEF old, u
  <2>1. RootOf(leaves)[u] = main_leaf(leaves[u])
    BY <1>2 DEF RootOf, SiblingsOf
  <2>2. compute_root(old, SiblingsOf(leaves), u)[u] = main_leaf(old)
    BY <1>2 DEF compute_root, root_from_leaf, SiblingsOf
  <2> QED BY <1>5, <2>1, <2>2
<1>7. old.nonce = leaves[u].nonce
  <2> HIDE DEF old, u
  <2> QED BY <1>6 DEF main_leaf, balance_leaf
<1>8. batch[1].nonce = leaves[u].nonce
  BY <1>2, <1>7 DEF Account
<1>9. old = leaves[u]
  BY <1>2, <1>8 DEF Account
<1>10. in = SlotInput(batch[1].req, leaves, tl)
  BY <1>3, <1>9 DEF SlotInput, UserOf
<1> QED BY <1>2, <1>4, <1>8, <1>10 DEF AcceptFirst, Submit

\* An acceptance moves the leaf of its account to the next nonce of the chain.
LEMMA AcceptAdvances ==
    ASSUME MirrorInv, AcceptFirst
    PROVE  /\ leaves'[UserOf(1)].nonce = AdvancedAt(1)
           /\ \A u \in Users : u # UserOf(1) => leaves'[u] = leaves[u]
           /\ UserOf(1) \notin stale
           /\ TypeOK' /\ RootCommitsLeaves'
<1> DEFINE req == batch[1].req
           in == SlotInput(req, leaves, tl)
           u == UserOf(1)
<1>1. 1 \in DOMAIN batch
  BY DEF AcceptFirst, MirrorInv, MirrorTypeOK
<1>2. SoundRequest(req) /\ u \in Users /\ req.user_id = u /\ batch[1].nonce \in Nat
  BY <1>1, SlotOfBatch DEF MirrorInv, UserOf
<1>3. batch[1].nonce = leaves[u].nonce /\ Submit(req)
  BY AcceptedAtLeaf
<1>4. TypeOK' /\ RootCommitsLeaves'
  BY <1>2, <1>3, SubmitTypeOK, SubmitRoot DEF MirrorInv
<1>5. /\ leaves' = [leaves EXCEPT ![u] = new_account(in)]
      /\ in.old = leaves[u] /\ in.req = req
  BY <1>2, <1>3, SubmitEffects, WitnessSound DEF MirrorInv
<1>6. new_nonce(in) = AdvancedAt(1)
  BY <1>3, <1>5, NonceIsMirrored DEF AdvancedAt, Advanced, is_key_setter
<1>7. leaves'[u].nonce = AdvancedAt(1)
  BY <1>2, <1>5, <1>6 DEF new_account, MirrorInv, TypeOK
<1>8. u \notin stale
  <2>1. leaves[u].nonce \in Nat
    BY <1>2, <1>3
  <2> QED BY <1>1, <1>3, <2>1 DEF MirrorInv, StaleIsBehind
<1> QED BY <1>2, <1>4, <1>5, <1>7, <1>8 DEF MirrorInv, TypeOK

-----------------------------------------------------------------------------
\* What is left of the batch once its first slot is gone.
LEMMA TailOfBatch ==
    ASSUME MirrorTypeOK, batch # << >>, batch' = Tail(batch)
    PROVE  /\ batch' \in Seq([req : BatchRequests, nonce : Nat])
           /\ Len(batch') = Len(batch) - 1 /\ Len(batch) \in Nat
           /\ DOMAIN batch' = 1 .. Len(batch) - 1
           /\ 1 \in DOMAIN batch /\ DOMAIN batch = 1 .. Len(batch)
           /\ Head(batch) = batch[1]
           /\ \A i \in DOMAIN batch' :
                 /\ i + 1 \in DOMAIN batch
                 /\ batch'[i] = batch[i + 1]
                 /\ UserOf(i)' = UserOf(i + 1)
                 /\ AdvancedAt(i)' = AdvancedAt(i + 1)
<1>1. \A S : batch \in Seq(S) => Tail(batch) \in Seq(S)
  OBVIOUS
<1>2. batch' \in Seq([req : BatchRequests, nonce : Nat])
  BY <1>1 DEF MirrorTypeOK
<1>3. \E S : batch \in Seq(S)
  BY DEF MirrorTypeOK
<1>4. /\ Len(batch') = Len(batch) - 1 /\ Len(batch) \in Nat
      /\ DOMAIN batch' = 1 .. Len(batch) - 1
      /\ 1 \in DOMAIN batch /\ DOMAIN batch = 1 .. Len(batch)
      /\ Head(batch) = batch[1]
      /\ \A i \in DOMAIN batch' : i + 1 \in DOMAIN batch /\ batch'[i] = batch[i + 1]
  BY <1>3
<1> QED BY <1>2, <1>4 DEF UserOf, AdvancedAt

\* Dropping the first slot keeps the chain.
LEMMA TailKeepsChain ==
    ASSUME MirrorTypeOK, Chained, batch # << >>, batch' = Tail(batch), mirror' = mirror
    PROVE  Chained'
<1> USE TailOfBatch
<1>1. ASSUME NEW i \in DOMAIN batch', NEW j \in DOMAIN batch',
             i < j, UserOf(i)' = UserOf(j)'
      PROVE  /\ batch'[j].nonce >= AdvancedAt(i)'
             /\ (\A k \in i + 1 .. j - 1 : UserOf(k)' # UserOf(i)') =>
                    batch'[j].nonce = AdvancedAt(i)'
  <2>1. i + 1 < j + 1 /\ UserOf(i + 1) = UserOf(j + 1)
    BY <1>1
  <2>2. ASSUME \A k \in i + 1 .. j - 1 : UserOf(k)' # UserOf(i)'
        PROVE  \A k \in (i + 1) + 1 .. (j + 1) - 1 : UserOf(k) # UserOf(i + 1)
    <3> SUFFICES ASSUME NEW k \in (i + 1) + 1 .. (j + 1) - 1
                 PROVE  UserOf(k) # UserOf(i + 1)
      OBVIOUS
    <3>1. i \in Int /\ j \in Int /\ 1 <= i /\ j <= Len(batch) - 1
      OBVIOUS
    <3>2. k - 1 \in i + 1 .. j - 1 /\ k - 1 \in DOMAIN batch' /\ (k - 1) + 1 = k
      BY <3>1
    <3> QED BY <2>2, <3>2
  <2> QED BY <2>1, <2>2 DEF Chained
<1>2. ASSUME NEW i \in DOMAIN batch'
      PROVE  /\ mirror'[UserOf(i)'] >= AdvancedAt(i)'
             /\ (\A k \in DOMAIN batch' : k > i => UserOf(k)' # UserOf(i)') =>
                    mirror'[UserOf(i)'] = AdvancedAt(i)'
  <2>1. ASSUME \A k \in DOMAIN batch' : k > i => UserOf(k)' # UserOf(i)'
        PROVE  \A k \in DOMAIN batch : k > i + 1 => UserOf(k) # UserOf(i + 1)
    <3> SUFFICES ASSUME NEW k \in DOMAIN batch, k > i + 1
                 PROVE  UserOf(k) # UserOf(i + 1)
      OBVIOUS
    <3>1. k - 1 \in DOMAIN batch' /\ k - 1 > i /\ (k - 1) + 1 = k
      BY <1>2
    <3> QED BY <2>1, <3>1
  <2> QED BY <2>1 DEF Chained
<1> QED BY <1>1, <1>2 DEF Chained

\* When the first slot is gone and nothing has bumped, or its leaf has followed,
\* the next slot of every account is still at its leaf.
LEMMA TailStaysExact ==
    ASSUME MirrorInv, batch # << >>, batch' = Tail(batch), mirror' = mirror,
           stale \subseteq stale',
           UserOf(1) \notin stale' => leaves'[UserOf(1)].nonce = AdvancedAt(1),
           \A u \in Users : u # UserOf(1) => leaves'[u] = leaves[u]
    PROVE  MirrorIsExact'
<1> USE TailOfBatch DEF MirrorInv
<1>1. ASSUME NEW i \in DOMAIN batch', UserOf(i)' \notin stale',
             \A j \in 1 .. i - 1 : UserOf(j)' # UserOf(i)'
      PROVE  batch'[i].nonce = leaves'[UserOf(i)'].nonce
  <2>1. \A k \in 2 .. i : UserOf(k) # UserOf(i + 1)
    <3> SUFFICES ASSUME NEW k \in 2 .. i
                 PROVE  UserOf(k) # UserOf(i + 1)
      OBVIOUS
    <3>1. k - 1 \in 1 .. i - 1 /\ k - 1 \in DOMAIN batch' /\ (k - 1) + 1 = k
      BY <1>1
    <3> QED BY <1>1, <3>1
  <2>2. CASE UserOf(i + 1) = UserOf(1)
    <3>1. 1 < i + 1 /\ \A k \in 1 + 1 .. (i + 1) - 1 : UserOf(k) # UserOf(1)
      BY <2>1, <2>2
    <3> QED BY <1>1, <2>2, <3>1 DEF Chained
  <2>3. CASE UserOf(i + 1) # UserOf(1)
    <3>1. \A k \in 1 .. (i + 1) - 1 : UserOf(k) # UserOf(i + 1)
      BY <2>1, <2>3
    <3>2. UserOf(i + 1) \notin stale /\ UserOf(i + 1) \in Users
      BY <1>1, SlotOfBatch
    <3> QED BY <1>1, <2>3, <3>1, <3>2 DEF MirrorIsExact
  <2> QED BY <2>2, <2>3
<1>2. ASSUME NEW u \in Users \ stale', \A i \in DOMAIN batch' : UserOf(i)' # u
      PROVE  mirror'[u] = leaves'[u].nonce
  <2>1. \A k \in DOMAIN batch : k > 1 => UserOf(k) # u
    <3> SUFFICES ASSUME NEW k \in DOMAIN batch, k > 1
                 PROVE  UserOf(k) # u
      OBVIOUS
    <3>1. k - 1 \in DOMAIN batch' /\ (k - 1) + 1 = k
      OBVIOUS
    <3> QED BY <1>2, <3>1
  <2>2. CASE u = UserOf(1)
    BY <1>2, <2>1, <2>2 DEF Chained
  <2>3. CASE u # UserOf(1)
    <3>1. \A k \in DOMAIN batch : UserOf(k) # u
      BY <2>1, <2>3
    <3> QED BY <1>2, <2>3, <3>1 DEF MirrorIsExact
  <2> QED BY <2>2, <2>3
<1> QED BY <1>1, <1>2 DEF MirrorIsExact

-----------------------------------------------------------------------------
\* Queueing a slot at the mirrored nonce lengthens the chain of its account.
LEMMA QueueKeepsInv ==
    ASSUME MirrorInv, NEW req \in BatchRequests, Queue(req)
    PROVE  MirrorInv'
<1>0. PICK u, slot, n : /\ u = req.user_id /\ n = Len(batch) + 1
                        /\ slot = [req |-> req, nonce |-> mirror[u]]
  OBVIOUS
<1> USE DEF MirrorInv
<1>1. /\ batch' = Append(batch, slot) /\ UNCHANGED <<leaves, root, tl, stale>>
      /\ mirror' = [mirror EXCEPT ![u] = Advanced(req, @)]
  BY <1>0 DEF Queue
<1>2. u \in Users /\ mirror[u] \in Nat
      /\ Advanced(req, mirror[u]) \in Nat /\ Advanced(req, mirror[u]) >= mirror[u]
  BY <1>0, BatchAssumption, AdvancedIsAhead DEF SoundRequest, MirrorTypeOK
<1>3. TypeOK' /\ RootCommitsLeaves'
  BY <1>1 DEF TypeOK, RootCommitsLeaves
<1>4. MirrorTypeOK'
  <2>1. slot \in [req : BatchRequests, nonce : Nat]
    BY <1>0, <1>2
  <2>2. \A S : slot \in S /\ batch \in Seq(S) => Append(batch, slot) \in Seq(S)
    OBVIOUS
  <2>3. batch' \in Seq([req : BatchRequests, nonce : Nat])
    BY <1>1, <2>1, <2>2 DEF MirrorTypeOK
  <2> QED BY <1>1, <1>2, <2>3 DEF MirrorTypeOK
<1>5. /\ n \in Nat \ {0} /\ DOMAIN batch = 1 .. n - 1 /\ DOMAIN batch' = 1 .. n
      /\ batch'[n] = slot /\ UserOf(n)' = u /\ AdvancedAt(n)' = Advanced(req, mirror[u])
      /\ \A i \in DOMAIN batch : /\ batch'[i] = batch[i] /\ UserOf(i)' = UserOf(i)
                                /\ AdvancedAt(i)' = AdvancedAt(i)
  <2>1. \E S : batch \in Seq(S)
    BY DEF MirrorTypeOK
  <2>2. /\ n \in Nat \ {0} /\ DOMAIN batch = 1 .. n - 1 /\ DOMAIN batch' = 1 .. n
        /\ batch'[n] = slot /\ \A i \in DOMAIN batch : batch'[i] = batch[i]
    BY <1>0, <1>1, <2>1
  <2>3. slot.req = req /\ slot.nonce = mirror[u] /\ slot.req.user_id = u
    BY <1>0
  <2> QED BY <2>2, <2>3 DEF UserOf, AdvancedAt
<1>6. /\ mirror'[u] = Advanced(req, mirror[u])
      /\ \A x \in Users : x # u => mirror'[x] = mirror[x]
      /\ \A i \in DOMAIN batch : UserOf(i) \in Users /\ AdvancedAt(i) \in Nat
      /\ slot.nonce = mirror[u]
  BY <1>0, <1>1, <1>2, SlotOfBatch DEF MirrorTypeOK
<1>7. Chained'
  <2>1. ASSUME NEW i \in DOMAIN batch', NEW j \in DOMAIN batch',
               i < j, UserOf(i)' = UserOf(j)'
        PROVE  /\ batch'[j].nonce >= AdvancedAt(i)'
               /\ (\A k \in i + 1 .. j - 1 : UserOf(k)' # UserOf(i)') =>
                      batch'[j].nonce = AdvancedAt(i)'
    <3>1. CASE j # n
      <4>1. i \in DOMAIN batch /\ j \in DOMAIN batch /\ UserOf(i) = UserOf(j)
        BY <1>5, <2>1, <3>1
      <4>2. \A k \in i + 1 .. j - 1 : k \in DOMAIN batch
        BY <1>5, <2>1, <4>1
      <4>3. /\ batch[j].nonce >= AdvancedAt(i)
            /\ (\A k \in i + 1 .. j - 1 : UserOf(k) # UserOf(i)) =>
                   batch[j].nonce = AdvancedAt(i)
        BY <2>1, <4>1 DEF Chained
      <4>4. batch'[j].nonce = batch[j].nonce /\ AdvancedAt(i)' = AdvancedAt(i)
        BY <1>5, <4>1
      <4>5. UserOf(i)' = UserOf(i) /\ \A k \in i + 1 .. j - 1 : UserOf(k)' = UserOf(k)
        BY <1>5, <4>1, <4>2
      <4> QED BY <4>3, <4>4, <4>5
    <3>2. CASE j = n
      <4>1. i \in DOMAIN batch /\ UserOf(i) = u
        BY <1>5, <2>1, <3>2
      <4>2. ASSUME \A k \in i + 1 .. j - 1 : UserOf(k)' # UserOf(i)'
            PROVE  \A k \in DOMAIN batch : k > i => UserOf(k) # UserOf(i)
        BY <1>5, <2>1, <3>2, <4>1, <4>2
      <4> QED BY <1>5, <1>6, <3>2, <4>1, <4>2 DEF Chained
    <3> QED BY <3>1, <3>2
  <2>2. ASSUME NEW i \in DOMAIN batch'
        PROVE  /\ mirror'[UserOf(i)'] >= AdvancedAt(i)'
               /\ (\A k \in DOMAIN batch' : k > i => UserOf(k)' # UserOf(i)') =>
                      mirror'[UserOf(i)'] = AdvancedAt(i)'
    <3>1. CASE i = n
      BY <1>2, <1>5, <1>6, <3>1
    <3>2. CASE i # n /\ UserOf(i)' = u
      <4>1. i \in DOMAIN batch /\ UserOf(i) = u /\ n > i /\ n \in DOMAIN batch'
        BY <1>5, <3>2
      <4>2. mirror[u] >= AdvancedAt(i) /\ AdvancedAt(i) \in Nat
        BY <1>6, <4>1 DEF Chained
      <4> QED BY <1>2, <1>5, <1>6, <4>1, <4>2
    <3>3. CASE i # n /\ UserOf(i)' # u
      <4>1. i \in DOMAIN batch /\ UserOf(i) # u /\ UserOf(i)' = UserOf(i)
            /\ \A k \in DOMAIN batch : k \in DOMAIN batch'
        BY <1>5, <3>3
      <4> QED BY <1>5, <1>6, <4>1 DEF Chained
    <3> QED BY <3>1, <3>2, <3>3
  <2> QED BY <2>1, <2>2 DEF Chained
<1>8. StaleIsBehind'
  <2>1. \A x \in stale : x \in Users /\ leaves[x].nonce \in Nat /\ mirror[x] \in Nat
    BY LaneAssumption DEF MirrorTypeOK, TypeOK, Account, Nonces
  <2>2. \A i \in DOMAIN batch' : i = n \/ i \in DOMAIN batch
    BY <1>5
  <2> QED BY <1>1, <1>2, <1>5, <1>6, <2>1, <2>2 DEF StaleIsBehind
<1>9. MirrorIsExact'
  <2>0. MirrorIsExact
    OBVIOUS
  <2> HIDE DEF MirrorInv
  <2>1. ASSUME NEW i \in DOMAIN batch', UserOf(i)' \notin stale',
               \A j \in 1 .. i - 1 : UserOf(j)' # UserOf(i)'
        PROVE  batch'[i].nonce = leaves'[UserOf(i)'].nonce
    <3>1. \A j \in 1 .. i - 1 : j \in DOMAIN batch
      BY <1>5
    <3>2. CASE i = n
      <4>1. \A j \in DOMAIN batch : UserOf(j) # u
        BY <1>5, <2>1, <3>2
      <4> QED BY <1>1, <1>2, <1>5, <1>6, <2>0, <2>1, <3>2, <4>1 DEF MirrorIsExact
    <3>3. CASE i # n
      <4>1. i \in DOMAIN batch /\ UserOf(i)' = UserOf(i) /\ batch'[i] = batch[i]
        BY <1>5, <3>3
      <4>2. \A j \in 1 .. i - 1 : UserOf(j) # UserOf(i)
        BY <1>5, <2>1, <3>1, <4>1
      <4>3. batch[i].nonce = leaves[UserOf(i)].nonce
        BY <1>1, <2>0, <2>1, <4>1, <4>2 DEF MirrorIsExact
      <4> QED BY <1>1, <4>1, <4>3
    <3> QED BY <3>2, <3>3
  <2>2. ASSUME NEW x \in Users \ stale', \A i \in DOMAIN batch' : UserOf(i)' # x
        PROVE  mirror'[x] = leaves'[x].nonce
    <3>1. n \in DOMAIN batch' /\ \A i \in DOMAIN batch : i \in DOMAIN batch'
      BY <1>5
    <3>2. x # u /\ \A i \in DOMAIN batch : UserOf(i) # x
      BY <1>5, <2>2, <3>1
    <3> QED BY <1>1, <1>6, <2>0, <2>2, <3>2 DEF MirrorIsExact
  <2> QED BY <2>1, <2>2 DEF MirrorIsExact
<1> QED BY <1>3, <1>4, <1>7, <1>8, <1>9

\* An accepted slot takes its leaf one link along the chain.
LEMMA AcceptKeepsInv ==
    ASSUME MirrorInv, AcceptFirst
    PROVE  MirrorInv'
<1> USE DEF MirrorInv
<1>1. batch # << >> /\ batch' = Tail(batch) /\ mirror' = mirror /\ stale' = stale
  BY DEF AcceptFirst
<1>2. /\ leaves'[UserOf(1)].nonce = AdvancedAt(1) /\ UserOf(1) \notin stale
      /\ \A u \in Users : u # UserOf(1) => leaves'[u] = leaves[u]
      /\ TypeOK' /\ RootCommitsLeaves'
  BY AcceptAdvances
<1>3. MirrorTypeOK' /\ Chained'
  BY <1>1, TailOfBatch, TailKeepsChain DEF MirrorTypeOK
<1>4. MirrorIsExact'
  BY <1>1, <1>2, TailStaysExact
<1>5. StaleIsBehind'
  <2>1. \A u \in stale : u \in Users /\ leaves'[u] = leaves[u]
    BY <1>2 DEF MirrorTypeOK
  <2> QED BY <1>1, <2>1, TailOfBatch DEF StaleIsBehind
<1> QED BY <1>2, <1>3, <1>4, <1>5

\* A rejected bump leaves its leaf behind everything queued for the account.
LEMMA RejectKeepsInv ==
    ASSUME MirrorInv, RejectFirst
    PROVE  MirrorInv'
<1> DEFINE u == UserOf(1)
<1> USE DEF MirrorInv
<1>1. batch # << >> /\ batch' = Tail(batch) /\ mirror' = mirror
      /\ UNCHANGED <<leaves, root, tl>>
  BY DEF RejectFirst
<1>2. /\ stale' = IF AdvancedAt(1) = batch[1].nonce THEN stale ELSE stale \cup {u}
      /\ 1 \in DOMAIN batch
  BY <1>1, TailOfBatch DEF RejectFirst, AdvancedAt, UserOf
<1>3. u \in Users /\ batch[1].nonce \in Nat /\ AdvancedAt(1) \in Nat
      /\ AdvancedAt(1) >= batch[1].nonce
  BY <1>2, SlotOfBatch
<1>4. TypeOK' /\ RootCommitsLeaves'
  BY <1>1 DEF TypeOK, RootCommitsLeaves
<1>5. MirrorTypeOK' /\ Chained'
  BY <1>1, <1>2, <1>3, TailOfBatch, TailKeepsChain DEF MirrorTypeOK
<1>6. u \notin stale => batch[1].nonce = leaves[u].nonce
  BY <1>2 DEF MirrorIsExact
<1>7. MirrorIsExact'
  <2>1. u \notin stale' => leaves'[u].nonce = AdvancedAt(1)
    BY <1>1, <1>2, <1>6
  <2> QED BY <1>1, <1>2, <2>1, TailStaysExact
<1>8. StaleIsBehind'
  <2>1. CASE u \notin stale /\ AdvancedAt(1) # batch[1].nonce
    <3>1. AdvancedAt(1) > leaves[u].nonce /\ leaves[u].nonce \in Nat
      BY <1>3, <1>6, <2>1
    <3>2. mirror[u] >= AdvancedAt(1) /\ mirror[u] \in Nat
      BY <1>2, <1>3 DEF Chained, MirrorTypeOK
    <3>3. \A i \in DOMAIN batch : i > 1 /\ UserOf(i) = u => batch[i].nonce >= AdvancedAt(1)
      BY <1>2 DEF Chained
    <3>4. \A i \in DOMAIN batch : batch[i].nonce \in Nat
      BY SlotOfBatch
    <3>5. \A i \in DOMAIN batch' :
             UserOf(i)' \in stale' => batch'[i].nonce > leaves'[UserOf(i)'].nonce
      <4> SUFFICES ASSUME NEW i \in DOMAIN batch', UserOf(i)' \in stale'
                   PROVE  batch'[i].nonce > leaves'[UserOf(i)'].nonce
        OBVIOUS
      <4>1. /\ i + 1 \in DOMAIN batch /\ i + 1 > 1 /\ batch'[i] = batch[i + 1]
            /\ UserOf(i)' = UserOf(i + 1)
        BY <1>1, TailOfBatch
      <4>2. CASE UserOf(i + 1) = u
        BY <1>1, <1>3, <3>1, <3>3, <3>4, <4>1, <4>2
      <4>3. CASE UserOf(i + 1) # u
        BY <1>1, <1>2, <4>1, <4>3 DEF StaleIsBehind
      <4> QED BY <4>2, <4>3
    <3>6. \A x \in stale' : mirror'[x] > leaves'[x].nonce
      BY <1>1, <1>2, <1>3, <3>1, <3>2 DEF StaleIsBehind
    <3> QED BY <3>5, <3>6 DEF StaleIsBehind
  <2>2. CASE ~ (u \notin stale /\ AdvancedAt(1) # batch[1].nonce)
    <3>1. stale' = stale
      BY <1>2, <2>2
    <3> QED BY <1>1, <3>1, TailOfBatch DEF StaleIsBehind
  <2> QED BY <2>1, <2>2
<1> QED BY <1>4, <1>5, <1>7, <1>8

\* Reading the leaves again, with nothing queued, makes every mirror exact.
LEMMA ResyncKeepsInv ==
    ASSUME MirrorInv, Resync
    PROVE  MirrorInv'
<1>1. /\ batch = << >> /\ batch' = batch /\ stale' = {}
      /\ mirror' = [u \in Users |-> leaves[u].nonce] /\ UNCHANGED <<leaves, root, tl>>
  BY DEF Resync, NoncesOf
<1>2. DOMAIN batch' = {}
  BY <1>1
<1>3. mirror' \in [Users -> Nat]
  <2>1. \A u \in Users : leaves[u].nonce \in Nat
    BY LaneAssumption DEF MirrorInv, TypeOK, Account, Nonces
  <2> QED BY <1>1, <2>1
<1>4. TypeOK' /\ RootCommitsLeaves' /\ MirrorTypeOK'
  BY <1>1, <1>3 DEF MirrorInv, TypeOK, RootCommitsLeaves, MirrorTypeOK
<1>5. Chained' /\ StaleIsBehind' /\ MirrorIsExact'
  BY <1>1, <1>2 DEF Chained, StaleIsBehind, MirrorIsExact
<1> QED BY <1>4, <1>5 DEF MirrorInv

-----------------------------------------------------------------------------
\* The invariant of the mirror.
LEMMA MirrorSafe == MirrorSpec => []MirrorInv
<1>1. MirrorInit => MirrorInv
  <2> SUFFICES ASSUME MirrorInit
               PROVE  MirrorInv
    OBVIOUS
  <2>1. TypeOK /\ RootCommitsLeaves
    BY InitTypeOK DEF MirrorInit, Init, RootCommitsLeaves
  <2>2. batch = << >> /\ stale = {} /\ mirror = [u \in Users |-> leaves[u].nonce]
    BY DEF MirrorInit, NoncesOf
  <2>3. \A u \in Users : leaves[u].nonce \in Nat
    BY <2>1, LaneAssumption DEF TypeOK, Account, Nonces
  <2>4. MirrorTypeOK
    BY <2>2, <2>3 DEF MirrorTypeOK
  <2>5. Chained /\ StaleIsBehind /\ MirrorIsExact
    BY <2>2 DEF Chained, StaleIsBehind, MirrorIsExact
  <2> QED BY <2>1, <2>4, <2>5 DEF MirrorInv
<1>2. MirrorInv /\ [MirrorNext]_mirror_vars => MirrorInv'
  <2> SUFFICES ASSUME MirrorInv, [MirrorNext]_mirror_vars
               PROVE  MirrorInv'
    OBVIOUS
  <2>1. CASE UNCHANGED mirror_vars
    BY <2>1 DEF mirror_vars, MirrorInv, TypeOK, RootCommitsLeaves, MirrorTypeOK, Chained,
                StaleIsBehind, MirrorIsExact, UserOf, AdvancedAt
  <2> QED BY <2>1, QueueKeepsInv, AcceptKeepsInv, RejectKeepsInv, ResyncKeepsInv
          DEF MirrorNext
<1> QED BY <1>1, <1>2, PTL DEF MirrorSpec

\* While nothing that bumps is rejected, the mirror is the leaf, slot by slot.
THEOREM MirrorCorrect == MirrorSpec => []MirrorIsExact
<1>1. MirrorInv => MirrorIsExact
  BY DEF MirrorInv
<1> QED BY <1>1, MirrorSafe, PTL

\* An account with a rejected bump stands still until the mirror is read again.
THEOREM QuarantineCorrect == MirrorSpec => RejectedIsQuarantined
<1>1. MirrorInv /\ [MirrorNext]_mirror_vars =>
          [\A u \in stale : leaves'[u] = leaves[u]]_mirror_vars
  <2> SUFFICES ASSUME MirrorInv, MirrorNext, NEW u \in stale
               PROVE  leaves'[u] = leaves[u]
    OBVIOUS
  <2>1. CASE AcceptFirst
    BY <2>1, AcceptAdvances DEF MirrorInv, MirrorTypeOK
  <2>2. CASE ~AcceptFirst
    BY <2>2 DEF MirrorNext, Queue, RejectFirst, Resync
  <2> QED BY <2>1, <2>2
<1> QED BY <1>1, MirrorSafe, PTL DEF MirrorSpec, RejectedIsQuarantined

\* The slots of a batch that do go through are a stream of slots, although their
\* witnesses carry a nonce nobody read from the leaf.
THEOREM MirrorIsStream == MirrorSpec => SlotStream
<1>1. MirrorInit => Init
  BY DEF MirrorInit
<1>2. MirrorInv /\ [MirrorNext]_mirror_vars => [AnySlot]_vars
  <2> SUFFICES ASSUME MirrorInv, [MirrorNext]_mirror_vars
               PROVE  [AnySlot]_vars
    OBVIOUS
  <2>1. CASE AcceptFirst
    <3>1. 1 \in DOMAIN batch
      BY <2>1 DEF AcceptFirst, MirrorInv, MirrorTypeOK
    <3>2. SoundRequest(batch[1].req) /\ Submit(batch[1].req)
      BY <2>1, <3>1, AcceptedAtLeaf, SlotOfBatch DEF MirrorInv
    <3> QED BY <3>2 DEF AnySlot
  <2>2. CASE UNCHANGED <<leaves, root, tl>>
    BY <2>2 DEF vars
  <2> QED BY <2>1, <2>2 DEF MirrorNext, mirror_vars, Queue, RejectFirst, Resync
<1> QED BY <1>1, <1>2, MirrorSafe, PTL DEF MirrorSpec, SlotStream

\* A batch moves money only as the ledger allows, whatever is rejected in it:
\* the slots that do go through are slots of the rollup.
THEOREM MirrorImplementsLedger == MirrorSpec => ImplementsLedger
  BY MirrorIsStream, StreamImplementsLedger, PTL

\* However far a rejection has left the mirror ahead, what the operator owes is the
\* sum of the balances.
THEOREM MirrorLiability == MirrorSpec => []LiabilityIsSum
<1>1. StreamInv => LiabilityIsSum
  BY DEF StreamInv
<1> QED BY <1>1, MirrorIsStream, StreamSafe, PTL
=============================================================================
