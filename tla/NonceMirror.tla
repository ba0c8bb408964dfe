---------------------------- MODULE NonceMirror ----------------------------
(***************************************************************************)
(* A batch of slots built ahead of their validation.                       *)
(*                                                                         *)
(* The engine queues slots whose predecessors have not been validated yet. *)
(* It keeps the nonce of every account ahead of the leaf, advancing it for *)
(* each queued slot with advance_nonce, and puts the nonce so obtained in  *)
(* the witness; the rest of the witness is read when the slot's turn comes.*)
(* A slot may be rejected in the middle of the batch, and the engine goes  *)
(* on with those behind it; when the batch is used up it reads the leaves  *)
(* again.                                                                  *)
(*                                                                         *)
(* The engine is not in the repository; the module models what the doc of  *)
(* advance_nonce says of it.                                               *)
(***************************************************************************)
EXTENDS Rollup, Sequences

CONSTANTS
    BatchRequests,  \* the requests of this instance
    MaxBatch        \* bounds the slots waiting

ASSUME BatchAssumption ==
    /\ \A req \in BatchRequests : SoundRequest(req) /\ req.tx_type \in TxTypes
    /\ MaxBatch \in Nat

VARIABLES
    mirror,     \* [Users -> the nonce after all slots queued]
    batch,      \* the slots waiting, in order: [req, nonce]
    stale       \* accounts whose mirror a rejected slot has left ahead

mirror_vars == <<leaves, root, tl, mirror, batch, stale>>

-----------------------------------------------------------------------------
NoncesOf(accounts) == [u \in Users |-> accounts[u].nonce]

MirrorInit ==
    /\ Init
    /\ mirror = NoncesOf(leaves)
    /\ batch = << >>
    /\ stale = {}

Advanced(req, nonce) == advance_nonce(nonce, req.tx_type, is_key_setter([req |-> req]))

\* A slot is queued at the mirrored nonce, unless advance_nonce refuses it.
Queue(req) ==
    LET u == req.user_id IN
    /\ Len(batch) < MaxBatch
    /\ advance_nonce_check(mirror[u], req.tx_type, is_key_setter([req |-> req])) = Ok
    /\ batch' = Append(batch, [req |-> req, nonce |-> mirror[u]])
    /\ mirror' = [mirror EXCEPT ![u] = Advanced(req, @)]
    /\ UNCHANGED <<leaves, root, tl, stale>>

\* The witness of the first slot: all of it fresh but the nonce.
FirstInput ==
    LET slot == Head(batch)
    IN [SlotInput(slot.req, leaves, tl) EXCEPT !.old.nonce = slot.nonce]

AcceptFirst ==
    /\ batch # << >>
    /\ validate_slot(FirstInput) = Ok
    /\ Apply(FirstInput)
    /\ batch' = Tail(batch)
    /\ UNCHANGED <<mirror, stale>>

RejectFirst ==
    /\ batch # << >>
    /\ validate_slot(FirstInput) # Ok
    /\ batch' = Tail(batch)
    /\ stale' = IF Advanced(Head(batch).req, Head(batch).nonce) = Head(batch).nonce
                THEN stale ELSE stale \cup {Head(batch).req.user_id}
    /\ UNCHANGED <<leaves, root, tl, mirror>>

Resync ==
    /\ batch = << >>
    /\ stale # {}
    /\ mirror' = NoncesOf(leaves)
    /\ stale' = {}
    /\ UNCHANGED <<leaves, root, tl, batch>>

MirrorNext ==
    \/ \E req \in BatchRequests : Queue(req)
    \/ AcceptFirst \/ RejectFirst \/ Resync

MirrorSpec == MirrorInit /\ [][MirrorNext]_mirror_vars

-----------------------------------------------------------------------------
UserOf(i) == batch[i].req.user_id

\* As long as no slot that bumps a lane was rejected, what advance_nonce makes of
\* the type alone is what validate_slot stores, slot after slot, on both lanes
\* (lib.rs:480, "advances the nonce with this exact rule"): the nonce of the next
\* slot of an account, queued or not, is that of its leaf.
MirrorIsExact ==
    /\ \A i \in DOMAIN batch :
          UserOf(i) \notin stale /\ (\A j \in 1 .. i - 1 : UserOf(j) # UserOf(i)) =>
              batch[i].nonce = leaves[UserOf(i)].nonce
    /\ \A u \in Users \ stale :
          (\A i \in DOMAIN batch : UserOf(i) # u) => mirror[u] = leaves[u].nonce

\* After the rejection of a slot that bumps a lane, nothing queued behind it for
\* the same account goes through, whatever its type and whether it is signed or
\* not, until the engine has read the leaf again: no slot is validated against an
\* account its builder never saw.
RejectedIsQuarantined ==
    [][\A u \in stale : leaves'[u] = leaves[u]]_mirror_vars
=============================================================================
