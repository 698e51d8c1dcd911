--------------------------- MODULE CurrentRequest ---------------------------
(***************************************************************************)
(* The cancel tokens of the daemon's requests and the slot through which   *)
(* suspend, ReleaseCamera and Shutdown reach the one that is capturing     *)
(* (server.rs, CurrentRequest; cancel.rs, CancelToken).                    *)
(*                                                                         *)
(* A token is a flag that is only ever set.  The slot is guarded by a      *)
(* mutex held for a few instructions, so each operation is one step.       *)
(***************************************************************************)
EXTENDS Naturals, Requests

VARIABLES
  token,       \* token[r]: r's CancelToken is set
  current,     \* the slot: Some((generation, token)), or EmptySlot
  generation,  \* the generation counter
  epoch,       \* the cancellation epoch
  checkpoint,  \* checkpoint[r]: the epoch r snapshotted at entry
  installed    \* installed[r]: the generation in r's CurrentRequestGuard, 0 = no guard

currentVars == <<token, current, generation, epoch, checkpoint, installed>>

EmptySlot == [gen |-> 0, req |-> None]

CurrentTypeOK ==
  /\ token \in [Req -> BOOLEAN]
  /\ current \in [gen : Nat, req : Req \cup {None}]
  /\ generation \in Nat
  /\ epoch \in Nat
  /\ checkpoint \in [Req -> Nat]
  /\ installed \in [Req -> Nat]

CurrentInit ==
  /\ token = [r \in Req |-> FALSE]
  /\ current = EmptySlot
  /\ generation = 0
  /\ epoch = 0
  /\ checkpoint = [r \in Req |-> 0]
  /\ installed = [r \in Req |-> 0]

-----------------------------------------------------------------------------

(* CurrentRequest::cancellation_epoch, read at the entry of an authentication. *)
TakeCheckpoint(r) ==
  /\ checkpoint' = [checkpoint EXCEPT ![r] = epoch]
  /\ UNCHANGED <<token, current, generation, epoch, installed>>

(* CurrentRequest::install: publish r's token under a fresh generation. *)
Install(r) ==
  /\ generation' = generation + 1
  /\ current' = [gen |-> generation + 1, req |-> r]
  /\ installed' = [installed EXCEPT ![r] = generation + 1]
  /\ UNCHANGED <<token, epoch, checkpoint>>

(* Mutant: the epoch is not compared when the token is published. *)
InstallRegardless(r) == Install(r)

(* CurrentRequest::install_unless_cancelled_since(token, checkpoint): a cancel
   that landed after the checkpoint marks the token instead of publishing it. *)
InstallUnlessCancelledSince(r) ==
  \/ /\ epoch = checkpoint[r]
     /\ Install(r)
  \/ /\ epoch # checkpoint[r]
     /\ token' = [token EXCEPT ![r] = TRUE]
     /\ UNCHANGED <<current, generation, epoch, checkpoint, installed>>

(* Mutant: a cancel that finds the slot empty leaves no trace. *)
CancelWithoutEpoch ==
  /\ token' = [r \in Req |-> token[r] \/ r = current.req]
  /\ UNCHANGED <<current, generation, epoch, checkpoint, installed>>

(* CurrentRequest::cancel. *)
CancelCurrent ==
  /\ epoch' = epoch + 1
  /\ token' = [r \in Req |-> token[r] \/ r = current.req]
  /\ UNCHANGED <<current, generation, checkpoint, installed>>

(* Mutant: the guard clears the slot whoever published last. *)
DropAnyGuard(r) ==
  /\ current' = EmptySlot
  /\ installed' = [installed EXCEPT ![r] = 0]
  /\ UNCHANGED <<token, generation, epoch, checkpoint>>

(* CurrentRequestGuard::drop: clear the slot only while it is still r's. *)
DropCurrentGuard(r) ==
  /\ current' = IF current.gen = installed[r] THEN EmptySlot ELSE current
  /\ installed' = [installed EXCEPT ![r] = 0]
  /\ UNCHANGED <<token, generation, epoch, checkpoint>>

(* r's task ends: its token and its checkpoint go with it. *)
DropToken(r) ==
  /\ token' = [token EXCEPT ![r] = FALSE]
  /\ checkpoint' = [checkpoint EXCEPT ![r] = 0]
  /\ UNCHANGED <<current, generation, epoch, installed>>

(* The watch on r's caller sees its bus connection disappear. *)
CancelOwnToken(r) ==
  /\ token' = [token EXCEPT ![r] = TRUE]
  /\ UNCHANGED <<current, generation, epoch, checkpoint, installed>>
=============================================================================
