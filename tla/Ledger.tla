------------------------------- MODULE Ledger -------------------------------
(***************************************************************************)
(* What the journal files of plex_renamer.executor promise to whoever      *)
(* reads one back: undo_batch, in the process that wrote it or in a later  *)
(* one.  No process, no file system, no failures: only the entries on      *)
(* disk.  Executor is shown to implement this.                             *)
(*                                                                         *)
(*   - batches are opened one after another, each with an empty journal;   *)
(*   - only the newest batch gains entries, and at most one of them is     *)
(*     unsettled: the only file whose state the journal leaves open;       *)
(*   - an entry settles once, as verified or failed; only a verified entry *)
(*     is ever reverted, and none is forgotten;                            *)
(*   - cleanup is recorded only over a journal whose every key verified.   *)
(***************************************************************************)
EXTENDS Naturals

CONSTANTS Batch,   \* batch numbers, 1 .. n
          Key      \* the entries a plan calls for

VARIABLES st,      \* status of each entry of each journal
          ran,     \* cleanup_ran of each journal
          opened   \* batches opened so far

ledger == <<st, ran, opened>>

Init ==
  /\ st = [b \in Batch |-> [k \in Key |-> "none"]]
  /\ ran = [b \in Batch |-> FALSE]
  /\ opened = 0

Open ==
  /\ opened + 1 \in Batch
  /\ opened' = opened + 1
  /\ UNCHANGED <<st, ran>>

Set(b, k, status) == st' = [st EXCEPT ![b][k] = status]

Log(b, k) ==
  /\ b = opened
  /\ st[b][k] = "none"
  /\ \A l \in Key : st[b][l] # "pending"
  /\ Set(b, k, "pending")
  /\ UNCHANGED <<ran, opened>>

\* An entry whose pending line could not be written settles as failed at once.
Settle(b, k) ==
  /\ b = opened
  /\ \/ st[b][k] = "pending" /\ Set(b, k, "verified")
     \/ st[b][k] \in {"none", "pending"} /\ Set(b, k, "failed")
  /\ \A l \in Key \ {k} : st[b][l] # "pending"
  /\ UNCHANGED <<ran, opened>>

Commit(b) ==
  /\ b = opened
  /\ \A k \in Key : st[b][k] = "verified"
  /\ ran' = [ran EXCEPT ![b] = TRUE]
  /\ UNCHANGED <<st, opened>>

Revert(b, k) ==
  /\ st[b][k] = "verified"
  /\ Set(b, k, "reverted")
  /\ UNCHANGED <<ran, opened>>

Next ==
  \/ Open
  \/ \E b \in Batch :
       \/ Commit(b)
       \/ \E k \in Key : Log(b, k) \/ Settle(b, k) \/ Revert(b, k)

Spec == Init /\ [][Next]_ledger
=============================================================================
