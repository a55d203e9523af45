----------------------------- MODULE BlockStore -----------------------------
(***************************************************************************)
(* What a host may assume of the device while it downloads whole, aligned  *)
(* blocks: a store of blocks and at most one job.  A job is carried out    *)
(* once, after it was synchronised (a GETSTATUS was dispatched; whether    *)
(* the host read it is not said here), with the contents the host sent,    *)
(* and touches no block outside the flash page of its target.              *)
(***************************************************************************)
EXTENDS Naturals

CONSTANTS
  Block,     \* the blocks of the store
  Content,   \* what a block may hold
  Blank,     \* the content of an erased block
  PageMates, \* for every block, the blocks erased together with it
  NoJob,
  Unknown    \* a block in the middle of its update

VARIABLES store, job

svars == <<store, job>>

Stages == {"submitted", "synced", "started"}
Jobs == [block : Block, content : Content, stage : Stages]

StoreTypeOK == /\ store \in [Block -> Content \cup {Unknown}]
               /\ job \in Jobs \cup {NoJob}

Started == job # NoJob /\ job.stage = "started"
Synced  == job # NoJob /\ job.stage = "synced"

(* The store with the page of the target made blank, if the target is not. *)
Cleared == [b \in Block |-> IF /\ store[job.block] # Blank
                               /\ b \in PageMates[job.block]
                              THEN Blank ELSE store[b]]

Init == store \in [Block -> Content] /\ job = NoJob

Submit == /\ ~Started
          /\ job' \in [block : Block, content : Content, stage : {"submitted"}]
          /\ UNCHANGED store

Sync == /\ job # NoJob /\ job.stage = "submitted"
        /\ job' = [job EXCEPT !.stage = "synced"]
        /\ UNCHANGED store

Forget == ~Started /\ job' = NoJob /\ UNCHANGED store

Begin == /\ Synced
         /\ store' = [Cleared EXCEPT ![job.block] = Unknown]
         /\ job' = [job EXCEPT !.stage = "started"]

Commit == /\ Started
          /\ store' = [store EXCEPT ![job.block] = job.content]
          /\ job' = NoJob

(* A job that only blanks its target needs no second step.                 *)
Clear == Synced /\ job.content = Blank /\ store' = Cleared /\ job' = NoJob

Next == Submit \/ Sync \/ Forget \/ Begin \/ Commit \/ Clear

Spec == Init /\ [][Next]_svars

(* A started job is finished.                                              *)
JobsEnd == WF_svars(Commit)
=============================================================================
