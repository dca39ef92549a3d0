----------------------------- MODULE Web3Client -----------------------------
(***************************************************************************)
(* The blockchain service's transaction sender, backend/blockchain/        *)
(* web3_client.py: every request thread signs with the one service         *)
(* account, so the threads share a locally tracked nonce per chain, under  *)
(* that chain's lock, and the waits for receipts share one semaphore and   *)
(* one worker pool across the chains.                                      *)
(*                                                                         *)
(* A job is one call of send_transaction (the request waits for the        *)
(* receipt) or of send_transaction_nowait (a pool worker waits).  The      *)
(* chain's node is external: it accepts or rejects a signed transaction,   *)
(* mines accepted ones in nonce order, may drop one, and answers           *)
(* get_transaction_count from its pending state, which a provider that     *)
(* balances over several nodes may report late.  Gas, fees                 *)
(* and the receipt's status, which only picks a log line, are left out.    *)
(***************************************************************************)
EXTENDS Integers, FiniteSets

CONSTANTS
  Chains,        \* configured chains
  Jobs,          \* calls of send_transaction and send_transaction_nowait
  NoJob,
  ChainOf,       \* the chain each job sends to
  Blocking,      \* jobs of send_transaction
  Permits,       \* _receipt_semaphore (5 in the code)
  PoolWorkers,   \* workers of _receipt_pool (10 in the code)
  AccurateView,  \* chains whose provider is one node that answers without delay
  Drops,         \* chains whose node may evict an accepted transaction
  MaxNonce,      \* bound: the largest nonce the node reports
  MaxCrashes     \* bound: restarts of the service

ASSUME Web3Assumption ==
  /\ NoJob \notin Jobs
  /\ ChainOf \in [Jobs -> Chains]
  /\ Blocking \subseteq Jobs
  /\ Permits \in Nat \ {0}
  /\ PoolWorkers \in Nat \ {0}
  /\ AccurateView \subseteq Chains
  /\ Drops \subseteq Chains
  /\ MaxNonce \in Nat
  /\ MaxCrashes \in Nat

VARIABLES
  localNonce,  \* chain.local_nonce
  holder,      \* the job inside chain.nonce_lock
  pc,          \* where each job is
  nonceOf,     \* the nonce a job took
  tx,          \* what became of a job's transaction on the network
  confirmed,   \* nonces the chain has used up
  crashes,
  current      \* history: jobs that took a nonce since local_nonce was forgotten

vars == <<localNonce, holder, pc, nonceOf, tx, confirmed, crashes, current>>

None == -1

Running == {"chosen", "queued", "await", "waiting"}
Done == {"confirmed", "timedout", "failed", "lost"}

Init ==
  /\ localNonce = [c \in Chains |-> None]
  /\ holder = [c \in Chains |-> NoJob]
  /\ pc = [j \in Jobs |-> "idle"]
  /\ nonceOf = [j \in Jobs |-> None]
  /\ tx = [j \in Jobs |-> "unsent"]
  /\ confirmed \in [Chains -> {0}]
  /\ crashes = 0
  /\ current = {}

-----------------------------------------------------------------------------
(* The node.                                                               *)

InPool(c, n) == \E j \in Jobs : ChainOf[j] = c /\ tx[j] = "pool" /\ nonceOf[j] = n

\* The nonce after the executable pending transactions.
IsPendingCount(c, n) ==
  /\ n >= confirmed[c]
  /\ ~InPool(c, n)
  /\ \A k \in confirmed[c] .. (n - 1) : InPool(c, k)

Reported(c, n) == IF c \in AccurateView THEN IsPendingCount(c, n)
                  ELSE \E m \in n .. MaxNonce : IsPendingCount(c, m)

\* A node that is up to date rejects a used nonce ("nonce too low") and a
\* nonce it holds a transaction for: the priority fee is the same for all,
\* so none is a valid replacement.
Acceptable(j) ==
  ChainOf[j] \in AccurateView => /\ nonceOf[j] >= confirmed[ChainOf[j]]
                                 /\ ~InPool(ChainOf[j], nonceOf[j])

Mine(j) ==
  LET c == ChainOf[j] IN
  /\ tx[j] = "pool"
  /\ nonceOf[j] = confirmed[c]
  /\ confirmed' = [confirmed EXCEPT ![c] = @ + 1]
  /\ tx' = [k \in Jobs |->
              IF k = j THEN "mined"
              ELSE IF tx[k] = "pool" /\ ChainOf[k] = c /\ nonceOf[k] = nonceOf[j]
                   THEN "gone" ELSE tx[k]]
  /\ UNCHANGED <<localNonce, holder, pc, nonceOf, crashes, current>>

Drop(j) ==
  /\ ChainOf[j] \in Drops
  /\ tx[j] = "pool"
  /\ tx' = [tx EXCEPT ![j] = "gone"]
  /\ UNCHANGED <<localNonce, holder, pc, nonceOf, confirmed, crashes, current>>

-----------------------------------------------------------------------------
(* _build_and_submit: the body of the with block.                          *)

nextNonce_NetworkOnly(c, network) == network
nextNonce_NeverFetched(c, network) ==
  IF localNonce[c] # None /\ network > localNonce[c] THEN network ELSE localNonce[c]
nextNonce(c, network) ==
  IF localNonce[c] = None \/ network > localNonce[c] THEN network ELSE localNonce[c]

\* Enter the lock, ask the node, take a nonce and advance the local one.
TakeNonce(j) ==
  LET c == ChainOf[j] IN
  /\ pc[j] = "idle"
  /\ holder[c] = NoJob
  /\ \E network \in 0 .. MaxNonce :
       /\ Reported(c, network)
       /\ nonceOf' = [nonceOf EXCEPT ![j] = nextNonce(c, network)]
       /\ localNonce' = [localNonce EXCEPT ![c] = nextNonce(c, network) + 1]
  /\ holder' = [holder EXCEPT ![c] = j]
  /\ pc' = [pc EXCEPT ![j] = "chosen"]
  /\ current' = current \cup {j}
  /\ UNCHANGED <<tx, confirmed, crashes>>

\* get_transaction_count raises: outside the try, nothing was taken.
CountFails(j) ==
  /\ pc[j] = "idle"
  /\ holder[ChainOf[j]] = NoJob
  /\ pc' = [pc EXCEPT ![j] = "failed"]
  /\ UNCHANGED <<localNonce, holder, nonceOf, tx, confirmed, crashes, current>>

Forget_Kept(c) == UNCHANGED localNonce /\ current' = {j \in current : ChainOf[j] # c}
Forget(c) ==
  /\ localNonce' = [localNonce EXCEPT ![c] = None]
  /\ current' = {j \in current : ChainOf[j] # c}

\* The node took the transaction and the hash came back: leave the lock.
Submit(j) ==
  /\ pc[j] = "chosen"
  /\ Acceptable(j)
  /\ tx' = [tx EXCEPT ![j] = "pool"]
  /\ holder' = [holder EXCEPT ![ChainOf[j]] = NoJob]
  /\ pc' = [pc EXCEPT ![j] = IF j \in Blocking THEN "await" ELSE "queued"]
  /\ UNCHANGED <<localNonce, nonceOf, confirmed, crashes, current>>

\* Gas estimation, signing or sending raised.  When the answer to
\* send_raw_transaction is what was lost, the node has the transaction.
SubmitFails(j) ==
  /\ pc[j] = "chosen"
  /\ \/ UNCHANGED tx
     \/ Acceptable(j) /\ tx' = [tx EXCEPT ![j] = "pool"]
  /\ Forget(ChainOf[j])
  /\ holder' = [holder EXCEPT ![ChainOf[j]] = NoJob]
  /\ pc' = [pc EXCEPT ![j] = "failed"]
  /\ UNCHANGED <<nonceOf, confirmed, crashes>>

-----------------------------------------------------------------------------
(* _await_receipt.                                                         *)

busyWorkers == {j \in Jobs \ Blocking : pc[j] \in {"await", "waiting"}}

permitsTaken_LeakOnError == {j \in Jobs : pc[j] \in {"waiting", "timedout"}}
permitsTaken == {j \in Jobs : pc[j] = "waiting"}

\* A worker of _receipt_pool picks up a wait that was submitted to it.
StartWait(j) ==
  /\ pc[j] = "queued"
  /\ Cardinality(busyWorkers) < PoolWorkers
  /\ pc' = [pc EXCEPT ![j] = "await"]
  /\ UNCHANGED <<localNonce, holder, nonceOf, tx, confirmed, crashes, current>>

AcquirePermit(j) ==
  /\ pc[j] = "await"
  /\ Cardinality(permitsTaken) < Permits
  /\ pc' = [pc EXCEPT ![j] = "waiting"]
  /\ UNCHANGED <<localNonce, holder, nonceOf, tx, confirmed, crashes, current>>

ReceiptFound(j) ==
  /\ pc[j] = "waiting"
  /\ tx[j] = "mined"
  /\ pc' = [pc EXCEPT ![j] = "confirmed"]
  /\ UNCHANGED <<localNonce, holder, nonceOf, tx, confirmed, crashes, current>>

\* The wait timed out, or asking for the receipt failed for good; answers
\* with "429" are asked again, which changes nothing here.  The permit is
\* still held while the thread waits for the lock.
ReceiptFails(j) ==
  /\ pc[j] = "waiting"
  /\ holder[ChainOf[j]] = NoJob
  /\ Forget(ChainOf[j])
  /\ pc' = [pc EXCEPT ![j] = "timedout"]
  /\ UNCHANGED <<holder, nonceOf, tx, confirmed, crashes>>

\* The container restarts (restart: unless-stopped): threads, locks and the
\* local nonces are gone, the node's pool is not.
Crash ==
  /\ crashes < MaxCrashes
  /\ crashes' = crashes + 1
  /\ localNonce' = [c \in Chains |-> None]
  /\ holder' = [c \in Chains |-> NoJob]
  /\ pc' = [j \in Jobs |-> IF pc[j] \in Running THEN "lost" ELSE pc[j]]
  /\ current' = {}
  /\ UNCHANGED <<nonceOf, tx, confirmed>>

-----------------------------------------------------------------------------

JobStep(j) ==
  \/ TakeNonce(j) \/ CountFails(j) \/ Submit(j) \/ SubmitFails(j)
  \/ StartWait(j) \/ AcquirePermit(j) \/ ReceiptFound(j) \/ ReceiptFails(j)

\* Every request has been answered and every wait is over.
Finished ==
  /\ \A j \in Jobs : pc[j] \in Done
  /\ UNCHANGED vars

Next ==
  \/ \E j \in Jobs : JobStep(j) \/ Mine(j) \/ Drop(j)
  \/ Crash
  \/ Finished

Spec == Init /\ [][Next]_vars

\* A thread inside the lock is not stopped for ever: every RPC call it makes
\* has a timeout.  A receipt wait ends after 180 seconds at the latest, pool
\* workers and permits are handed on.  That requests arrive is not assumed.
ThreadFairness == \A j \in Jobs :
  /\ WF_vars(Submit(j) \/ SubmitFails(j))
  /\ WF_vars(StartWait(j))
  /\ WF_vars(AcquirePermit(j))
  /\ WF_vars(ReceiptFound(j) \/ ReceiptFails(j))

FairSpec == Spec /\ ThreadFairness

\* Chains whose one node is up to date and drops nothing.
UpToDate == AccurateView \ Drops

\* Such a chain goes on mining executable transactions; of the others nothing
\* is assumed.
LiveChainSpec ==
  FairSpec /\ \A j \in {k \in Jobs : ChainOf[k] \in UpToDate} : WF_vars(Mine(j))

-----------------------------------------------------------------------------
(* Properties.                                                             *)

TypeOK ==
  /\ localNonce \in [Chains -> (Nat \ {0}) \cup {None}]
  /\ holder \in [Chains -> Jobs \cup {NoJob}]
  /\ pc \in [Jobs -> {"idle"} \cup Running \cup Done]
  /\ nonceOf \in [Jobs -> Nat \cup {None}]
  /\ tx \in [Jobs -> {"unsent", "pool", "mined", "gone"}]
  /\ confirmed \in [Chains -> Nat]
  /\ crashes \in 0 .. MaxCrashes
  /\ current \subseteq Jobs

\* However late the provider reports pending transactions, two jobs of a
\* chain never take the same nonce unless the local nonce was forgotten in
\* between: until then the lock and the local nonce keep them apart.
UniqueWithinEpoch ==
  \A j, k \in current :
    j # k /\ ChainOf[j] = ChainOf[k] => nonceOf[j] # nonceOf[k]

\* On a chain with one up-to-date node that drops nothing, the nonce a thread
\* holds is the next one the node will execute, whatever failed, timed out or
\* was restarted before, on this or another chain: no submission is rejected
\* for its nonce and none is stuck behind a gap.
ChosenIsNext ==
  \A j \in Jobs :
    pc[j] = "chosen" /\ ChainOf[j] \in UpToDate => IsPendingCount(ChainOf[j], nonceOf[j])

\* A local nonce that has run ahead of the chain is always watched: the job
\* that took the nonce before it has not finished, and its receipt wait ends
\* only when that nonce is mined or with the local nonce forgotten.  So a
\* dropped transaction cannot make every later one wait for ever.
StallIsWatched ==
  \A c \in Chains :
    localNonce[c] # None =>
      \/ confirmed[c] >= localNonce[c]
      \/ \E j \in Jobs : /\ ChainOf[j] = c
                         /\ pc[j] \in Running
                         /\ nonceOf[j] = localNonce[c] - 1

\* A thread that has taken a nonce is done some day, whatever happens to its
\* transaction and to the other chains its permit is shared with.
EveryJobEnds == \A j \in Jobs : pc[j] = "chosen" ~> pc[j] \in Done

\* On a chain with one up-to-date node that drops nothing and that goes on,
\* every accepted transaction is mined, also when the submission's answer
\* was lost or the service restarted.
AcceptedIsMined ==
  \A j \in {k \in Jobs : ChainOf[k] \in UpToDate} : tx[j] = "pool" ~> tx[j] = "mined"
=============================================================================
