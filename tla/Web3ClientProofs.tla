--------------------------- MODULE Web3ClientProofs ---------------------------
(***************************************************************************)
(* Theorems about the transaction sender, for every set of chains and      *)
(* jobs, every pool size, every view of the node and any number of         *)
(* restarts.                                                               *)
(***************************************************************************)
EXTENDS Web3Client, TLAPS

USE DEF None

-----------------------------------------------------------------------------
(* Type correctness.                                                       *)

LEMMA InitTypeOK == Init => TypeOK
<1> SUFFICES ASSUME Init PROVE TypeOK
  OBVIOUS
<1> QED
  BY Web3Assumption DEF Init, TypeOK

LEMMA NextTypeOK == TypeOK /\ [Next]_vars => TypeOK'
<1> SUFFICES ASSUME TypeOK, [Next]_vars PROVE TypeOK'
  OBVIOUS
<1> USE Web3Assumption
<1>1. ASSUME NEW j \in Jobs, TakeNonce(j) PROVE TypeOK'
  <2>1. PICK network \in 0 .. MaxNonce :
          /\ nonceOf' = [nonceOf EXCEPT ![j] = nextNonce(ChainOf[j], network)]
          /\ localNonce' = [localNonce EXCEPT ![ChainOf[j]] =
                              nextNonce(ChainOf[j], network) + 1]
    BY <1>1 DEF TakeNonce
  <2>2. ChainOf[j] \in Chains
    OBVIOUS
  <2>3. nextNonce(ChainOf[j], network) \in Nat
    BY <2>2 DEF nextNonce, TypeOK
  <2> HIDE DEF nextNonce
  <2>4. nonceOf' \in [Jobs -> Nat \cup {None}]
    BY <2>1, <2>3 DEF TypeOK
  <2>5. localNonce' \in [Chains -> (Nat \ {0}) \cup {None}]
    BY <2>1, <2>3 DEF TypeOK
  <2>6. holder' \in [Chains -> Jobs \cup {NoJob}]
    BY <1>1 DEF TakeNonce, TypeOK
  <2>7. pc' \in [Jobs -> {"idle"} \cup Running \cup Done]
    BY <1>1 DEF TakeNonce, TypeOK, Running
  <2>8. current' \subseteq Jobs
    BY <1>1 DEF TakeNonce, TypeOK
  <2> QED
    BY <1>1, <2>4, <2>5, <2>6, <2>7, <2>8 DEF TakeNonce, TypeOK
<1>2. ASSUME NEW j \in Jobs, CountFails(j) PROVE TypeOK'
  BY <1>2 DEF CountFails, TypeOK, Done
<1>3. ASSUME NEW j \in Jobs, Submit(j) PROVE TypeOK'
  BY <1>3 DEF Submit, TypeOK, Running
<1>4. ASSUME NEW j \in Jobs, SubmitFails(j) PROVE TypeOK'
  <2>1. tx' \in [Jobs -> {"unsent", "pool", "mined", "gone"}]
    BY <1>4 DEF SubmitFails, TypeOK
  <2>2. ChainOf[j] \in Chains
    OBVIOUS
  <2>3. /\ localNonce' \in [Chains -> (Nat \ {0}) \cup {None}]
        /\ current' \subseteq Jobs
    BY <1>4, <2>2 DEF SubmitFails, Forget, TypeOK
  <2>4. /\ holder' \in [Chains -> Jobs \cup {NoJob}]
        /\ pc' \in [Jobs -> {"idle"} \cup Running \cup Done]
    BY <1>4, <2>2 DEF SubmitFails, TypeOK, Done
  <2> QED
    BY <1>4, <2>1, <2>3, <2>4 DEF SubmitFails, TypeOK
<1>5. ASSUME NEW j \in Jobs, StartWait(j) PROVE TypeOK'
  BY <1>5 DEF StartWait, TypeOK, Running
<1>6. ASSUME NEW j \in Jobs, AcquirePermit(j) PROVE TypeOK'
  BY <1>6 DEF AcquirePermit, TypeOK, Running
<1>7. ASSUME NEW j \in Jobs, ReceiptFound(j) PROVE TypeOK'
  BY <1>7 DEF ReceiptFound, TypeOK, Done
<1>8. ASSUME NEW j \in Jobs, ReceiptFails(j) PROVE TypeOK'
  BY <1>8 DEF ReceiptFails, Forget, TypeOK, Done
<1>9. ASSUME NEW j \in Jobs, Mine(j) PROVE TypeOK'
  BY <1>9 DEF Mine, TypeOK
<1>10. ASSUME NEW j \in Jobs, Drop(j) PROVE TypeOK'
  BY <1>10 DEF Drop, TypeOK
<1>11. CASE Crash
  BY <1>11 DEF Crash, TypeOK, Done
<1>12. CASE UNCHANGED vars
  BY <1>12 DEF vars, TypeOK
<1> QED
  BY <1>1, <1>2, <1>3, <1>4, <1>5, <1>6, <1>7, <1>8, <1>9, <1>10, <1>11, <1>12
  DEF Next, JobStep, Finished

\* Every reachable state of the sender is well-typed.
THEOREM TypeCorrect == Spec => []TypeOK
<1> QED
  BY InitTypeOK, NextTypeOK, PTL DEF Spec

-----------------------------------------------------------------------------
(* Nonces are unique within an epoch.                                      *)

\* Every nonce taken since the local nonce was forgotten lies below it.
BelowLocal == \A j \in current :
  /\ localNonce[ChainOf[j]] # None
  /\ nonceOf[j] # None
  /\ nonceOf[j] < localNonce[ChainOf[j]]

\* A job takes one nonce in its life.
IdleTookNone == \A j \in current : pc[j] # "idle"

EpochInv == IdleTookNone /\ BelowLocal /\ UniqueWithinEpoch

LEMMA EpochStep == TypeOK /\ EpochInv /\ [Next]_vars => EpochInv'
<1> SUFFICES ASSUME TypeOK, EpochInv, [Next]_vars PROVE EpochInv'
  OBVIOUS
<1> USE Web3Assumption
\* Steps that touch no nonce and make no job idle.
<1>1. ASSUME UNCHANGED <<localNonce, nonceOf, current>>,
             \A j \in Jobs : pc'[j] = "idle" => pc[j] = "idle"
      PROVE  EpochInv'
  BY <1>1 DEF EpochInv, IdleTookNone, BelowLocal, UniqueWithinEpoch, TypeOK
\* Steps that forget the local nonce of a chain.
<1>2. ASSUME NEW c \in Chains, Forget(c), UNCHANGED nonceOf,
             \A j \in Jobs : pc'[j] = "idle" => pc[j] = "idle"
      PROVE  EpochInv'
  <2>1. \A j \in current' : j \in current /\ j \in Jobs /\ ChainOf[j] # c
    BY <1>2 DEF Forget, TypeOK
  <2>2. \A j \in current' : localNonce'[ChainOf[j]] = localNonce[ChainOf[j]]
    BY <1>2, <2>1 DEF Forget, TypeOK
  <2> QED
    BY <1>2, <2>1, <2>2 DEF EpochInv, IdleTookNone, BelowLocal, UniqueWithinEpoch
<1>3. ASSUME NEW j \in Jobs, TakeNonce(j) PROVE EpochInv'
  <2> DEFINE c == ChainOf[j]
  <2>1. PICK network \in 0 .. MaxNonce :
          /\ nonceOf' = [nonceOf EXCEPT ![j] = nextNonce(c, network)]
          /\ localNonce' = [localNonce EXCEPT ![c] = nextNonce(c, network) + 1]
    BY <1>3 DEF TakeNonce
  <2> DEFINE n == nextNonce(c, network)
  <2>2. c \in Chains /\ localNonce[c] \in Nat \cup {None}
    BY DEF TypeOK
  <2>3. n \in Nat /\ (localNonce[c] # None => localNonce[c] <= n)
    BY <2>2 DEF nextNonce
  <2> HIDE DEF n
  <2>4. nonceOf'[j] = n /\ localNonce'[c] = n + 1 /\ pc'[j] = "chosen"
    BY <1>3, <2>1, <2>2 DEF TakeNonce, TypeOK, n
  <2>5. current' = current \cup {j} /\ current \subseteq Jobs
    BY <1>3 DEF TakeNonce, TypeOK
  <2>6. ASSUME NEW k \in Jobs, k # j
        PROVE  /\ nonceOf'[k] = nonceOf[k] /\ pc'[k] = pc[k]
               /\ nonceOf[k] \in Nat \cup {None}
               /\ ChainOf[k] # c => localNonce'[ChainOf[k]] = localNonce[ChainOf[k]]
    BY <1>3, <2>1, <2>6 DEF TakeNonce, TypeOK
  <2>7. j \notin current
    BY <1>3 DEF TakeNonce, EpochInv, IdleTookNone
  <2>8. IdleTookNone'
    BY <2>4, <2>5, <2>6 DEF EpochInv, IdleTookNone
  <2>9. ASSUME NEW k \in current, ChainOf[k] = c PROVE nonceOf[k] \in Nat /\ nonceOf[k] < n
    BY <2>2, <2>3, <2>5, <2>6, <2>7, <2>9 DEF EpochInv, BelowLocal
  <2>10. BelowLocal'
    <3> SUFFICES ASSUME NEW k \in current'
                 PROVE  /\ localNonce'[ChainOf[k]] # None
                        /\ nonceOf'[k] # None
                        /\ nonceOf'[k] < localNonce'[ChainOf[k]]
      BY DEF BelowLocal
    <3>1. CASE k = j
      BY <2>3, <2>4, <3>1
    <3>2. CASE k # j /\ ChainOf[k] = c
      BY <2>3, <2>4, <2>5, <2>6, <2>9, <3>2
    <3>3. CASE k # j /\ ChainOf[k] # c
      BY <2>5, <2>6, <3>3 DEF EpochInv, BelowLocal
    <3> QED
      BY <3>1, <3>2, <3>3
  <2>11. UniqueWithinEpoch'
    <3> SUFFICES ASSUME NEW k \in current', NEW l \in current', k # l,
                        ChainOf[k] = ChainOf[l]
                 PROVE  nonceOf'[k] # nonceOf'[l]
      BY DEF UniqueWithinEpoch
    <3>1. CASE k = j
      BY <2>3, <2>4, <2>5, <2>6, <2>9, <3>1
    <3>2. CASE l = j
      BY <2>3, <2>4, <2>5, <2>6, <2>9, <3>2
    <3>3. CASE k # j /\ l # j
      BY <2>5, <2>6, <3>3 DEF EpochInv, UniqueWithinEpoch
    <3> QED
      BY <3>1, <3>2, <3>3
  <2> QED
    BY <2>8, <2>10, <2>11 DEF EpochInv
<1>4. ASSUME NEW j \in Jobs, SubmitFails(j) PROVE EpochInv'
  BY <1>2, <1>4 DEF SubmitFails, TypeOK
<1>5. ASSUME NEW j \in Jobs, ReceiptFails(j) PROVE EpochInv'
  BY <1>2, <1>5 DEF ReceiptFails, TypeOK
<1>6. CASE Crash
  BY <1>6 DEF Crash, EpochInv, IdleTookNone, BelowLocal, UniqueWithinEpoch
<1>7. ASSUME NEW j \in Jobs,
             \/ CountFails(j) \/ Submit(j) \/ StartWait(j) \/ AcquirePermit(j)
             \/ ReceiptFound(j) \/ Mine(j) \/ Drop(j)
      PROVE  EpochInv'
  BY <1>1, <1>7 DEF CountFails, Submit, StartWait, AcquirePermit, ReceiptFound, Mine, Drop,
     TypeOK
<1>8. CASE UNCHANGED vars
  BY <1>1, <1>8 DEF vars
<1> QED
  BY <1>3, <1>4, <1>5, <1>6, <1>7, <1>8 DEF Next, JobStep, Finished

\* Two jobs of a chain that take the same nonce are separated by a moment in
\* which the local nonce was forgotten, under any view the node may give.
THEOREM NoncesUnique == Spec => []UniqueWithinEpoch
<1>1. Init => EpochInv
  BY DEF Init, EpochInv, IdleTookNone, BelowLocal, UniqueWithinEpoch
<1>2. EpochInv => UniqueWithinEpoch
  BY DEF EpochInv
<1> QED
  BY <1>1, <1>2, EpochStep, TypeCorrect, PTL DEF Spec

-----------------------------------------------------------------------------
(* A local nonce ahead of the chain is watched.                            *)

\* A mined transaction's nonce is used up.
MinedIsUsed == \A j \in Jobs :
  tx[j] = "mined" => nonceOf[j] # None /\ nonceOf[j] < confirmed[ChainOf[j]]

\* An unsent transaction's job has not been mined when it takes a nonce.
IdleIsUnsent == \A j \in Jobs : pc[j] \in {"idle", "chosen"} => tx[j] = "unsent"

WatchInv == MinedIsUsed /\ IdleIsUnsent /\ StallIsWatched

\* StallIsWatched for one chain.
Watched(c) ==
  localNonce[c] # None =>
    \/ confirmed[c] >= localNonce[c]
    \/ \E j \in Jobs : /\ ChainOf[j] = c
                       /\ pc[j] \in Running
                       /\ nonceOf[j] = localNonce[c] - 1

LEMMA WatchStep == TypeOK /\ WatchInv /\ [Next]_vars => WatchInv'
<1> SUFFICES ASSUME TypeOK, WatchInv, [Next]_vars PROVE WatchInv'
  OBVIOUS
<1> USE Web3Assumption
<1>a. StallIsWatched <=> \A c \in Chains : Watched(c)
  BY DEF StallIsWatched, Watched
<1>b. StallIsWatched' <=> \A c \in Chains : Watched(c)'
  BY DEF StallIsWatched, Watched
<1>c. \A c \in Chains : Watched(c)
  BY <1>a DEF WatchInv
<1>1. ASSUME NEW j \in Jobs, TakeNonce(j) PROVE WatchInv'
  <2> DEFINE c == ChainOf[j]
  <2>1. PICK network \in 0 .. MaxNonce :
          /\ nonceOf' = [nonceOf EXCEPT ![j] = nextNonce(c, network)]
          /\ localNonce' = [localNonce EXCEPT ![c] = nextNonce(c, network) + 1]
    BY <1>1 DEF TakeNonce
  <2> DEFINE n == nextNonce(c, network)
  <2>2. c \in Chains /\ localNonce[c] \in Nat \cup {None}
    BY DEF TypeOK
  <2>3. n \in Nat
    BY <2>2 DEF nextNonce
  <2> HIDE DEF n
  <2>4. /\ nonceOf'[j] = n /\ localNonce'[c] = n + 1 /\ pc'[j] = "chosen"
        /\ tx' = tx /\ confirmed' = confirmed /\ tx[j] = "unsent"
    BY <1>1, <2>1, <2>2 DEF TakeNonce, TypeOK, n, WatchInv, IdleIsUnsent
  <2>5. ASSUME NEW k \in Jobs, k # j
        PROVE  nonceOf'[k] = nonceOf[k] /\ pc'[k] = pc[k]
    BY <1>1, <2>1, <2>5 DEF TakeNonce, TypeOK
  <2>6. MinedIsUsed' /\ IdleIsUnsent'
    BY <2>4, <2>5 DEF WatchInv, MinedIsUsed, IdleIsUnsent
  <2>7. ASSUME NEW d \in Chains PROVE Watched(d)'
    <3>1. CASE d = c
      BY <2>3, <2>4, <3>1 DEF Watched, Running
    <3>2. CASE d # c
      <4>1. localNonce'[d] = localNonce[d]
        BY <2>1, <2>2, <3>2 DEF TypeOK
      <4>2. \A k \in Jobs : ChainOf[k] = d => nonceOf'[k] = nonceOf[k] /\ pc'[k] = pc[k]
        BY <2>5, <3>2
      <4> QED
        BY <1>c, <2>4, <4>1, <4>2 DEF Watched
    <3> QED
      BY <3>1, <3>2
  <2> QED
    BY <1>b, <2>6, <2>7 DEF WatchInv
\* Steps of the running jobs that keep them running.
<1>2. ASSUME UNCHANGED <<localNonce, nonceOf, confirmed>>,
             \A k \in Jobs : pc[k] \in Running => pc'[k] \in Running,
             \A k \in Jobs : pc'[k] \in {"idle", "chosen"} => pc'[k] = pc[k] /\ tx'[k] = tx[k],
             \A k \in Jobs : tx'[k] = "mined" => tx[k] = "mined"
      PROVE  WatchInv'
  <2>1. MinedIsUsed' /\ IdleIsUnsent'
    BY <1>2 DEF WatchInv, MinedIsUsed, IdleIsUnsent
  <2>2. \A c \in Chains : Watched(c)'
    BY <1>c, <1>2 DEF Watched
  <2> QED
    BY <1>b, <2>1, <2>2 DEF WatchInv
\* Steps that end a job and forget the local nonce of its chain.
<1>3. ASSUME NEW j \in Jobs, Forget(ChainOf[j]), UNCHANGED <<nonceOf, confirmed>>,
             pc[j] \in Running, pc'[j] \in Done,
             \A k \in Jobs : k # j => pc'[k] = pc[k] /\ tx'[k] = tx[k],
             tx'[j] = "mined" => tx[j] = "mined"
      PROVE  WatchInv'
  <2>1. MinedIsUsed' /\ IdleIsUnsent'
    BY <1>3 DEF WatchInv, MinedIsUsed, IdleIsUnsent, Done
  <2>2. ASSUME NEW c \in Chains PROVE Watched(c)'
    <3>1. CASE c = ChainOf[j]
      BY <1>3, <3>1 DEF Watched, Forget, TypeOK
    <3>2. CASE c # ChainOf[j]
      <4>1. localNonce'[c] = localNonce[c]
        BY <1>3, <3>2 DEF Forget, TypeOK
      <4>2. \A k \in Jobs : ChainOf[k] = c => pc'[k] = pc[k] /\ nonceOf'[k] = nonceOf[k]
        BY <1>3, <3>2
      <4> QED
        BY <1>c, <1>3, <4>1, <4>2 DEF Watched
    <3> QED
      BY <3>1, <3>2
  <2> QED
    BY <1>b, <2>1, <2>2 DEF WatchInv
<1>4. ASSUME NEW j \in Jobs, CountFails(j) PROVE WatchInv'
  BY <1>2, <1>4 DEF CountFails, TypeOK, Running
<1>5. ASSUME NEW j \in Jobs, Submit(j) PROVE WatchInv'
  BY <1>2, <1>5 DEF Submit, TypeOK, Running
<1>6. ASSUME NEW j \in Jobs, StartWait(j) \/ AcquirePermit(j) \/ Drop(j) PROVE WatchInv'
  <2>1. CASE StartWait(j)
    BY <1>2, <2>1 DEF StartWait, TypeOK, Running
  <2>2. CASE AcquirePermit(j)
    BY <1>2, <2>2 DEF AcquirePermit, TypeOK, Running
  <2>3. CASE Drop(j)
    BY <1>2, <2>3 DEF Drop, TypeOK, WatchInv, IdleIsUnsent
  <2> QED
    BY <1>6, <2>1, <2>2, <2>3
<1>7. ASSUME NEW j \in Jobs, SubmitFails(j) PROVE WatchInv'
  BY <1>3, <1>7 DEF SubmitFails, TypeOK, Running, Done
<1>8. ASSUME NEW j \in Jobs, ReceiptFails(j) PROVE WatchInv'
  BY <1>3, <1>8 DEF ReceiptFails, TypeOK, Running, Done
<1>9. ASSUME NEW j \in Jobs, ReceiptFound(j) PROVE WatchInv'
  <2>1. /\ UNCHANGED <<localNonce, nonceOf, confirmed, tx>> /\ tx[j] = "mined"
        /\ pc' = [pc EXCEPT ![j] = "confirmed"]
    BY <1>9 DEF ReceiptFound
  <2>2. MinedIsUsed' /\ IdleIsUnsent'
    BY <2>1 DEF WatchInv, MinedIsUsed, IdleIsUnsent, TypeOK
  <2>3. ASSUME NEW c \in Chains PROVE Watched(c)'
    <3>1. /\ nonceOf[j] \in Nat /\ nonceOf[j] < confirmed[ChainOf[j]]
          /\ confirmed[c] \in Nat /\ localNonce[c] \in Nat \cup {None}
      BY <2>1 DEF WatchInv, MinedIsUsed, TypeOK
    <3>2. CASE ChainOf[j] = c /\ nonceOf[j] = localNonce[c] - 1
      BY <2>1, <3>1, <3>2 DEF Watched
    <3>3. CASE ~(ChainOf[j] = c /\ nonceOf[j] = localNonce[c] - 1)
      <4>1. \A k \in Jobs : k # j => pc'[k] = pc[k]
        BY <2>1 DEF TypeOK
      <4> QED
        BY <1>c, <2>1, <3>3, <4>1 DEF Watched
    <3> QED
      BY <3>2, <3>3
  <2> QED
    BY <1>b, <2>2, <2>3 DEF WatchInv
<1>10. ASSUME NEW j \in Jobs, Mine(j) PROVE WatchInv'
  <2> DEFINE c == ChainOf[j]
  <2>1. /\ UNCHANGED <<localNonce, nonceOf, pc>>
        /\ nonceOf[j] = confirmed[c] /\ tx[j] = "pool"
        /\ confirmed' = [confirmed EXCEPT ![c] = @ + 1]
    BY <1>10 DEF Mine
  <2>a. ASSUME NEW k \in Jobs, tx'[k] = "mined", k # j PROVE tx[k] = "mined"
    BY <1>10, <2>a DEF Mine, TypeOK
  <2>b. ASSUME NEW k \in Jobs, tx[k] = "unsent" PROVE tx'[k] = "unsent"
    BY <1>10, <2>b DEF Mine, TypeOK
  <2>2. \A d \in Chains : confirmed[d] \in Nat /\ confirmed'[d] \in Nat
                          /\ confirmed'[d] >= confirmed[d]
    BY <2>1 DEF TypeOK
  <2>3. confirmed'[c] = confirmed[c] + 1 /\ nonceOf[j] \in Nat
    BY <2>1, <2>2 DEF TypeOK
  <2>4. \A k \in Jobs : nonceOf[k] \in Nat \cup {None} /\ ChainOf[k] \in Chains
    BY DEF TypeOK
  <2>5. MinedIsUsed'
    <3> SUFFICES ASSUME NEW k \in Jobs, tx'[k] = "mined"
                 PROVE  nonceOf'[k] # None /\ nonceOf'[k] < confirmed'[ChainOf[k]]
      BY DEF MinedIsUsed
    <3>1. CASE k = j
      BY <2>1, <2>2, <2>3, <3>1
    <3>2. CASE tx[k] = "mined"
      BY <2>1, <2>2, <2>4, <3>2 DEF WatchInv, MinedIsUsed
    <3> QED
      BY <2>a, <3>1, <3>2
  <2>6. IdleIsUnsent'
    BY <2>1, <2>b DEF WatchInv, IdleIsUnsent
  <2>7. ASSUME NEW d \in Chains PROVE Watched(d)'
    <3>1. localNonce[d] \in Nat \cup {None}
      BY DEF TypeOK
    <3> QED
      BY <1>c, <2>1, <2>2, <3>1 DEF Watched
  <2> QED
    BY <1>b, <2>5, <2>6, <2>7 DEF WatchInv
<1>11. CASE Crash
  <2>1. MinedIsUsed' /\ IdleIsUnsent'
    <3>1. UNCHANGED <<nonceOf, tx, confirmed>>
      BY <1>11 DEF Crash
    <3>2. \A j \in Jobs : pc'[j] \in {"idle", "chosen"} => pc[j] \in {"idle", "chosen"}
      BY <1>11 DEF Crash, Running
    <3> QED
      BY <3>1, <3>2 DEF WatchInv, MinedIsUsed, IdleIsUnsent
  <2>2. ASSUME NEW c \in Chains PROVE Watched(c)'
    <3>1. localNonce'[c] = None
      BY <1>11 DEF Crash
    <3> QED
      BY <3>1 DEF Watched
  <2> QED
    BY <1>b, <2>1, <2>2 DEF WatchInv
<1>12. CASE UNCHANGED vars
  BY <1>2, <1>12 DEF vars
<1> QED
  BY <1>1, <1>4, <1>5, <1>6, <1>7, <1>8, <1>9, <1>10, <1>11, <1>12
  DEF Next, JobStep, Finished

\* A stalled chain of nonces always has a receipt wait that will release it.
THEOREM StallsAreWatched == Spec => []StallIsWatched
<1>1. Init => WatchInv
  BY DEF Init, WatchInv, MinedIsUsed, IdleIsUnsent, StallIsWatched
<1>2. WatchInv => StallIsWatched
  BY DEF WatchInv
<1> QED
  BY <1>1, <1>2, WatchStep, TypeCorrect, PTL DEF Spec

-----------------------------------------------------------------------------
(* On a chain with one reliable node the nonce taken is the next one.      *)

LockHeld(c) == \A j \in Jobs : ChainOf[j] = c /\ pc[j] = "chosen" => holder[c] = j

\* The transaction of a job before its submission is not on the network.
SentAfterLock(c) == \A j \in Jobs :
  ChainOf[j] = c /\ pc[j] \in {"idle", "chosen"} => tx[j] = "unsent"

\* The pool of a chain is a block of nonces that starts at the confirmed count.
PoolAbove(c) == \A j \in Jobs :
  ChainOf[j] = c /\ tx[j] = "pool" => nonceOf[j] >= confirmed[c]
PoolDense(c) == \A j \in Jobs :
  ChainOf[j] = c /\ tx[j] = "pool" => \A k \in confirmed[c] .. nonceOf[j] : InPool(c, k)

\* Outside the lock the local nonce, if there is one, follows that block;
\* inside it the taken nonce does.
LocalIsNext(c) ==
  holder[c] = NoJob /\ localNonce[c] # None => IsPendingCount(c, localNonce[c])
TakenIsNext(c) == \A j \in Jobs : ChainOf[j] = c /\ pc[j] = "chosen" =>
  /\ IsPendingCount(c, nonceOf[j])
  /\ localNonce[c] = nonceOf[j] + 1

NetInv(c) ==
  /\ LockHeld(c)
  /\ SentAfterLock(c)
  /\ PoolAbove(c)
  /\ PoolDense(c)
  /\ LocalIsNext(c)
  /\ TakenIsNext(c)

LEMMA PendingCountUnique ==
  ASSUME TypeOK, NEW c \in Chains, NEW m \in Nat, NEW n \in Nat,
         IsPendingCount(c, m), IsPendingCount(c, n)
  PROVE  m = n
<1>1. confirmed[c] \in Nat
  BY DEF TypeOK
<1>2. ~(m < n)
  BY <1>1 DEF IsPendingCount
<1>3. ~(n < m)
  BY <1>1 DEF IsPendingCount
<1> QED
  BY <1>2, <1>3

\* Nothing lies behind the pending count.
LEMMA NothingBeyond ==
  ASSUME TypeOK, NEW c \in Chains, PoolDense(c), NEW n \in Nat, IsPendingCount(c, n),
         NEW m \in Nat, m >= n
  PROVE  ~InPool(c, m)
<1> SUFFICES ASSUME NEW j \in Jobs, ChainOf[j] = c, tx[j] = "pool", nonceOf[j] = m
             PROVE  FALSE
  BY DEF InPool
<1>1. confirmed[c] \in Nat /\ n \in confirmed[c] .. m
  BY DEF IsPendingCount, TypeOK
<1>2. InPool(c, n)
  BY <1>1 DEF PoolDense
<1> QED
  BY <1>2 DEF IsPendingCount

\* Steps that leave a chain's pool and confirmed count alone.
LEMMA SamePool ==
  ASSUME NEW c, confirmed'[c] = confirmed[c],
         \A k \in Jobs : ChainOf[k] = c => (tx'[k] = "pool" <=> tx[k] = "pool"),
         \A k \in Jobs : ChainOf[k] = c /\ tx[k] = "pool" => nonceOf'[k] = nonceOf[k]
  PROVE  /\ \A n : IsPendingCount(c, n)' <=> IsPendingCount(c, n)
         /\ PoolAbove(c) => PoolAbove(c)'
         /\ PoolDense(c) => PoolDense(c)'
<1>1. \A n : InPool(c, n)' <=> InPool(c, n)
  BY DEF InPool
<1>2. \A n : IsPendingCount(c, n)' <=> IsPendingCount(c, n)
  BY <1>1 DEF IsPendingCount
<1>3. PoolAbove(c) => PoolAbove(c)'
  BY DEF PoolAbove
<1>4. PoolDense(c) => PoolDense(c)'
  BY <1>1 DEF PoolDense
<1> QED
  BY <1>2, <1>3, <1>4

\* The transaction of the job inside the lock enters the pool.
LEMMA PoolGrows ==
  ASSUME TypeOK, NEW c \in Chains, PoolAbove(c), PoolDense(c),
         NEW j \in Jobs, ChainOf[j] = c, tx' = [tx EXCEPT ![j] = "pool"],
         UNCHANGED <<nonceOf, confirmed>>, nonceOf[j] \in Nat,
         IsPendingCount(c, nonceOf[j])
  PROVE  /\ PoolAbove(c)' /\ PoolDense(c)'
         /\ IsPendingCount(c, nonceOf[j] + 1)'
<1> DEFINE n == nonceOf[j]
<1>1. confirmed[c] \in Nat /\ confirmed[c] <= n
  BY DEF TypeOK, IsPendingCount
<1>2. \A k \in Jobs : tx'[k] = "pool" <=> (k = j \/ tx[k] = "pool")
  BY DEF TypeOK
<1>3. \A m : InPool(c, m)' <=> (InPool(c, m) \/ m = n)
  BY <1>2 DEF InPool
<1>4. PoolAbove(c)'
  BY <1>1, <1>2 DEF PoolAbove
<1>5. PoolDense(c)'
  <2> SUFFICES ASSUME NEW k \in Jobs, ChainOf[k] = c, tx'[k] = "pool",
                      NEW m \in confirmed[c] .. nonceOf[k]
               PROVE  InPool(c, m)'
    BY DEF PoolDense
  <2>1. CASE k = j
    <3>1. m \in confirmed[c] .. (n - 1) \/ m = n
      BY <1>1, <2>1
    <3> QED
      BY <1>3, <2>1, <3>1 DEF IsPendingCount
  <2>2. CASE k # j
    BY <1>2, <1>3, <2>2 DEF PoolDense
  <2> QED
    BY <2>1, <2>2
<1>6. IsPendingCount(c, n + 1)'
  <2>1. ~InPool(c, n + 1)'
    BY <1>1, <1>3, NothingBeyond
  <2>2. \A k \in confirmed[c] .. n : InPool(c, k)'
    <3>1. \A k \in confirmed[c] .. n : k \in confirmed[c] .. (n - 1) \/ k = n
      BY <1>1
    <3> QED
      BY <1>3, <3>1 DEF IsPendingCount
  <2>3. n + 1 >= confirmed[c] /\ (n + 1) - 1 = n
    BY <1>1
  <2> QED
    BY <2>1, <2>2, <2>3 DEF IsPendingCount
<1> QED
  BY <1>4, <1>5, <1>6

\* Mining the first transaction of the block moves its start, not its end.
LEMMA PoolMined ==
  ASSUME TypeOK, NEW c \in Chains, PoolAbove(c), PoolDense(c),
         NEW j \in Jobs, ChainOf[j] = c, Mine(j)
  PROVE  /\ PoolAbove(c)' /\ PoolDense(c)'
         /\ \A n \in Nat : IsPendingCount(c, n) => IsPendingCount(c, n)'
<1>1. /\ tx[j] = "pool" /\ nonceOf[j] = confirmed[c] /\ nonceOf' = nonceOf
      /\ confirmed' = [confirmed EXCEPT ![c] = @ + 1]
  BY DEF Mine
<1>2. confirmed[c] \in Nat /\ confirmed'[c] = confirmed[c] + 1
  BY <1>1 DEF TypeOK
<1>3. \A k \in Jobs : ChainOf[k] = c =>
         (tx'[k] = "pool" <=> tx[k] = "pool" /\ k # j /\ nonceOf[k] # nonceOf[j])
  BY DEF Mine, TypeOK
<1>4. \A m : InPool(c, m)' <=> InPool(c, m) /\ m # confirmed[c]
  BY <1>1, <1>3 DEF InPool
<1>5. \A k \in Jobs : nonceOf[k] \in Int
  BY DEF TypeOK
<1>6. PoolAbove(c)'
  BY <1>1, <1>2, <1>3, <1>5 DEF PoolAbove
<1>7. PoolDense(c)'
  <2> SUFFICES ASSUME NEW k \in Jobs, ChainOf[k] = c, tx'[k] = "pool",
                      NEW m \in confirmed'[c] .. nonceOf[k]
               PROVE  InPool(c, m)'
    BY <1>1 DEF PoolDense
  <2>1. m \in confirmed[c] .. nonceOf[k] /\ m # confirmed[c]
    BY <1>2, <1>5
  <2> QED
    BY <1>3, <1>4, <2>1 DEF PoolDense
<1>8. ASSUME NEW n \in Nat, IsPendingCount(c, n)
      PROVE  IsPendingCount(c, n)'
  <2>1. n >= confirmed[c] /\ ~InPool(c, n) /\ \A k \in confirmed[c] .. (n - 1) : InPool(c, k)
    BY <1>8 DEF IsPendingCount
  <2>2. ~InPool(c, n)'
    BY <1>4, <2>1
  <2>3. InPool(c, confirmed[c])
    BY <1>1 DEF InPool
  <2>4. n >= confirmed'[c]
    BY <1>2, <2>1, <2>3
  <2>5. \A k \in confirmed'[c] .. (n - 1) : InPool(c, k)'
    <3> SUFFICES ASSUME NEW k \in confirmed'[c] .. (n - 1) PROVE InPool(c, k)'
      OBVIOUS
    <3>1. k \in confirmed[c] .. (n - 1) /\ k # confirmed[c]
      BY <1>2
    <3> QED
      BY <1>4, <2>1, <3>1
  <2> QED
    BY <2>2, <2>4, <2>5 DEF IsPendingCount
<1> QED
  BY <1>6, <1>7, <1>8

\* Steps that leave a chain's node, nonces and lock alone and take none of its
\* jobs into the lock: those of the other chains' jobs among them.
LEMMA NetKept ==
  ASSUME NEW c, NetInv(c), holder'[c] = holder[c], localNonce'[c] = localNonce[c],
         confirmed'[c] = confirmed[c],
         \A k \in Jobs : ChainOf[k] = c => nonceOf'[k] = nonceOf[k] /\ tx'[k] = tx[k],
         \A k \in Jobs : ChainOf[k] = c /\ pc'[k] \in {"idle", "chosen"} => pc'[k] = pc[k]
  PROVE  NetInv(c)'
<1>1. /\ \A n : IsPendingCount(c, n)' <=> IsPendingCount(c, n)
      /\ PoolAbove(c)' /\ PoolDense(c)'
  BY SamePool DEF NetInv
<1>2. LockHeld(c)' /\ SentAfterLock(c)'
  BY DEF NetInv, LockHeld, SentAfterLock
<1>3. LocalIsNext(c)'
  BY <1>1 DEF NetInv, LocalIsNext
<1>4. TakenIsNext(c)'
  BY <1>1 DEF NetInv, TakenIsNext
<1> QED
  BY <1>1, <1>2, <1>3, <1>4 DEF NetInv

\* A step of a job on another chain.
LEMMA NetElsewhere ==
  ASSUME TypeOK, NEW c \in Chains, NetInv(c), NEW j \in Jobs, ChainOf[j] # c,
         JobStep(j) \/ Mine(j) \/ Drop(j)
  PROVE  NetInv(c)'
<1> USE Web3Assumption
<1>1. holder'[c] = holder[c] /\ localNonce'[c] = localNonce[c]
  BY DEF JobStep, TakeNonce, CountFails, Submit, SubmitFails, StartWait, AcquirePermit,
     ReceiptFound, ReceiptFails, Forget, Mine, Drop, TypeOK
<1>2. confirmed'[c] = confirmed[c]
  BY DEF JobStep, TakeNonce, CountFails, Submit, SubmitFails, StartWait, AcquirePermit,
     ReceiptFound, ReceiptFails, Mine, Drop, TypeOK
<1>3. ASSUME NEW k \in Jobs, ChainOf[k] = c
      PROVE  nonceOf'[k] = nonceOf[k] /\ pc'[k] = pc[k]
  BY <1>3 DEF JobStep, TakeNonce, CountFails, Submit, SubmitFails, StartWait, AcquirePermit,
     ReceiptFound, ReceiptFails, Mine, Drop, TypeOK
<1>4. ASSUME NEW k \in Jobs, ChainOf[k] = c PROVE tx'[k] = tx[k]
  BY <1>4 DEF JobStep, TakeNonce, CountFails, Submit, SubmitFails, StartWait, AcquirePermit,
     ReceiptFound, ReceiptFails, Mine, Drop, TypeOK
<1> QED
  BY <1>1, <1>2, <1>3, <1>4, NetKept

\* Entering the lock: what the node reports is what the local nonce says.
LEMMA NetTake ==
  ASSUME TypeOK, NEW c \in Chains, c \in UpToDate, NetInv(c),
         NEW j \in Jobs, ChainOf[j] = c, TakeNonce(j)
  PROVE  NetInv(c)'
<1> USE Web3Assumption
<1>1. PICK network \in 0 .. MaxNonce :
        /\ Reported(c, network)
        /\ nonceOf' = [nonceOf EXCEPT ![j] = nextNonce(c, network)]
        /\ localNonce' = [localNonce EXCEPT ![c] = nextNonce(c, network) + 1]
  BY DEF TakeNonce
<1>2. /\ pc[j] = "idle" /\ holder[c] = NoJob /\ UNCHANGED <<tx, confirmed>>
      /\ holder' = [holder EXCEPT ![c] = j]
      /\ pc' = [pc EXCEPT ![j] = "chosen"]
  BY DEF TakeNonce
<1>3. localNonce[c] \in Nat \cup {None} /\ network \in Nat
  BY DEF TypeOK
<1>4. IsPendingCount(c, network)
  BY <1>1 DEF Reported, UpToDate
<1>5. nextNonce(c, network) = network
  <2>1. CASE localNonce[c] = None
    BY <2>1 DEF nextNonce
  <2>2. CASE localNonce[c] # None
    <3>1. localNonce[c] \in Nat /\ IsPendingCount(c, localNonce[c])
      BY <1>2, <1>3, <2>2 DEF NetInv, LocalIsNext
    <3>2. localNonce[c] = network
      BY <1>3, <1>4, <3>1, PendingCountUnique
    <3> QED
      BY <3>2 DEF nextNonce
  <2> QED
    BY <2>1, <2>2
<1>6. /\ nonceOf'[j] = network /\ localNonce'[c] = network + 1
      /\ holder'[c] = j /\ pc'[j] = "chosen"
      /\ \A k \in Jobs : k # j => nonceOf'[k] = nonceOf[k] /\ pc'[k] = pc[k]
  BY <1>1, <1>2, <1>3, <1>5 DEF TypeOK
<1>7. tx[j] = "unsent"
  BY <1>2 DEF NetInv, SentAfterLock
<1>8. /\ \A n : IsPendingCount(c, n)' <=> IsPendingCount(c, n)
      /\ PoolAbove(c)' /\ PoolDense(c)'
  <2>1. \A k \in Jobs : tx[k] = "pool" => nonceOf'[k] = nonceOf[k]
    BY <1>6, <1>7
  <2> QED
    BY <1>2, <2>1, SamePool DEF NetInv
<1>9. \A k \in Jobs : ChainOf[k] = c /\ pc'[k] = "chosen" => k = j
  BY <1>2, <1>6 DEF NetInv, LockHeld
<1>10. LockHeld(c)' /\ SentAfterLock(c)'
  BY <1>2, <1>6, <1>7, <1>9 DEF NetInv, LockHeld, SentAfterLock
<1>11. LocalIsNext(c)'
  BY <1>6 DEF LocalIsNext
<1>12. TakenIsNext(c)'
  BY <1>4, <1>6, <1>8, <1>9 DEF TakenIsNext
<1> QED
  BY <1>8, <1>10, <1>11, <1>12 DEF NetInv

\* Leaving the lock, with the transaction accepted, or with an error and the
\* local nonce forgotten.
LEMMA NetLeave ==
  ASSUME TypeOK, NEW c \in Chains, NetInv(c),
         NEW j \in Jobs, ChainOf[j] = c, Submit(j) \/ SubmitFails(j)
  PROVE  NetInv(c)'
<1> USE Web3Assumption
<1>1. /\ pc[j] = "chosen" /\ UNCHANGED <<nonceOf, confirmed>>
      /\ holder' = [holder EXCEPT ![c] = NoJob]
  BY DEF Submit, SubmitFails
<1>2. /\ pc'[j] \notin {"idle", "chosen"} /\ holder'[c] = NoJob
      /\ \A k \in Jobs : k # j => pc'[k] = pc[k] /\ tx'[k] = tx[k]
  BY DEF Submit, SubmitFails, TypeOK
<1>3. /\ IsPendingCount(c, nonceOf[j]) /\ localNonce[c] = nonceOf[j] + 1
      /\ tx[j] = "unsent" /\ holder[c] = j
  BY <1>1 DEF NetInv, TakenIsNext, SentAfterLock, LockHeld
<1>4. confirmed[c] \in Nat /\ nonceOf[j] \in Nat
  BY <1>3 DEF IsPendingCount, TypeOK
<1>5. \/ tx' = [tx EXCEPT ![j] = "pool"] /\ localNonce' = localNonce
      \/ tx' = [tx EXCEPT ![j] = "pool"] /\ localNonce'[c] = None
      \/ tx' = tx /\ localNonce'[c] = None
  BY DEF Submit, SubmitFails, Forget, TypeOK
<1>6. PoolAbove(c)' /\ PoolDense(c)' /\ LocalIsNext(c)'
  <2>1. CASE tx' = [tx EXCEPT ![j] = "pool"]
    <3>1. PoolAbove(c)' /\ PoolDense(c)' /\ IsPendingCount(c, nonceOf[j] + 1)'
      BY <1>1, <1>3, <1>4, <2>1, PoolGrows DEF NetInv
    <3>2. nonceOf'[j] = nonceOf[j] /\ (localNonce'[c] = nonceOf[j] + 1 \/ localNonce'[c] = None)
      BY <1>1, <1>3, <1>5
    <3> QED
      BY <3>1, <3>2 DEF LocalIsNext
  <2>2. CASE tx' = tx /\ localNonce'[c] = None
    BY <1>1, <2>2, SamePool DEF NetInv, LocalIsNext
  <2> QED
    BY <1>5, <2>1, <2>2
<1>7. \A k \in Jobs : ChainOf[k] = c => pc'[k] # "chosen"
  BY <1>2, <1>3 DEF NetInv, LockHeld
<1>8. LockHeld(c)' /\ SentAfterLock(c)' /\ TakenIsNext(c)'
  BY <1>2, <1>7 DEF NetInv, LockHeld, SentAfterLock, TakenIsNext
<1> QED
  BY <1>6, <1>8 DEF NetInv

LEMMA NetStep ==
  ASSUME TypeOK, NEW c \in Chains, c \in UpToDate, NetInv(c), [Next]_vars
  PROVE  NetInv(c)'
<1> USE Web3Assumption
<1>1. ASSUME NEW j \in Jobs, ChainOf[j] # c, JobStep(j) \/ Mine(j) \/ Drop(j)
      PROVE  NetInv(c)'
  BY <1>1, NetElsewhere
<1>2. ASSUME NEW j \in Jobs, ChainOf[j] = c, TakeNonce(j) PROVE NetInv(c)'
  BY <1>2, NetTake
<1>3. ASSUME NEW j \in Jobs, ChainOf[j] = c, Submit(j) \/ SubmitFails(j) PROVE NetInv(c)'
  BY <1>3, NetLeave
<1>4. ASSUME NEW j \in Jobs, CountFails(j) \/ StartWait(j) \/ AcquirePermit(j) \/ ReceiptFound(j)
      PROVE  NetInv(c)'
  <2>1. /\ UNCHANGED <<localNonce, nonceOf, confirmed, tx, holder>>
        /\ \A k \in Jobs : pc'[k] \in {"idle", "chosen"} => pc'[k] = pc[k]
    BY <1>4 DEF CountFails, StartWait, AcquirePermit, ReceiptFound, TypeOK
  <2> QED
    BY <2>1, NetKept
<1>5. ASSUME NEW j \in Jobs, ChainOf[j] = c, ReceiptFails(j) PROVE NetInv(c)'
  <2>1. /\ UNCHANGED <<nonceOf, confirmed, tx, holder>> /\ holder[c] = NoJob
        /\ localNonce'[c] = None
        /\ \A k \in Jobs : pc'[k] \in {"idle", "chosen"} => pc'[k] = pc[k]
    BY <1>5 DEF ReceiptFails, Forget, TypeOK
  <2>2. PoolAbove(c)' /\ PoolDense(c)'
    BY <2>1, SamePool DEF NetInv
  <2>3. \A k \in Jobs : ChainOf[k] = c => pc[k] # "chosen"
    BY <2>1 DEF NetInv, LockHeld
  <2>4. LockHeld(c)' /\ SentAfterLock(c)' /\ TakenIsNext(c)'
    BY <2>1, <2>3 DEF NetInv, LockHeld, SentAfterLock, TakenIsNext
  <2>5. LocalIsNext(c)'
    BY <2>1 DEF LocalIsNext
  <2> QED
    BY <2>2, <2>4, <2>5 DEF NetInv
<1>6. ASSUME NEW j \in Jobs, ChainOf[j] = c, Mine(j) PROVE NetInv(c)'
  <2>1. /\ PoolAbove(c)' /\ PoolDense(c)'
        /\ \A n \in Nat : IsPendingCount(c, n) => IsPendingCount(c, n)'
    BY <1>6, PoolMined DEF NetInv
  <2>2. UNCHANGED <<localNonce, holder, pc, nonceOf>>
    BY <1>6 DEF Mine
  <2>3. \A k \in Jobs : tx[k] = "unsent" => tx'[k] = "unsent"
    BY <1>6 DEF Mine, TypeOK
  <2>4. LockHeld(c)' /\ SentAfterLock(c)'
    BY <2>2, <2>3 DEF NetInv, LockHeld, SentAfterLock
  <2>5. localNonce[c] \in Nat \cup {None} /\ confirmed[c] \in Nat
    BY DEF TypeOK
  <2>6. LocalIsNext(c)'
    BY <2>1, <2>2, <2>5 DEF NetInv, LocalIsNext
  <2>7. TakenIsNext(c)'
    <3> SUFFICES ASSUME NEW k \in Jobs, ChainOf[k] = c, pc[k] = "chosen"
                 PROVE  IsPendingCount(c, nonceOf[k])' /\ localNonce[c] = nonceOf[k] + 1
      BY <2>2 DEF TakenIsNext
    <3>1. IsPendingCount(c, nonceOf[k]) /\ localNonce[c] = nonceOf[k] + 1
      BY DEF NetInv, TakenIsNext
    <3>2. nonceOf[k] \in Nat
      BY <2>5, <3>1 DEF IsPendingCount, TypeOK
    <3> QED
      BY <2>1, <2>2, <3>1, <3>2
  <2> QED
    BY <2>1, <2>4, <2>6, <2>7 DEF NetInv
<1>7. CASE Crash
  <2>1. /\ UNCHANGED <<nonceOf, tx, confirmed>>
        /\ localNonce'[c] = None
        /\ \A k \in Jobs : pc'[k] # "chosen" /\ (pc'[k] = "idle" => pc[k] = "idle")
    BY <1>7 DEF Crash, Running, TypeOK
  <2>2. PoolAbove(c)' /\ PoolDense(c)'
    BY <2>1, SamePool DEF NetInv
  <2> QED
    BY <2>1, <2>2 DEF NetInv, SentAfterLock, LockHeld, LocalIsNext, TakenIsNext
<1>8. CASE UNCHANGED vars
  BY <1>8, NetKept DEF vars
<1>9. ASSUME NEW j \in Jobs, ChainOf[j] = c PROVE ~Drop(j)
  BY <1>9 DEF Drop, UpToDate
<1> QED
  BY <1>1, <1>2, <1>3, <1>4, <1>5, <1>6, <1>7, <1>8, <1>9 DEF Next, JobStep, Finished

\* On every chain with one up-to-date node that drops nothing, a thread inside
\* the lock holds the very nonce the node will execute next, for any number of
\* jobs, failures and restarts, and whatever happens on the other chains.
THEOREM ChosenNonceIsNext == Spec => []ChosenIsNext
<1> DEFINE Inv == \A c \in UpToDate : NetInv(c)
<1> USE Web3Assumption
<1>1. UpToDate \subseteq Chains
  BY DEF UpToDate
<1>2. Init => Inv
  BY <1>1 DEF Init, NetInv, SentAfterLock, LockHeld, PoolAbove, PoolDense, LocalIsNext,
     TakenIsNext
<1>3. TypeOK /\ Inv /\ [Next]_vars => Inv'
  BY <1>1, NetStep
<1>4. Inv => ChosenIsNext
  BY DEF NetInv, TakenIsNext, ChosenIsNext
<1> HIDE DEF Inv
<1> QED
  BY <1>2, <1>3, <1>4, TypeCorrect, PTL DEF Spec
=============================================================================
