----------------------------- MODULE SubmitFlow -----------------------------
(***************************************************************************)
(* The submission loop that initiateTransfer and completeTransfer of every *)
(* transfer class share, together with the sendWait of each platform:      *)
(*                                                                         *)
(*   for await (const tx of xfer) {                                        *)
(*     unsigned.push(tx);                                                  *)
(*     if (!tx.parallelizable) {                                           *)
(*       txHashes.push(...(await chain.sendWait(await signer.sign(..))));  *)
(*       unsigned = [];                                                    *)
(*     }                                                                   *)
(*   }                                                                     *)
(*   if (unsigned.length > 0) ... the same flush once more                 *)
(*                                                                         *)
(* The generator's transactions are numbered from 1 in the order in which  *)
(* it yields them; plan[i] is the kind of the i-th, parallelizable or not.  *)
(* The blockchain is external: it includes, reverts or (Solana) drops what *)
(* is in its pool, in any order.                                           *)
(***************************************************************************)
EXTENDS Integers, Sequences, FiniteSets

CONSTANTS
    Plans,      \* the transactions a generator may yield, as sequences of Kinds
    Platforms   \* platforms the chain may belong to

(* parallelizable or not *)
Kinds == {"parallel", "ordered"}

ASSUME SubmitAssumption ==
    /\ Plans \subseteq Seq(Kinds)
    /\ Platforms \subseteq {"Evm", "Celo", "Solana", "Cosmwasm"}

VARIABLES
    plan,      \* what the generator will yield
    platform,  \* whose sendWait is called ("Celo" is the Evm one with its exception)
    pc,        \* where the loop is suspended
    pulled,    \* how many transactions the generator has yielded
    ended,     \* the generator has returned
    unsigned,  \* the buffer of the loop
    sent,      \* how many of the batch sendWait has broadcast
    got,       \* the txhashes of sendWait
    txHashes,  \* the result of the loop
    network,   \* every broadcast that reached a node, in order
    status     \* what the chain has done with each transaction

vars == <<plan, platform, pc, pulled, ended, unsigned, sent, got, txHashes,
          network, status>>

callVars == <<plan, platform>>
loopVars == <<pulled, ended, unsigned, txHashes>>
sendVars == <<sent, got>>
chainVars == <<network, status>>

Txs == 1..Len(plan)

PCs == {"pull", "sign", "broadcast", "confirm", "done", "failed"}

Statuses == {"none", "pooled", "included", "reverted", "dropped"}

Settled == {"included", "reverted"}

TypeOK ==
    /\ plan \in Seq(Kinds)
    /\ platform \in {"Evm", "Celo", "Solana", "Cosmwasm"}
    /\ pc \in PCs
    /\ pulled \in 0..Len(plan)
    /\ ended \in BOOLEAN
    /\ unsigned \in Seq(Txs)
    /\ sent \in 0..Len(unsigned)
    /\ got \in Seq(Txs)
    /\ txHashes \in Seq(Txs)
    /\ network \in Seq(Txs)
    /\ status \in [Txs -> Statuses]

Init ==
    /\ plan \in Plans
    /\ platform \in Platforms
    /\ pc = "pull"
    /\ pulled = 0
    /\ ended = FALSE
    /\ unsigned = <<>>
    /\ sent = 0
    /\ got = <<>>
    /\ txHashes = <<>>
    /\ network = <<>>
    /\ status = [i \in Txs |-> "none"]

-----------------------------------------------------------------------------
(* The loop.                                                               *)

(* Mutant of Yield: `parallelizable` is not looked at.                     *)
YieldBuffersAll ==
    /\ pc = "pull"
    /\ pulled < Len(plan)
    /\ pulled' = pulled + 1
    /\ unsigned' = Append(unsigned, pulled + 1)
    /\ pc' = "pull"
    /\ UNCHANGED <<callVars, ended, txHashes, sendVars, chainVars>>

(* The generator yields; a transaction that is not parallelizable starts a *)
(* flush, any other is kept in the buffer.                                 *)
Yield ==
    /\ pc = "pull"
    /\ pulled < Len(plan)
    /\ pulled' = pulled + 1
    /\ unsigned' = Append(unsigned, pulled + 1)
    /\ pc' = IF plan[pulled + 1] = "parallel" THEN "pull" ELSE "sign"
    /\ UNCHANGED <<callVars, ended, txHashes, sendVars, chainVars>>

(* Mutant of GeneratorEnds: no flush after the loop.                       *)
GeneratorEndsNoFlush ==
    /\ pc = "pull"
    /\ pulled = Len(plan)
    /\ ended' = TRUE
    /\ pc' = "done"
    /\ UNCHANGED <<callVars, pulled, unsigned, txHashes, sendVars, chainVars>>

(* The generator returns: what is left in the buffer is flushed.           *)
GeneratorEnds ==
    /\ pc = "pull"
    /\ pulled = Len(plan)
    /\ ended' = TRUE
    /\ pc' = IF unsigned = <<>> THEN "done" ELSE "sign"
    /\ UNCHANGED <<callVars, pulled, unsigned, txHashes, sendVars, chainVars>>

(* signer.sign(unsigned) resolves and sendWait is entered.                 *)
Sign ==
    /\ pc = "sign"
    /\ pc' = "broadcast"
    /\ sent' = 0
    /\ got' = <<>>
    /\ UNCHANGED <<callVars, loopVars, chainVars>>

(* Mutant of FlushReturns: the buffer is not reset.                        *)
FlushReturnsNoReset ==
    /\ txHashes' = txHashes \o got
    /\ pc' = IF ended THEN "done" ELSE "pull"
    /\ UNCHANGED <<callVars, pulled, ended, unsigned, sendVars, chainVars>>

(* sendWait returns: its hashes are appended and the buffer is reset.      *)
FlushReturns ==
    /\ txHashes' = txHashes \o got
    /\ unsigned' = <<>>
    /\ sent' = 0
    /\ got' = <<>>
    /\ pc' = IF ended THEN "done" ELSE "pull"
    /\ UNCHANGED <<callVars, pulled, ended, chainVars>>

(* The generator, the signer, the node or the wait throws: the call        *)
(* rejects, whatever has been broadcast by then.                           *)
Throws ==
    /\ pc \in {"pull", "sign", "broadcast", "confirm"}
    /\ pc' = "failed"
    /\ UNCHANGED <<callVars, loopVars, sendVars, chainVars>>

-----------------------------------------------------------------------------
(* sendWait.                                                               *)

(* Mutant of WaitsAfter: confirmation is left to the end of the batch.     *)
WaitsAfterBatch(n) ==
    n = Len(unsigned)

(* Which broadcast is followed by a wait: the Evm and Cosmwasm loops wait  *)
(* for every transaction, Solana's only after the whole batch, and the Evm *)
(* loop skips the wait on Celo.                                            *)
WaitsAfter(n) ==
    \/ platform \in {"Evm", "Cosmwasm"}
    \/ platform = "Solana" /\ n = Len(unsigned)

(* The node takes the next transaction of the batch.                       *)
Broadcast ==
    /\ pc = "broadcast"
    /\ sent < Len(unsigned)
    /\ LET tx == unsigned[sent + 1]
       IN  /\ network' = Append(network, tx)
           /\ status' = [status EXCEPT ![tx] =
                            IF @ = "none" THEN "pooled" ELSE @]
           /\ got' = Append(got, tx)
    /\ sent' = sent + 1
    /\ pc' = IF WaitsAfter(sent + 1) THEN "confirm" ELSE "broadcast"
    /\ UNCHANGED <<callVars, loopVars>>

(* The node takes the transaction but its answer is lost, and the call     *)
(* rejects without the hash.                                               *)
BroadcastReplyLost ==
    /\ pc = "broadcast"
    /\ sent < Len(unsigned)
    /\ LET tx == unsigned[sent + 1]
       IN  /\ network' = Append(network, tx)
           /\ status' = [status EXCEPT ![tx] =
                            IF @ = "none" THEN "pooled" ELSE @]
    /\ pc' = "failed"
    /\ UNCHANGED <<callVars, loopVars, sendVars>>

(* The batch is out and the last wait, if there was one, is over.          *)
SendWaitReturns ==
    /\ pc = "broadcast"
    /\ sent = Len(unsigned)
    /\ FlushReturns

(* What the wait accepts.  ethers' wait() throws for a reverted            *)
(* transaction; confirmTransaction and broadcastTx also return for a       *)
(* failed one, and the result's err, or code, is not looked at.            *)
WaitAccepts(tx) ==
    IF platform = "Evm" THEN status[tx] = "included"
                        ELSE status[tx] \in Settled

(* The wait for the latest broadcast is over and the loop of sendWait goes *)
(* on.                                                                     *)
Confirm ==
    /\ pc = "confirm"
    /\ WaitAccepts(unsigned[sent])
    /\ pc' = "broadcast"
    /\ UNCHANGED <<callVars, loopVars, sendVars, chainVars>>

(* Mutant of WaitFails: a failure on chain is the only reason to give up.  *)
WaitFailsOnRevert ==
    /\ pc = "confirm"
    /\ platform = "Evm" /\ status[unsigned[sent]] = "reverted"
    /\ pc' = "failed"
    /\ UNCHANGED <<callVars, loopVars, sendVars, chainVars>>

(* The wait throws: on the Evm because the transaction reverted (its       *)
(* wait() has no timeout), elsewhere because a time limit passed.          *)
WaitFails ==
    /\ pc = "confirm"
    /\ platform = "Evm" => status[unsigned[sent]] = "reverted"
    /\ pc' = "failed"
    /\ UNCHANGED <<callVars, loopVars, sendVars, chainVars>>

-----------------------------------------------------------------------------
(* The blockchain.                                                         *)

ChainSettles(i) ==
    /\ status[i] = "pooled"
    /\ \E s \in Settled : status' = [status EXCEPT ![i] = s]
    /\ UNCHANGED <<callVars, pc, loopVars, sendVars, network>>

(* A Solana transaction whose blockhash expires is never included.         *)
ChainDrops(i) ==
    /\ platform = "Solana"
    /\ status[i] = "pooled"
    /\ status' = [status EXCEPT ![i] = "dropped"]
    /\ UNCHANGED <<callVars, pc, loopVars, sendVars, network>>

-----------------------------------------------------------------------------

Loop == Yield \/ GeneratorEnds \/ Sign \/ SendWaitReturns

Sending == Broadcast \/ Confirm \/ WaitFails

Fault == Throws \/ BroadcastReplyLost

Chain == \E i \in Txs : ChainSettles(i) \/ ChainDrops(i)

Next == Loop \/ Sending \/ Fault \/ Chain

Spec == Init /\ [][Next]_vars

(* JavaScript resumes an async function whose awaited promise has settled; *)
(* a chain settles, or drops, what is in its pool.                         *)
FairSpec == Spec /\ WF_vars(Loop) /\ WF_vars(Sending) /\ WF_vars(Chain)

-----------------------------------------------------------------------------
(* Properties.                                                             *)

UpTo(n) == [i \in 1..n |-> i]

(* Transactions reach the network in the order in which the generator      *)
(* yielded them, each of them once, whatever mix of flushes and failures.  *)
InOrder == network = UpTo(Len(network))

(* A call that returns returns the hash of every transaction of the        *)
(* generator, in order, and every one of them is out.                      *)
HashesComplete ==
    pc = "done" => txHashes = UpTo(Len(plan)) /\ network = txHashes

(* "If order matters, [parallelizable] will be false to ensure ordered     *)
(* execution": the chain has executed a transaction that is not            *)
(* parallelizable before any later one is broadcast.  Celo is the          *)
(* exception: its sendWait does not wait, and there the comment is wrong.  *)
OrderedExecution ==
    platform # "Celo" =>
        \A i, j \in Txs :
            (i < j /\ plan[i] = "ordered" /\ status[j] # "none") => status[i] \in Settled

(* On Evm chains nothing follows a transaction that has not succeeded.     *)
EvmStopsAtFailure ==
    platform = "Evm" =>
        \A i, j \in Txs : (i < j /\ status[j] # "none") => status[i] = "included"

(* What the call is as a submission: what was executed, how it ended and   *)
(* what it returned.                                                       *)
Strict == platform # "Celo"

Executed == {i \in Txs : status[i] \in Settled}

Outcome == IF pc = "done" THEN "returned"
           ELSE IF pc = "failed" THEN "rejected" ELSE "pending"

Hashes == IF pc = "done" THEN txHashes ELSE <<>>

Submission == INSTANCE OrderedSubmission WITH
    strict <- Strict, executed <- Executed, outcome <- Outcome, hashes <- Hashes

(* What the loop and sendWait make of a plan is an ordered submission: no  *)
(* transaction is broadcast twice, out of order, or ahead of one whose     *)
(* order matters, and all hashes come back.                                *)
ImplementsSubmission == Submission!Spec

(* The call always returns or rejects.                                     *)
CallEnds == <>(pc \in {"done", "failed"})

-----------------------------------------------------------------------------
(* The inductive invariant.  The transactions up to Flushed have been      *)
(* through sendWait, the buffer holds the ones after them.                 *)
Flushed == pulled - Len(unsigned)

BufferInv ==
    /\ Len(unsigned) <= pulled
    /\ \A i \in 1..Len(unsigned) : unsigned[i] = Flushed + i
    /\ \A i \in 1..Len(unsigned) :
          i < Len(unsigned) \/ pc = "pull" => plan[Flushed + i] = "parallel"

ControlInv ==
    /\ pc \in {"pull", "sign", "done"} => sent = 0
    /\ pc \in {"sign", "broadcast", "confirm"} => unsigned # <<>>
    /\ pc = "confirm" => sent > 0
    /\ pc = "pull" => ~ended
    /\ pc = "done" => unsigned = <<>> /\ pulled = Len(plan)
    /\ ended => pulled = Len(plan)

HashInv ==
    pc # "failed" =>
        /\ Len(txHashes) = Flushed
        /\ \A i \in 1..Len(txHashes) : txHashes[i] = i
        /\ pc \in {"broadcast", "confirm"} =>
              /\ Len(got) = sent
              /\ \A i \in 1..Len(got) : got[i] = Flushed + i

NetworkInv ==
    /\ pc # "failed" => Len(network) = Flushed + sent
    /\ Len(network) <= pulled
    /\ \A i \in 1..Len(network) : network[i] = i
    /\ \A i \in Txs : status[i] = "none" <=> i > Len(network)

WaitInv ==
    (pc = "broadcast" /\ sent > 0 /\ WaitsAfter(sent))
        => WaitAccepts(unsigned[sent])

(* Every flushed transaction that is not parallelizable has been executed, *)
(* and on Evm chains everything but the one that is waited for.            *)
ExecInv ==
    /\ platform # "Celo" =>
          \A i \in 1..Flushed : plan[i] = "parallel" \/ status[i] \in Settled
    /\ platform = "Evm" =>
          \A i \in 1..Len(network) :
              \/ status[i] = "included"
              \/ i = Len(network) /\ pc \in {"confirm", "failed"}

IInv ==
    /\ TypeOK
    /\ platform \in Platforms
    /\ BufferInv
    /\ ControlInv
    /\ HashInv
    /\ NetworkInv
    /\ WaitInv
    /\ ExecInv

-----------------------------------------------------------------------------
(* The variant: how many steps of the call are left at most.  A            *)
(* transaction that is still to be yielded costs six, its stay in the      *)
(* buffer and its flush included.                                          *)
AfterFlush == IF ended THEN 0 ELSE 5

Rank ==
    LET yet   == 6 * (Len(plan) - pulled)
        batch == 2 * (Len(unsigned) - sent)
    IN  CASE pc = "pull"                 -> yet + batch + 5
          [] pc \in {"sign", "confirm"} -> yet + batch + AfterFlush + 3
          [] pc = "broadcast"            -> yet + batch + AfterFlush + 2
          [] OTHER                       -> 0

(* What the chain has still to decide.                                     *)
Open == {i \in Txs : status[i] \in {"none", "pooled"}}

StepsLeft == Rank + Cardinality(Open)

MaxSteps == 7 * Len(plan) + 5

(* Every step of the call, whatever fails in it, and every step of the     *)
(* chain brings the end nearer, and it is never further away than the      *)
(* length of the plan allows: no retry, flush or wait can go on for ever.  *)
StepsCost == [][StepsLeft' < StepsLeft]_vars

StepsBounded == StepsLeft \in 0..MaxSteps
=============================================================================
