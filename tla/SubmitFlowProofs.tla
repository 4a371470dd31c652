-------------------------- MODULE SubmitFlowProofs --------------------------
(* Proofs about SubmitFlow, for every set of plans.                        *)
EXTENDS SubmitFlow, FiniteSetTheorems, TLAPS

USE SubmitAssumption

LEMMA InitIInv == Init => IInv
<1> SUFFICES ASSUME Init PROVE IInv
  OBVIOUS
<1> USE DEF Init
<1>1. Len(plan) \in Nat
  OBVIOUS
<1>2. Len(unsigned) = 0 /\ Len(txHashes) = 0 /\ Len(network) = 0
  OBVIOUS
<1>3. TypeOK
  <2>1. /\ plan \in Seq(Kinds)
        /\ platform \in {"Evm", "Celo", "Solana", "Cosmwasm"}
    OBVIOUS
  <2>2. pc \in PCs /\ ended \in BOOLEAN
    BY DEF PCs
  <2>3. pulled \in 0..Len(plan) /\ sent \in 0..Len(unsigned)
    BY <1>1, <1>2
  <2>4. /\ unsigned \in Seq(Txs) /\ got \in Seq(Txs)
        /\ txHashes \in Seq(Txs) /\ network \in Seq(Txs)
    OBVIOUS
  <2>5. status \in [Txs -> Statuses]
    BY DEF Statuses
  <2>6. QED
    BY <2>1, <2>2, <2>3, <2>4, <2>5 DEF TypeOK
<1>4. platform \in Platforms
  OBVIOUS
<1>5. BufferInv
  BY <1>2 DEF BufferInv
<1>6. ControlInv
  BY <1>2 DEF ControlInv
<1>7. pulled = 0 /\ sent = 0 /\ pc = "pull" /\ \A i \in Txs : status[i] = "none"
  OBVIOUS
<1> HIDE DEF Init
<1>8. HashInv
  BY <1>2, <1>7 DEF HashInv, Flushed
<1>9. NetworkInv
  BY <1>1, <1>2, <1>7 DEF NetworkInv, Flushed, Txs
<1> USE DEF Init
<1>10. WaitInv
  BY DEF WaitInv
<1>11. ExecInv
  BY <1>2 DEF ExecInv, Flushed
<1>12. QED
  BY <1>3, <1>4, <1>5, <1>6, <1>8, <1>9, <1>10, <1>11 DEF IInv

LEMMA YieldIInv == IInv /\ Yield => IInv'
<1> SUFFICES ASSUME IInv, Yield PROVE IInv'
  OBVIOUS
<1> USE DEF IInv, TypeOK, Yield, callVars, sendVars, chainVars
<1>1. pulled + 1 \in Txs /\ Txs' = Txs
  BY DEF Txs
<1>2. /\ unsigned' \in Seq(Txs)
      /\ Len(unsigned') = Len(unsigned) + 1
      /\ unsigned'[Len(unsigned) + 1] = pulled + 1
      /\ \A i \in 1..Len(unsigned) : unsigned'[i] = unsigned[i]
  BY <1>1
<1>3. Flushed' = Flushed
  BY <1>2 DEF Flushed
<1>4. sent = 0
  BY DEF ControlInv
<1>5. TypeOK'
  <2>1. pulled' \in 0..Len(plan) /\ sent' \in 0..Len(unsigned')
    BY <1>2, <1>4
  <2>2. pc' \in PCs
    BY DEF PCs
  <2>3. QED
    BY <1>1, <1>2, <2>1, <2>2
<1>6. BufferInv'
  <2>1. /\ Len(unsigned) <= pulled
        /\ \A i \in 1..Len(unsigned) :
              unsigned[i] = Flushed + i /\ plan[Flushed + i] = "parallel"
    BY DEF BufferInv
  <2>2. Len(unsigned') <= pulled'
    BY <1>2, <2>1
  <2>3. ASSUME NEW i \in 1..Len(unsigned')
        PROVE  /\ unsigned'[i] = Flushed + i
               /\ i < Len(unsigned') \/ pc' = "pull" => plan[Flushed + i] = "parallel"
    <3>1. CASE i \in 1..Len(unsigned)
      BY <3>1, <1>2, <2>1
    <3>2. CASE i = Len(unsigned) + 1
      <4>1. Flushed + i = pulled + 1
        BY <3>2 DEF Flushed
      <4>2. QED
        BY <3>2, <4>1, <1>2
    <3>3. QED
      BY <3>1, <3>2, <1>2
  <2>4. QED
    BY <1>3, <2>2, <2>3 DEF BufferInv
<1>7. ControlInv'
  BY <1>2, <1>4 DEF ControlInv
<1>8. HashInv'
  BY <1>3 DEF HashInv
<1>9. NetworkInv'
  BY <1>1, <1>3, <1>4 DEF NetworkInv
<1>10. WaitInv' /\ ExecInv'
  BY <1>3, <1>4 DEF WaitInv, ExecInv
<1>11. QED
  BY <1>5, <1>6, <1>7, <1>8, <1>9, <1>10

LEMMA GeneratorEndsIInv == IInv /\ GeneratorEnds => IInv'
<1> SUFFICES ASSUME IInv, GeneratorEnds PROVE IInv'
  OBVIOUS
<1> USE DEF IInv, TypeOK, GeneratorEnds, callVars, sendVars, chainVars
<1>1. Flushed' = Flushed /\ Txs' = Txs
  BY DEF Flushed, Txs
<1>2. sent = 0
  BY DEF ControlInv
<1>3. TypeOK'
  BY <1>1 DEF PCs
<1>4. BufferInv'
  BY <1>1 DEF BufferInv
<1>5. ControlInv'
  BY <1>2 DEF ControlInv
<1>6. HashInv'
  BY <1>1 DEF HashInv
<1>7. NetworkInv'
  BY <1>1 DEF NetworkInv
<1>8. WaitInv' /\ ExecInv'
  BY <1>1, <1>2 DEF WaitInv, ExecInv
<1>9. QED
  BY <1>3, <1>4, <1>5, <1>6, <1>7, <1>8

LEMMA SignIInv == IInv /\ Sign => IInv'
<1> SUFFICES ASSUME IInv, Sign PROVE IInv'
  OBVIOUS
<1> USE DEF IInv, TypeOK, Sign, callVars, loopVars, chainVars
<1>1. Flushed' = Flushed /\ Txs' = Txs
  BY DEF Flushed, Txs
<1>2. sent = 0 /\ Len(got') = 0
  BY DEF ControlInv
<1>3. TypeOK'
  <2>1. got' \in Seq(Txs')
    OBVIOUS
  <2>2. sent' \in 0..Len(unsigned')
    OBVIOUS
  <2>3. QED
    BY <1>1, <2>1, <2>2 DEF PCs
<1>4. BufferInv'
  BY <1>1 DEF BufferInv
<1>5. ControlInv'
  BY DEF ControlInv
<1>6. HashInv'
  BY <1>1, <1>2 DEF HashInv
<1>7. NetworkInv'
  BY <1>1, <1>2 DEF NetworkInv
<1>8. WaitInv' /\ ExecInv'
  BY <1>1 DEF WaitInv, ExecInv
<1>9. QED
  BY <1>3, <1>4, <1>5, <1>6, <1>7, <1>8

(* The step on which ordered execution rests: when sendWait returns, the   *)
(* last transaction of the batch, the only one that may not be             *)
(* parallelizable, has been waited for.                                    *)
LEMMA SendWaitReturnsIInv == IInv /\ SendWaitReturns => IInv'
<1> SUFFICES ASSUME IInv, SendWaitReturns PROVE IInv'
  OBVIOUS
<1> USE DEF IInv, TypeOK, SendWaitReturns, FlushReturns, callVars, chainVars
<1>1. Len(unsigned') = 0 /\ Flushed' = pulled /\ Txs' = Txs
  BY DEF Flushed, Txs
<1>2. /\ Len(unsigned) \in Nat /\ Len(unsigned) <= pulled
      /\ sent = Len(unsigned) /\ Len(got) = sent /\ sent > 0
      /\ Len(txHashes) = Flushed /\ Flushed \in Nat
      /\ unsigned[sent] = pulled /\ pulled \in Nat
  <2>1. Len(unsigned) \in Nat /\ Len(unsigned) <= pulled /\ pulled \in Nat
    BY DEF BufferInv
  <2>2. sent = Len(unsigned) /\ Len(got) = sent /\ Len(txHashes) = Flushed
    BY DEF HashInv
  <2>3. sent > 0
    BY <2>1, <2>2 DEF ControlInv
  <2>4. unsigned[sent] = pulled
    BY <2>1, <2>2, <2>3 DEF BufferInv, Flushed
  <2>5. QED
    BY <2>1, <2>2, <2>3, <2>4 DEF Flushed
<1>3. /\ txHashes' \in Seq(Txs)
      /\ Len(txHashes') = pulled
      /\ \A i \in 1..Len(txHashes') : txHashes'[i] = i
  <2>1. txHashes' \in Seq(Txs) /\ Len(txHashes') = Len(txHashes) + Len(got)
    OBVIOUS
  <2>2. Len(txHashes') = pulled
    BY <1>2, <2>1 DEF Flushed
  <2>3. ASSUME NEW i \in 1..pulled PROVE txHashes'[i] = i
    <3>1. CASE i <= Flushed
      BY <3>1, <1>2 DEF HashInv
    <3>2. CASE i > Flushed
      <4>1. i - Flushed \in 1..Len(got)
        BY ONLY <3>2, <1>2 DEF Flushed
      <4>2. txHashes' = txHashes \o got /\ txHashes \in Seq(Txs) /\ got \in Seq(Txs)
        OBVIOUS
      <4>3. txHashes'[i] = got[i - Flushed]
        BY ONLY <3>2, <1>2, <4>1, <4>2
      <4>4. QED
        BY <3>2, <4>1, <4>3, <1>2 DEF HashInv
    <3>3. i \in Nat /\ Flushed \in Nat
      BY <1>2
    <3>4. QED
      BY ONLY <3>1, <3>2, <3>3
  <2>4. QED
    BY <2>1, <2>2, <2>3
<1>4. TypeOK'
  <2>1. unsigned' \in Seq(Txs) /\ got' \in Seq(Txs)
    OBVIOUS
  <2>2. sent' \in 0..Len(unsigned')
    BY <1>1
  <2>3. pc' \in PCs
    BY DEF PCs
  <2>4. QED
    BY <1>1, <1>3, <2>1, <2>2, <2>3
<1>5. BufferInv'
  BY <1>1 DEF BufferInv
<1>6. ControlInv'
  BY <1>1 DEF ControlInv
<1>7. HashInv'
  BY <1>1, <1>3 DEF HashInv
<1>8. NetworkInv'
  <2>1. Len(network) = pulled
    BY <1>2 DEF NetworkInv, Flushed
  <2>2. QED
    BY <1>1, <2>1 DEF NetworkInv
<1>9. WaitInv'
  BY DEF WaitInv
<1>10. ExecInv'
  <2>1. ASSUME platform # "Celo"
        PROVE  status[pulled] \in Settled
    <3>1. WaitsAfter(sent)
      BY <2>1, <1>2 DEF WaitsAfter
    <3>2. QED
      BY <3>1, <1>2 DEF WaitInv, WaitAccepts, Settled
  <2>2. ASSUME platform # "Celo", NEW i \in 1..pulled
        PROVE  plan[i] = "parallel" \/ status[i] \in Settled
    <3>1. CASE i <= Flushed
      BY <2>2, <3>1, <1>2 DEF ExecInv
    <3>2. CASE i > Flushed /\ i < pulled
      <4>1. i - Flushed \in 1..Len(unsigned) /\ i - Flushed < Len(unsigned)
        BY <3>2, <1>2 DEF Flushed
      <4>2. plan[Flushed + (i - Flushed)] = "parallel"
        BY <4>1 DEF BufferInv
      <4>3. QED
        BY <4>2, <1>2
    <3>3. CASE i = pulled
      BY <2>1, <2>2, <3>3
    <3>4. QED
      BY <3>1, <3>2, <3>3, <1>2
  <2>3. QED
    BY <1>1, <2>2 DEF ExecInv
<1>11. QED
  BY <1>4, <1>5, <1>6, <1>7, <1>8, <1>9, <1>10

(* Broadcast and BroadcastReplyLost put the next transaction of the batch, *)
(* number Flushed + sent + 1, on the network.                              *)
LEMMA NextTx ==
  ASSUME IInv, pc = "broadcast", sent < Len(unsigned)
  PROVE  /\ Len(unsigned) \in Nat /\ Flushed \in Nat /\ sent \in Nat
         /\ sent + 1 \in 1..Len(unsigned)
         /\ unsigned[sent + 1] = Flushed + sent + 1
         /\ Flushed + sent + 1 \in Txs
         /\ Len(network) = Flushed + sent
         /\ status[Flushed + sent + 1] = "none"
<1> USE DEF IInv, TypeOK
<1>1. /\ Len(unsigned) \in Nat /\ Flushed \in Nat /\ sent \in Nat
      /\ sent + 1 \in 1..Len(unsigned)
  BY DEF BufferInv, Flushed
<1>2. unsigned[sent + 1] = Flushed + sent + 1
  BY <1>1 DEF BufferInv
<1>3. Flushed + sent + 1 \in Txs
  BY <1>1, <1>2
<1>4. Len(network) = Flushed + sent
  BY DEF NetworkInv
<1>5. status[Flushed + sent + 1] = "none"
  BY <1>1, <1>3, <1>4 DEF NetworkInv
<1>6. QED
  BY <1>1, <1>2, <1>3, <1>4, <1>5

(* What the broadcast of the next transaction does to the network.         *)
LEMMA Broadcasting ==
  ASSUME IInv, pc = "broadcast", sent < Len(unsigned),
         network' = Append(network, unsigned[sent + 1]),
         status' = [status EXCEPT ![unsigned[sent + 1]] =
                        IF @ = "none" THEN "pooled" ELSE @],
         UNCHANGED <<plan, pulled, unsigned>>
  PROVE  /\ network' \in Seq(Txs)
         /\ Len(network') = Flushed + sent + 1
         /\ \A i \in 1..Len(network') : network'[i] = i
         /\ status' \in [Txs -> Statuses]
         /\ status'[Flushed + sent + 1] = "pooled"
         /\ \A i \in Txs : i # Flushed + sent + 1 => status'[i] = status[i]
         /\ \A i \in Txs : status'[i] = "none" <=> i > Len(network')
<1> USE NextTx DEF IInv, TypeOK
<1>1. network' = Append(network, Flushed + sent + 1)
  OBVIOUS
<1>2. network' \in Seq(Txs) /\ Len(network') = Flushed + sent + 1
  BY <1>1
<1>3. \A i \in 1..Len(network') : network'[i] = i
  BY <1>1, <1>2 DEF NetworkInv
<1>4. status' = [status EXCEPT ![Flushed + sent + 1] = "pooled"]
  OBVIOUS
<1>5. status' \in [Txs -> Statuses] /\ status'[Flushed + sent + 1] = "pooled"
  BY <1>4 DEF Statuses
<1>6. \A i \in Txs : i # Flushed + sent + 1 => status'[i] = status[i]
  BY <1>4
<1>7. ASSUME NEW i \in Txs
      PROVE  status'[i] = "none" <=> i > Len(network')
  <2>1. i \in Nat
    BY DEF Txs
  <2>2. CASE i = Flushed + sent + 1
    BY <2>2, <1>5, <1>2
  <2>3. CASE i # Flushed + sent + 1
    BY <2>1, <2>3, <1>6, <1>2 DEF NetworkInv
  <2>4. QED
    BY <2>2, <2>3
<1>8. QED
  BY <1>2, <1>3, <1>5, <1>6, <1>7

LEMMA BroadcastIInv == IInv /\ Broadcast => IInv'
<1> SUFFICES ASSUME IInv, Broadcast PROVE IInv'
  OBVIOUS
<1>1. /\ pc = "broadcast" /\ sent < Len(unsigned)
      /\ network' = Append(network, unsigned[sent + 1])
      /\ status' = [status EXCEPT ![unsigned[sent + 1]] =
                        IF @ = "none" THEN "pooled" ELSE @]
      /\ got' = Append(got, unsigned[sent + 1])
      /\ sent' = sent + 1
      /\ pc' = IF WaitsAfter(sent + 1) THEN "confirm" ELSE "broadcast"
      /\ UNCHANGED <<plan, platform, pulled, ended, unsigned, txHashes>>
  BY DEF Broadcast, callVars, loopVars
<1>2. Flushed' = Flushed /\ Txs' = Txs
  BY <1>1 DEF Flushed, Txs
<1>3. /\ network' \in Seq(Txs)
      /\ Len(network') = Flushed + sent + 1
      /\ \A i \in 1..Len(network') : network'[i] = i
      /\ status' \in [Txs -> Statuses]
      /\ \A i \in Txs : i # Flushed + sent + 1 => status'[i] = status[i]
      /\ \A i \in Txs : status'[i] = "none" <=> i > Len(network')
  BY <1>1, Broadcasting
<1>4. /\ Len(unsigned) \in Nat /\ Flushed \in Nat /\ sent \in Nat
      /\ sent + 1 \in 1..Len(unsigned)
      /\ unsigned[sent + 1] = Flushed + sent + 1
      /\ Flushed + sent + 1 \in Txs
      /\ Len(network) = Flushed + sent
  BY <1>1, NextTx
<1>5. got \in Seq(Txs) /\ Len(got) = sent
  BY <1>1 DEF IInv, TypeOK, HashInv
<1>6. TypeOK'
  <2>1. got' \in Seq(Txs) /\ sent' \in 0..Len(unsigned') /\ pc' \in PCs
    BY <1>1, <1>4, <1>5 DEF PCs
  <2>2. QED
    BY <1>1, <1>2, <1>3, <2>1 DEF IInv, TypeOK
<1>7. BufferInv'
  BY <1>1, <1>2 DEF IInv, BufferInv
<1>8. ControlInv'
  BY <1>1, <1>4 DEF IInv, ControlInv
<1>9. HashInv'
  <2>1. /\ Len(got') = sent + 1
        /\ got'[sent + 1] = Flushed + sent + 1
        /\ \A i \in 1..sent : got'[i] = got[i]
    BY <1>1, <1>4, <1>5
  <2>2. \A i \in 1..sent : got[i] = Flushed + i
    BY <1>1, <1>5 DEF IInv, HashInv
  <2>3. ASSUME NEW i \in 1..Len(got') PROVE got'[i] = Flushed + i
    <3>1. CASE i \in 1..sent
      BY <3>1, <2>1, <2>2
    <3>2. CASE i = sent + 1
      BY <3>2, <2>1, <1>4
    <3>3. QED
      BY <3>1, <3>2, <2>1, <1>4
  <2>4. QED
    BY <1>1, <1>2, <2>1, <2>3 DEF IInv, HashInv
<1>10. NetworkInv'
  <2>1. Len(network') <= pulled
    BY <1>3, <1>4 DEF Flushed, IInv, TypeOK
  <2>2. QED
    BY <1>1, <1>2, <1>3, <1>4, <2>1 DEF NetworkInv
<1>11. WaitInv'
  BY <1>1 DEF WaitInv, WaitsAfter
<1>12. ExecInv'
  <2>1. ASSUME platform # "Celo", NEW i \in 1..Flushed
        PROVE  plan[i] = "parallel" \/ status'[i] \in Settled
    <3>1. i \in Txs /\ i # Flushed + sent + 1
      BY <1>4 DEF Txs, IInv, TypeOK
    <3>2. QED
      BY <2>1, <3>1, <1>3 DEF IInv, ExecInv
  <2>2. ASSUME platform = "Evm", NEW i \in 1..Len(network')
        PROVE  \/ status'[i] = "included"
               \/ i = Len(network') /\ pc' \in {"confirm", "failed"}
    <3>1. CASE i = Flushed + sent + 1
      BY <2>2, <3>1, <1>1, <1>3 DEF WaitsAfter
    <3>2. CASE i # Flushed + sent + 1
      <4>1. i \in 1..Len(network) /\ i \in Txs
        BY <3>2, <1>3, <1>4 DEF Txs, IInv, TypeOK
      <4>2. status[i] = "included"
        BY <4>1, <2>2, <1>1 DEF IInv, ExecInv
      <4>3. QED
        BY <3>2, <4>1, <4>2, <1>3
    <3>3. QED
      BY <3>1, <3>2
  <2>3. QED
    BY <1>1, <1>2, <2>1, <2>2 DEF ExecInv
<1>13. QED
  BY <1>1, <1>6, <1>7, <1>8, <1>9, <1>10, <1>11, <1>12 DEF IInv

LEMMA BroadcastReplyLostIInv == IInv /\ BroadcastReplyLost => IInv'
<1> SUFFICES ASSUME IInv, BroadcastReplyLost PROVE IInv'
  OBVIOUS
<1>1. /\ pc = "broadcast" /\ sent < Len(unsigned)
      /\ network' = Append(network, unsigned[sent + 1])
      /\ status' = [status EXCEPT ![unsigned[sent + 1]] =
                        IF @ = "none" THEN "pooled" ELSE @]
      /\ pc' = "failed"
      /\ UNCHANGED <<plan, platform, pulled, ended, unsigned, txHashes, sent, got>>
  BY DEF BroadcastReplyLost, callVars, loopVars, sendVars
<1>2. Flushed' = Flushed /\ Txs' = Txs
  BY <1>1 DEF Flushed, Txs
<1>3. /\ network' \in Seq(Txs)
      /\ Len(network') = Flushed + sent + 1
      /\ \A i \in 1..Len(network') : network'[i] = i
      /\ status' \in [Txs -> Statuses]
      /\ \A i \in Txs : i # Flushed + sent + 1 => status'[i] = status[i]
      /\ \A i \in Txs : status'[i] = "none" <=> i > Len(network')
  BY <1>1, Broadcasting
<1>4. /\ Flushed \in Nat /\ sent \in Nat /\ Len(unsigned) \in Nat
      /\ Len(network) = Flushed + sent
  BY <1>1, NextTx
<1>5. TypeOK'
  <2>1. pc' \in PCs
    BY <1>1 DEF PCs
  <2>2. QED
    BY <1>1, <1>2, <1>3, <2>1 DEF IInv, TypeOK
<1>6. BufferInv'
  BY <1>1, <1>2 DEF IInv, BufferInv
<1>7. ControlInv'
  BY <1>1 DEF IInv, ControlInv
<1>8. HashInv' /\ WaitInv'
  BY <1>1 DEF HashInv, WaitInv
<1>9. NetworkInv'
  <2>1. Len(network') <= pulled
    BY <1>1, <1>3, <1>4 DEF Flushed, IInv, TypeOK
  <2>2. QED
    BY <1>1, <1>2, <1>3, <2>1 DEF NetworkInv
<1>10. ExecInv'
  <2>1. ASSUME platform # "Celo", NEW i \in 1..Flushed
        PROVE  plan[i] = "parallel" \/ status'[i] \in Settled
    <3>1. i \in Txs /\ i # Flushed + sent + 1
      BY <1>4 DEF Txs, IInv, TypeOK, Flushed
    <3>2. QED
      BY <2>1, <3>1, <1>3 DEF IInv, ExecInv
  <2>2. ASSUME platform = "Evm", NEW i \in 1..Len(network')
        PROVE  status'[i] = "included" \/ i = Len(network')
    <3>1. CASE i # Flushed + sent + 1
      <4>1. i \in 1..Len(network) /\ i \in Txs
        BY <3>1, <1>3, <1>4 DEF Txs, IInv, TypeOK
      <4>2. status[i] = "included"
        BY <4>1, <2>2, <1>1 DEF IInv, ExecInv
      <4>3. QED
        BY <3>1, <4>1, <4>2, <1>3
    <3>2. QED
      BY <3>1, <1>3
  <2>3. QED
    BY <1>1, <1>2, <2>1, <2>2 DEF ExecInv
<1>11. QED
  BY <1>1, <1>5, <1>6, <1>7, <1>8, <1>9, <1>10 DEF IInv

(* A call that is suspended resumes, or gives up, with nothing but pc      *)
(* changed.                                                                *)
LEMMA ControlOnlyIInv ==
  ASSUME IInv, Confirm \/ WaitFails \/ Throws
  PROVE  IInv'
<1>1. UNCHANGED <<plan, platform, pulled, ended, unsigned, txHashes, sent, got,
                  network, status>>
  BY DEF Confirm, WaitFails, Throws, callVars, loopVars, sendVars, chainVars
<1>2. Flushed' = Flushed /\ Txs' = Txs
  BY <1>1 DEF Flushed, Txs
<1>3. \/ /\ pc = "confirm" /\ pc' = "broadcast"
         /\ WaitAccepts(unsigned[sent])
      \/ pc' = "failed"
  BY DEF Confirm, WaitFails, Throws
<1>4. TypeOK'
  <2>1. pc' \in PCs
    BY <1>3 DEF PCs
  <2>2. QED
    BY <1>1, <1>2, <2>1 DEF IInv, TypeOK
<1>5. BufferInv'
  BY <1>1, <1>2, <1>3 DEF IInv, BufferInv
<1>6. ControlInv'
  BY <1>1, <1>3 DEF IInv, ControlInv
<1>7. HashInv'
  BY <1>1, <1>2, <1>3 DEF IInv, HashInv
<1>8. NetworkInv'
  BY <1>1, <1>2, <1>3 DEF IInv, NetworkInv
<1>9. WaitInv'
  BY <1>1, <1>3 DEF WaitInv, WaitAccepts
<1>10. ExecInv'
  <2>1. ASSUME platform = "Evm", pc' = "broadcast"
        PROVE  status[Len(network)] = "included"
    <3>1. status[unsigned[sent]] = "included"
      BY <1>3, <2>1 DEF WaitAccepts
    <3>2. pc = "confirm" /\ sent \in 1..Len(unsigned)
      BY <1>3, <2>1 DEF IInv, TypeOK, ControlInv
    <3>3. unsigned[sent] = Flushed + sent /\ Len(network) = Flushed + sent
      BY <3>2 DEF IInv, BufferInv, NetworkInv
    <3>4. QED
      BY <3>1, <3>3
  <2>2. QED
    BY <1>1, <1>2, <1>3, <2>1 DEF IInv, ExecInv
<1>11. QED
  BY <1>1, <1>4, <1>5, <1>6, <1>7, <1>8, <1>9, <1>10 DEF IInv

LEMMA ChainIInv ==
  ASSUME IInv, NEW c \in Txs, ChainSettles(c) \/ ChainDrops(c)
  PROVE  IInv'
<1>1. UNCHANGED <<plan, platform, pc, pulled, ended, unsigned, txHashes, sent, got,
                  network>>
  BY DEF ChainSettles, ChainDrops, callVars, loopVars, sendVars
<1>2. Flushed' = Flushed /\ Txs' = Txs
  BY <1>1 DEF Flushed, Txs
<1>3. PICK s \in Settled \cup {"dropped"} : status' = [status EXCEPT ![c] = s]
  BY DEF ChainSettles, ChainDrops
<1>4. status[c] = "pooled"
  BY DEF ChainSettles, ChainDrops
<1>5. /\ status' \in [Txs -> Statuses]
      /\ \A i \in Txs : status[i] # "pooled" => status'[i] = status[i]
      /\ \A i \in Txs : status'[i] = "none" <=> status[i] = "none"
  BY <1>3, <1>4 DEF IInv, TypeOK, Settled, Statuses
<1>6. TypeOK'
  BY <1>1, <1>2, <1>5 DEF IInv, TypeOK
<1>7. BufferInv' /\ ControlInv' /\ HashInv'
  BY <1>1, <1>2 DEF IInv, BufferInv, ControlInv, HashInv
<1>8. NetworkInv'
  BY <1>1, <1>2, <1>5 DEF IInv, NetworkInv
<1>9. WaitInv'
  <2>1. ASSUME pc = "broadcast", sent > 0, WaitsAfter(sent)
        PROVE  WaitAccepts(unsigned[sent])'
    <3>1. sent \in 1..Len(unsigned) /\ unsigned[sent] \in Txs
      BY <2>1 DEF IInv, TypeOK
    <3>2. WaitAccepts(unsigned[sent])
      BY <2>1 DEF IInv, WaitInv
    <3>3. status[unsigned[sent]] # "pooled"
      BY <3>2 DEF WaitAccepts, Settled
    <3>4. QED
      BY <3>1, <3>2, <3>3, <1>1, <1>5 DEF WaitAccepts
  <2>2. QED
    BY <1>1, <2>1 DEF WaitInv, WaitsAfter
<1>10. ExecInv'
  <2>1. 1..Flushed \subseteq Txs /\ 1..Len(network) \subseteq Txs
    <3>1. Flushed \in Int /\ Flushed <= Len(plan) /\ Len(plan) \in Nat
      BY DEF IInv, TypeOK, Flushed
    <3>2. \A i \in 1..Len(network) : i \in Txs
      <4>1. \A i \in 1..Len(network) : network[i] = i /\ network[i] \in Txs
        BY DEF IInv, TypeOK, NetworkInv
      <4>2. QED
        BY <4>1
    <3>3. QED
      BY <3>1, <3>2 DEF Txs
  <2>2. ASSUME platform # "Celo", NEW i \in 1..Flushed
        PROVE  plan[i] = "parallel" \/ status'[i] \in Settled
    BY <2>1, <2>2, <1>5 DEF IInv, ExecInv, Settled
  <2>3. ASSUME platform = "Evm", NEW i \in 1..Len(network)
        PROVE  \/ status'[i] = "included"
               \/ i = Len(network) /\ pc \in {"confirm", "failed"}
    BY <2>1, <2>3, <1>5 DEF IInv, ExecInv
  <2>4. QED
    BY <1>1, <1>2, <2>2, <2>3 DEF ExecInv
<1>11. QED
  BY <1>1, <1>6, <1>7, <1>8, <1>9, <1>10 DEF IInv

LEMMA StutterIInv == IInv /\ UNCHANGED vars => IInv'
<1> SUFFICES ASSUME IInv, UNCHANGED vars PROVE IInv'
  OBVIOUS
<1> USE DEF vars
<1>1. Flushed' = Flushed /\ Txs' = Txs
  BY DEF Flushed, Txs
<1>2. TypeOK' /\ BufferInv' /\ ControlInv' /\ HashInv'
  BY <1>1 DEF IInv, TypeOK, BufferInv, ControlInv, HashInv
<1>3. NetworkInv' /\ WaitInv' /\ ExecInv'
  BY <1>1 DEF IInv, NetworkInv, WaitInv, ExecInv, WaitsAfter, WaitAccepts
<1>4. QED
  BY <1>2, <1>3 DEF IInv

(* The invariant of the submission loop, for every plan and platform.      *)
THEOREM SubmitFlowInvariant == Spec => []IInv
<1>1. Init => IInv
  BY InitIInv
<1>2. IInv /\ [Next]_vars => IInv'
  <2> SUFFICES ASSUME IInv, [Next]_vars PROVE IInv'
    OBVIOUS
  <2>1. CASE Loop
    BY <2>1, YieldIInv, GeneratorEndsIInv, SignIInv, SendWaitReturnsIInv DEF Loop
  <2>2. CASE Sending
    BY <2>2, BroadcastIInv, ControlOnlyIInv DEF Sending
  <2>3. CASE Fault
    BY <2>3, ControlOnlyIInv, BroadcastReplyLostIInv DEF Fault
  <2>4. CASE Chain
    BY <2>4, ChainIInv DEF Chain
  <2>5. CASE UNCHANGED vars
    BY <2>5, StutterIInv
  <2>6. QED
    BY <2>1, <2>2, <2>3, <2>4, <2>5 DEF Next
<1>3. QED
  BY <1>1, <1>2, PTL DEF Spec

(* Transactions reach the network in the generator's order, each once.     *)
THEOREM NetworkInOrder == Spec => []InOrder
<1>1. IInv => InOrder
  BY DEF IInv, TypeOK, NetworkInv, InOrder, UpTo
<1>2. QED
  BY <1>1, SubmitFlowInvariant, PTL

LEMMA CompleteAtEnd == IInv => HashesComplete
<1> SUFFICES ASSUME IInv, pc = "done"
             PROVE  txHashes = UpTo(Len(plan)) /\ network = txHashes
  BY DEF HashesComplete
<1>1. /\ Len(unsigned) = 0 /\ pulled = Len(plan) /\ sent = 0
      /\ Len(plan) \in Nat
  BY DEF IInv, TypeOK, ControlInv
<1>2. /\ txHashes \in Seq(Txs) /\ Len(txHashes) = Len(plan)
      /\ \A i \in 1..Len(txHashes) : txHashes[i] = i
  BY <1>1 DEF IInv, TypeOK, HashInv, Flushed
<1>3. /\ network \in Seq(Txs) /\ Len(network) = Len(plan)
      /\ \A i \in 1..Len(network) : network[i] = i
  BY <1>1 DEF IInv, TypeOK, NetworkInv, Flushed
<1>4. QED
  BY <1>2, <1>3 DEF UpTo

(* A call that returns has submitted every transaction and returns all     *)
(* their hashes, in order.                                                 *)
THEOREM AllHashesReturned == Spec => []HashesComplete
  BY CompleteAtEnd, SubmitFlowInvariant, PTL

(* On every platform but Celo, a transaction that is not parallelizable    *)
(* has been executed before a later one is broadcast.                      *)
THEOREM OrderIsKept == Spec => []OrderedExecution
<1>1. IInv => OrderedExecution
  <2> SUFFICES ASSUME IInv, platform # "Celo", NEW i \in Txs, NEW j \in Txs,
                      i < j, plan[i] = "ordered", status[j] # "none"
               PROVE  status[i] \in Settled
    BY DEF OrderedExecution
  <2>2. i \in Nat /\ j \in Nat
    BY DEF Txs
  <2>3. j <= Len(network) /\ Len(network) \in Nat
    BY <2>2 DEF IInv, TypeOK, NetworkInv
  <2>4. CASE i <= Flushed
    <3>1. Flushed \in Int
      BY DEF IInv, TypeOK, Flushed
    <3>2. i \in 1..Flushed
      BY <2>2, <2>4, <3>1 DEF Txs
    <3>3. QED
      BY <3>2 DEF IInv, ExecInv
  <2>5. CASE i > Flushed
    <3>1. /\ Len(unsigned) \in Nat /\ pulled \in Nat /\ Flushed \in Nat
          /\ j <= pulled
      BY <2>2, <2>3 DEF IInv, TypeOK, BufferInv, NetworkInv, Flushed
    <3>2. i - Flushed \in 1..Len(unsigned) /\ i - Flushed < Len(unsigned)
      BY <2>2, <2>5, <3>1 DEF Flushed
    <3>3. plan[Flushed + (i - Flushed)] = "parallel"
      BY <3>2 DEF IInv, BufferInv
    <3>4. QED
      BY <2>2, <3>1, <3>3
  <2>6. QED
    <3>1. Flushed \in Int
      BY DEF IInv, TypeOK, Flushed
    <3>2. QED
      BY <2>2, <2>4, <2>5, <3>1
<1>2. QED
  BY <1>1, SubmitFlowInvariant, PTL

(* On Evm chains nothing is broadcast after a transaction that has not     *)
(* succeeded.                                                              *)
THEOREM EvmStops == Spec => []EvmStopsAtFailure
<1>1. IInv => EvmStopsAtFailure
  <2> SUFFICES ASSUME IInv, platform = "Evm", NEW i \in Txs, NEW j \in Txs,
                      i < j, status[j] # "none"
               PROVE  status[i] = "included"
    BY DEF EvmStopsAtFailure
  <2>1. i \in Nat /\ i >= 1 /\ j \in Nat
    BY DEF Txs
  <2>2. j <= Len(network) /\ Len(network) \in Nat
    BY <2>1 DEF IInv, TypeOK, NetworkInv
  <2>3. i \in 1..Len(network) /\ i # Len(network)
    BY <2>1, <2>2
  <2>4. QED
    BY <2>3 DEF IInv, ExecInv
<1>2. QED
  BY <1>1, SubmitFlowInvariant, PTL

-----------------------------------------------------------------------------
(* The refinement of OrderedSubmission.                                    *)

(* While a broadcast is next, and when the call returns, every earlier     *)
(* transaction whose order matters has been executed: the flushed ones     *)
(* because sendWait waited for the last of each batch, the ones in the     *)
(* buffer because an ordered transaction is the last of its batch.         *)
LEMMA OrderedSettled ==
  ASSUME IInv, (pc = "broadcast" /\ sent < Len(unsigned)) \/ pc = "done"
  PROVE  Submission!InSequence(Len(network))
<1> SUFFICES ASSUME Strict, NEW i \in 1..Len(network), plan[i] = "ordered"
             PROVE  i \in Executed
  BY DEF Submission!InSequence
<1>1. /\ Len(unsigned) \in Nat /\ pulled \in Nat /\ Flushed \in Nat
      /\ sent \in Nat /\ Len(plan) \in Nat /\ pulled <= Len(plan)
      /\ pc = "done" => sent = Len(unsigned)
      /\ Len(network) = Flushed + sent /\ sent <= Len(unsigned)
  BY DEF IInv, TypeOK, BufferInv, ControlInv, NetworkInv, Flushed
<1>2. i \in Nat /\ i >= 1
  OBVIOUS
<1>3. i \in Txs
  BY <1>1, <1>2 DEF Txs, Flushed
<1>4. CASE i <= Flushed
  <2>1. i \in 1..Flushed
    BY <1>1, <1>2, <1>4
  <2>2. QED
    BY <2>1, <1>3 DEF IInv, ExecInv, Strict, Executed
<1>5. CASE i > Flushed
  <2>1. sent < Len(unsigned)
    BY <1>1, <1>5 DEF IInv, ControlInv
  <2>2. i - Flushed \in 1..Len(unsigned) /\ i - Flushed < Len(unsigned)
    BY <2>1, <1>1, <1>2, <1>5
  <2>3. plan[Flushed + (i - Flushed)] = "parallel"
    BY <2>2 DEF IInv, BufferInv
  <2>4. QED
    BY <2>3, <1>1, <1>2
<1>6. QED
  BY <1>1, <1>2, <1>4, <1>5

EndsInSequence == pc = "done" => Submission!InSequence(Len(network))

LEMMA DoneInSequence == IInv => EndsInSequence
  BY OrderedSettled DEF EndsInSequence

(* A broadcast, answered or not, is the submission of the next one.        *)
LEMMA BroadcastSubmits ==
  ASSUME IInv, Broadcast \/ BroadcastReplyLost
  PROVE  Submission!Submit
<1>1. /\ pc = "broadcast" /\ sent < Len(unsigned)
      /\ network' = Append(network, unsigned[sent + 1])
      /\ status' = [status EXCEPT ![unsigned[sent + 1]] =
                        IF @ = "none" THEN "pooled" ELSE @]
      /\ UNCHANGED <<plan, platform, pulled, unsigned>>
      /\ pc' \in {"broadcast", "confirm", "failed"}
  BY DEF Broadcast, BroadcastReplyLost, callVars, loopVars, sendVars
<1>2. /\ Flushed + sent + 1 \in Txs /\ Len(network) = Flushed + sent
      /\ unsigned[sent + 1] = Len(network) + 1
      /\ status[Flushed + sent + 1] = "none"
      /\ Flushed \in Nat /\ sent \in Nat
  BY <1>1, NextTx
<1>3. /\ status'[Flushed + sent + 1] = "pooled"
      /\ \A i \in Txs : i # Flushed + sent + 1 => status'[i] = status[i]
  BY <1>1, Broadcasting
<1>4. Executed' = Executed
  BY <1>1, <1>2, <1>3 DEF Executed, Settled, Txs
<1>5. Outcome = "pending" /\ Outcome' \in {"pending", "rejected"}
  BY <1>1 DEF Outcome
<1>6. Hashes' = Hashes /\ Strict' = Strict
  BY <1>1 DEF Hashes, Strict
<1>7. Len(network) < Len(plan)
  BY <1>2 DEF Txs, IInv, TypeOK
<1>8. Submission!InSequence(Len(network))
  BY <1>1, OrderedSettled
<1>9. QED
  BY <1>1, <1>2, <1>4, <1>5, <1>6, <1>7, <1>8 DEF Submission!Submit

(* The loop: only the step that ends it is seen from outside.              *)
LEMMA LoopReturns ==
  ASSUME IInv, IInv', Loop
  PROVE  Submission!Return \/ UNCHANGED Submission!vars
<1>1. /\ UNCHANGED <<plan, platform, network, status>>
      /\ pc \in {"pull", "sign", "broadcast"}
      /\ pc' # "failed"
  BY DEF Loop, Yield, GeneratorEnds, Sign, SendWaitReturns, FlushReturns,
         callVars, loopVars, sendVars, chainVars
<1>2. Executed' = Executed /\ Strict' = Strict
  BY <1>1 DEF Executed, Txs, Strict
<1>3. Outcome = "pending" /\ Hashes = <<>>
  BY <1>1 DEF Outcome, Hashes
<1>4. CASE pc' = "done"
  <2>1. HashesComplete'
    BY CompleteAtEnd, PTL
  <2>2. /\ txHashes' = UpTo(Len(plan)) /\ network' = txHashes'
    BY <1>1, <1>4, <2>1 DEF HashesComplete, UpTo
  <2>3. Len(network) = Len(plan)
    BY <1>1, <2>2 DEF UpTo, IInv, TypeOK
  <2>4. EndsInSequence'
    BY DoneInSequence, PTL
  <2>5. Submission!InSequence(Len(plan))
    BY <1>1, <1>2, <1>4, <2>3, <2>4 DEF EndsInSequence, Submission!InSequence
  <2>6. Outcome' = "returned" /\ Hashes' = network
    BY <1>1, <1>4, <2>2 DEF Outcome, Hashes
  <2>7. Submission!Return
    BY <1>1, <1>2, <1>3, <2>3, <2>5, <2>6 DEF Submission!Return
  <2>8. QED
    BY <2>7
<1>5. CASE pc' # "done"
  <2>1. Outcome' = Outcome /\ Hashes' = Hashes
    BY <1>1, <1>3, <1>5 DEF Outcome, Hashes
  <2>2. QED
    BY <1>1, <1>2, <2>1 DEF Submission!vars
<1>6. QED
  BY <1>4, <1>5

(* A wait that ends well is not seen from outside, any failure is the      *)
(* rejection of the call.                                                  *)
LEMMA WaitOrReject ==
  ASSUME Confirm \/ WaitFails \/ Throws
  PROVE  Submission!Reject \/ UNCHANGED Submission!vars
<1>1. /\ UNCHANGED <<plan, platform, network, status, txHashes>>
      /\ pc \notin {"done", "failed"} /\ pc' # "done"
  BY DEF Confirm, WaitFails, Throws, callVars, loopVars, sendVars, chainVars
<1>2. /\ Executed' = Executed /\ Strict' = Strict /\ Hashes' = Hashes
      /\ Outcome = "pending" /\ Outcome' \in {"pending", "rejected"}
  BY <1>1 DEF Executed, Txs, Strict, Hashes, Outcome
<1>3. QED
  BY <1>1, <1>2 DEF Submission!Reject, Submission!vars

(* The chain executes what was submitted, or lets it go.                   *)
LEMMA ChainExecutes ==
  ASSUME IInv, NEW c \in Txs, ChainSettles(c) \/ ChainDrops(c)
  PROVE  \/ \E i \in 1..Len(plan) : Submission!Execute(i)
         \/ UNCHANGED Submission!vars
<1>1. /\ UNCHANGED <<plan, platform, pc, txHashes, network>>
      /\ status[c] = "pooled"
  BY DEF ChainSettles, ChainDrops, callVars, loopVars, sendVars
<1>2. Strict' = Strict /\ Outcome' = Outcome /\ Hashes' = Hashes
  BY <1>1 DEF Strict, Outcome, Hashes
<1>3. PICK s \in Settled \cup {"dropped"} : status' = [status EXCEPT ![c] = s]
  BY DEF ChainSettles, ChainDrops
<1>4. /\ status'[c] = s
      /\ \A i \in Txs : i # c => status'[i] = status[i]
  BY <1>3 DEF IInv, TypeOK
<1>5. CASE s = "dropped"
  <2>1. Executed' = Executed
    BY <1>1, <1>4, <1>5 DEF Executed, Settled, Txs
  <2>2. QED
    BY <1>1, <1>2, <2>1 DEF Submission!vars
<1>6. CASE s \in Settled
  <2>1. Executed' = Executed \union {c}
    BY <1>1, <1>4, <1>6 DEF Executed, Txs
  <2>2. c \notin Executed
    BY <1>1 DEF Executed, Settled
  <2>3. c \in 1..Len(network)
    BY <1>1 DEF IInv, TypeOK, NetworkInv, Txs
  <2>4. Submission!Execute(c)
    BY <1>1, <1>2, <2>1, <2>2, <2>3 DEF Submission!Execute
  <2>5. QED
    BY <2>4 DEF Txs
<1>7. QED
  BY <1>5, <1>6

(* The loop with the sendWait of any platform is an ordered submission of  *)
(* the plan: each step is one of the abstract specification or is not seen *)
(* there.                                                                  *)
THEOREM SubmitFlowImplementsSubmission == Spec => ImplementsSubmission
<1>1. Init => Submission!Init
  <2> SUFFICES ASSUME Init PROVE Submission!Init
    OBVIOUS
  <2>1. plan \in Plans /\ network = <<>>
    BY DEF Init
  <2>2. Outcome = "pending" /\ Hashes = <<>>
    BY DEF Init, Outcome, Hashes
  <2>3. Executed = {}
    BY DEF Init, Executed, Settled
  <2>4. Strict \in BOOLEAN
    BY DEF Strict
  <2>5. QED
    BY <2>1, <2>2, <2>3, <2>4 DEF Submission!Init
<1>2. ASSUME IInv, IInv', [Next]_vars
      PROVE  [Submission!Next]_(Submission!vars)
  <2>1. CASE Loop
    BY <1>2, <2>1, LoopReturns DEF Submission!Next
  <2>2. CASE Sending
    BY <1>2, <2>2, BroadcastSubmits, WaitOrReject DEF Sending, Submission!Next
  <2>3. CASE Fault
    BY <1>2, <2>3, BroadcastSubmits, WaitOrReject DEF Fault, Submission!Next
  <2>4. CASE Chain
    BY <1>2, <2>4, ChainExecutes DEF Chain, Submission!Next
  <2>5. CASE UNCHANGED vars
    BY <2>5 DEF vars, Submission!vars, Strict, Outcome, Hashes, Executed, Txs
  <2>6. QED
    BY <1>2, <2>1, <2>2, <2>3, <2>4, <2>5 DEF Next
<1>3. QED
  BY <1>1, <1>2, SubmitFlowInvariant, PTL DEF Spec, ImplementsSubmission, Submission!Spec

-----------------------------------------------------------------------------
(* The variant.                                                            *)

(* What the variant counts, and the rank at each await.                    *)
Sizes ==
  /\ Len(plan) \in Nat /\ Len(unsigned) \in Nat
  /\ pulled \in Nat /\ sent \in Nat
  /\ pulled <= Len(plan) /\ Len(unsigned) <= pulled
  /\ sent <= Len(unsigned)
  /\ AfterFlush \in {0, 5}
  /\ LET left == 6 * (Len(plan) - pulled) + 2 * (Len(unsigned) - sent)
     IN  /\ pc = "pull" => Rank = left + 5
         /\ pc \in {"sign", "confirm"} => Rank = left + AfterFlush + 3
         /\ pc = "broadcast" => Rank = left + AfterFlush + 2
         /\ pc \in {"done", "failed"} => Rank = 0

LEMMA SizesHold == IInv => Sizes
<1> SUFFICES ASSUME IInv PROVE Sizes
  OBVIOUS
<1> DEFINE left == 6 * (Len(plan) - pulled) + 2 * (Len(unsigned) - sent)
<1>1. /\ Len(plan) \in Nat /\ Len(unsigned) \in Nat
      /\ pulled \in Nat /\ sent \in Nat
      /\ pulled <= Len(plan) /\ Len(unsigned) <= pulled
      /\ sent <= Len(unsigned)
      /\ AfterFlush \in {0, 5}
  BY DEF IInv, TypeOK, BufferInv, AfterFlush
<1>2. pc = "pull" => Rank = left + 5
  BY DEF Rank
<1>3. pc \in {"sign", "confirm"} => Rank = left + AfterFlush + 3
  BY DEF Rank
<1>4. pc = "broadcast" => Rank = left + AfterFlush + 2
  BY DEF Rank
<1>5. pc \in {"done", "failed"} => Rank = 0
  BY DEF Rank
<1>6. QED
  BY <1>1, <1>2, <1>3, <1>4, <1>5 DEF Sizes

LEMMA RankBounded == IInv => Rank \in 0 .. 6 * Len(plan) + 5
<1> SUFFICES ASSUME IInv PROVE Rank \in 0 .. 6 * Len(plan) + 5
  OBVIOUS
<1>1. pc \in PCs
  BY DEF IInv, TypeOK
<1>2. /\ Len(plan) \in Nat /\ Len(unsigned) \in Nat
      /\ pulled \in Nat /\ sent \in Nat
      /\ pulled <= Len(plan) /\ Len(unsigned) <= pulled
      /\ sent <= Len(unsigned)
      /\ AfterFlush \in {0, 5}
  BY SizesHold DEF Sizes
<1>3. CASE pc = "pull"
  <2>1. Rank = 6 * (Len(plan) - pulled) + 2 * (Len(unsigned) - sent) + 5
    BY <1>3, SizesHold DEF Sizes
  <2>2. QED
    BY ONLY <1>2, <2>1
<1>4. CASE pc \in {"sign", "confirm", "broadcast"}
  <2>1. Len(unsigned) >= 1
    BY <1>2, <1>4 DEF IInv, TypeOK, ControlInv
  <2>2. PICK d \in {2, 3} :
          Rank = 6 * (Len(plan) - pulled) + 2 * (Len(unsigned) - sent) + AfterFlush + d
    BY <1>4, SizesHold DEF Sizes
  <2>3. QED
    BY ONLY <1>2, <2>1, <2>2
<1>5. CASE pc \in {"done", "failed"}
  <2>1. Rank = 0
    BY <1>5, SizesHold DEF Sizes
  <2>2. QED
    BY ONLY <1>2, <2>1
<1>6. QED
  BY <1>1, <1>3, <1>4, <1>5 DEF PCs

OpenIsFinite == IsFiniteSet(Open) /\ Cardinality(Open) \in 0 .. Len(plan)

LEMMA OpenStaysFinite == IInv => OpenIsFinite
<1> SUFFICES ASSUME IInv PROVE OpenIsFinite
  OBVIOUS
<1>1. Len(plan) \in Nat
  BY SizesHold DEF Sizes
<1>2. IsFiniteSet(Txs) /\ Cardinality(Txs) = Len(plan)
  <2>1. /\ IsFiniteSet(1..Len(plan))
        /\ Cardinality(1..Len(plan)) =
              IF 1 > Len(plan) THEN 0 ELSE Len(plan) - 1 + 1
    BY <1>1, FS_Interval
  <2>2. QED
    BY <1>1, <2>1 DEF Txs
<1>3. Open \subseteq Txs
  BY DEF Open
<1>4. QED
  BY <1>1, <1>2, <1>3, FS_Subset, FS_CardinalityType DEF OpenIsFinite

(* The steps of the loop: each lowers the rank, and the chain is not       *)
(* concerned.                                                              *)
LEMMA LoopCosts == ASSUME IInv, Sizes, Sizes', Loop PROVE Rank' < Rank /\ Open' = Open
<1>1. plan' = plan /\ status' = status
  BY DEF Loop, Yield, GeneratorEnds, Sign, SendWaitReturns, FlushReturns,
         callVars, chainVars
<1>2. Open' = Open
  BY <1>1 DEF Open, Txs
<1>3. CASE Yield
  <2>1. /\ pc = "pull" /\ pulled' = pulled + 1 /\ Len(unsigned') = Len(unsigned) + 1
        /\ sent' = sent /\ pc' \in {"pull", "sign"}
    BY <1>3 DEF Yield, sendVars, IInv, TypeOK
  <2>2. QED
    BY <2>1, <1>1, <1>2 DEF Sizes
<1>4. CASE GeneratorEnds
  <2>1. /\ pc = "pull" /\ ended' = TRUE /\ pc' \in {"done", "sign"}
        /\ UNCHANGED <<pulled, unsigned, sent>>
    BY <1>4 DEF GeneratorEnds, sendVars
  <2>2. AfterFlush' = 0
    BY <2>1 DEF AfterFlush
  <2>3. QED
    BY <2>1, <2>2, <1>1, <1>2 DEF Sizes
<1>5. CASE Sign
  <2>1. /\ pc = "sign" /\ pc' = "broadcast" /\ sent' = 0 /\ sent = 0
        /\ UNCHANGED <<pulled, unsigned, ended>>
    BY <1>5 DEF Sign, loopVars, IInv, ControlInv
  <2>2. AfterFlush' = AfterFlush
    BY <2>1 DEF AfterFlush
  <2>3. QED
    BY <2>1, <2>2, <1>1, <1>2 DEF Sizes
<1>6. CASE SendWaitReturns
  <2>1. /\ pc = "broadcast" /\ sent = Len(unsigned) /\ sent' = 0
        /\ Len(unsigned') = 0 /\ UNCHANGED <<pulled, ended>>
        /\ pc' = IF ended THEN "done" ELSE "pull"
    BY <1>6 DEF SendWaitReturns, FlushReturns
  <2>2. ended \in BOOLEAN
    BY DEF IInv, TypeOK
  <2>3. CASE ended
    BY <2>1, <2>3, <1>2 DEF Sizes
  <2>4. CASE ~ended
    <3>1. AfterFlush = 5 /\ pc' = "pull"
      BY <2>1, <2>4 DEF AfterFlush
    <3>2. QED
      BY <2>1, <3>1, <1>1, <1>2 DEF Sizes
  <2>5. QED
    BY <2>3, <2>4
<1>7. QED
  BY <1>2, <1>3, <1>4, <1>5, <1>6 DEF Loop

LEMMA BroadcastCosts ==
  ASSUME IInv, Sizes, Sizes', Broadcast \/ BroadcastReplyLost
  PROVE  Rank' < Rank /\ Open' = Open
<1>1. /\ pc = "broadcast" /\ sent < Len(unsigned)
      /\ network' = Append(network, unsigned[sent + 1])
      /\ status' = [status EXCEPT ![unsigned[sent + 1]] =
                        IF @ = "none" THEN "pooled" ELSE @]
      /\ UNCHANGED <<plan, pulled, ended, unsigned>>
      /\ \/ sent' = sent + 1 /\ pc' \in {"broadcast", "confirm"}
         \/ pc' = "failed"
  BY DEF Broadcast, BroadcastReplyLost, callVars, loopVars, sendVars
<1>2. /\ status'[Flushed + sent + 1] = "pooled"
      /\ status[Flushed + sent + 1] = "none"
      /\ \A i \in Txs : i # Flushed + sent + 1 => status'[i] = status[i]
  BY <1>1, Broadcasting, NextTx
<1>3. Open' = Open
  BY <1>1, <1>2 DEF Open, Txs
<1>4. AfterFlush' = AfterFlush
  BY <1>1 DEF AfterFlush
<1>5. Rank' < Rank
  <2>1. /\ Len(plan) \in Nat /\ Len(unsigned) \in Nat /\ pulled \in Nat /\ sent \in Nat
        /\ pulled <= Len(plan) /\ AfterFlush \in {0, 5}
    BY DEF Sizes
  <2>2. Rank = 6 * (Len(plan) - pulled) + 2 * (Len(unsigned) - sent) + AfterFlush + 2
    BY <1>1 DEF Sizes
  <2>3. CASE pc' = "failed"
    <3>1. Rank' = 0
      BY <2>3 DEF Sizes
    <3>2. QED
      BY ONLY <1>1, <2>1, <2>2, <3>1
  <2>4. CASE pc' # "failed"
    <3>1. /\ sent' = sent + 1 /\ pc' \in {"broadcast", "confirm"}
          /\ plan' = plan /\ pulled' = pulled /\ unsigned' = unsigned
      BY ONLY <1>1, <2>4
    <3>2. PICK k \in {2, 3} :
             Rank' = 6 * (Len(plan') - pulled') + 2 * (Len(unsigned') - sent') + AfterFlush' + k
      BY <3>1 DEF Sizes
    <3>3. Rank' = 6 * (Len(plan) - pulled) + 2 * (Len(unsigned) - (sent + 1)) + AfterFlush + k
      BY ONLY <1>4, <3>1, <3>2
    <3>4. QED
      BY ONLY <2>1, <2>2, <3>3
  <2>5. QED
    BY <2>3, <2>4
<1>6. QED
  BY <1>3, <1>5

LEMMA WaitCosts ==
  ASSUME IInv, Sizes, Sizes', Confirm \/ WaitFails \/ Throws
  PROVE  Rank' < Rank /\ Open' = Open
<1>1. /\ UNCHANGED <<plan, status, pulled, ended, unsigned, sent>>
      /\ \/ pc = "confirm" /\ pc' = "broadcast"
         \/ pc \in {"pull", "sign", "broadcast", "confirm"} /\ pc' = "failed"
  BY DEF Confirm, WaitFails, Throws, callVars, loopVars, sendVars, chainVars
<1>2. Open' = Open /\ AfterFlush' = AfterFlush
  BY <1>1 DEF Open, Txs, AfterFlush
<1>3. Rank' < Rank
  BY <1>1, <1>2 DEF Sizes
<1>4. QED
  BY <1>2, <1>3

LEMMA ChainCosts ==
  ASSUME IInv, NEW c \in Txs, ChainSettles(c) \/ ChainDrops(c)
  PROVE  Rank' = Rank /\ Open' = Open \ {c} /\ c \in Open
<1>1. UNCHANGED <<plan, pc, pulled, ended, unsigned, sent>> /\ status[c] = "pooled"
  BY DEF ChainSettles, ChainDrops, callVars, loopVars, sendVars
<1>2. PICK s \in Settled \cup {"dropped"} : status' = [status EXCEPT ![c] = s]
  BY DEF ChainSettles, ChainDrops
<1>3. status'[c] = s /\ \A i \in Txs : i # c => status'[i] = status[i]
  BY <1>2 DEF IInv, TypeOK
<1>4. Open' = Open \ {c} /\ c \in Open
  BY <1>1, <1>3 DEF Open, Txs, Settled
<1>5. Rank' = Rank
  BY <1>1 DEF Rank, AfterFlush
<1>6. QED
  BY <1>4, <1>5

(* Whatever happens, at most 7 steps for each transaction of the plan and  *)
(* five more are ever taken: the call cannot go round in circles, so the   *)
(* only way for it not to end is to wait for an answer that never comes.   *)
THEOREM StepsAreBounded == Spec => []StepsBounded /\ StepsCost
<1>1. IInv => StepsBounded
  BY SizesHold, RankBounded, OpenStaysFinite
  DEF Sizes, OpenIsFinite, StepsBounded, StepsLeft, MaxSteps
<1>2. IInv => /\ Sizes /\ OpenIsFinite
              /\ Rank \in 0 .. 6 * Len(plan) + 5
  BY SizesHold, OpenStaysFinite, RankBounded
<1>3. ASSUME IInv, Sizes, Sizes', OpenIsFinite, OpenIsFinite',
             Rank \in Int, Rank' \in Int, Next
      PROVE  StepsLeft' < StepsLeft
  <2>1. Cardinality(Open) \in Int /\ Cardinality(Open') \in Int
    BY <1>3 DEF Sizes, OpenIsFinite
  <2>2. CASE Loop \/ Sending \/ Fault
    <3>1. Rank' < Rank /\ Open' = Open
      BY <1>3, <2>2, LoopCosts, BroadcastCosts, WaitCosts DEF Sending, Fault
    <3>2. QED
      BY <1>3, <2>1, <3>1 DEF StepsLeft
  <2>3. CASE Chain
    <3>1. PICK c \in Txs : ChainSettles(c) \/ ChainDrops(c)
      BY <2>3 DEF Chain
    <3>2. Rank' = Rank /\ Open' = Open \ {c} /\ c \in Open
      BY <1>3, <3>1, ChainCosts
    <3>3. Cardinality(Open') = Cardinality(Open) - 1
      BY <1>3, <3>2, FS_RemoveElement DEF OpenIsFinite
    <3>4. QED
      BY <1>3, <2>1, <3>2, <3>3 DEF StepsLeft
  <2>4. QED
    BY <1>3, <2>2, <2>3 DEF Next
<1>4. ASSUME IInv, IInv', [Next]_vars PROVE [StepsLeft' < StepsLeft]_vars
  <2>1. Sizes /\ OpenIsFinite /\ Rank \in 0 .. 6 * Len(plan) + 5
    BY <1>2, <1>4
  <2>2. (Sizes /\ OpenIsFinite /\ Rank \in 0 .. 6 * Len(plan) + 5)'
    BY <1>2, <1>4, PTL
  <2>3. Rank \in Int /\ Rank' \in Int
    BY <2>1, <2>2 DEF Sizes
  <2>4. QED
    BY <1>3, <1>4, <2>1, <2>2, <2>3
<1>5. QED
  BY <1>1, <1>4, SubmitFlowInvariant, PTL DEF Spec, StepsCost
=============================================================================
