# TLA+ models of the Wormhole connect SDK

The SDK moves tokens between blockchains: it submits transactions on a source
chain, waits for the guardians to attest the message they emitted, and submits
the attestation on a destination chain.  This directory holds TLA+ modules of
the parts of the SDK in which something can go wrong over time, TLC runs that
check them on small instances, and TLAPS proofs for every instance.

## The system

| part | state it keeps | operations | hard because |
|---|---|---|---|
| `connect/src/protocols/tokenTransfer.ts` | `state`, `txids`, `vaas` of one object | `from`, `initiateTransfer`, `fetchAttestation`, `completeTransfer`, `getTransferState` | every method is async; calls on one object interleave at the awaits; state is checked before and set after them; transactions are sent that cannot be unsent |
| `connect/src/protocols/cctpTransfer.ts` | the same, with Circle attestations | the same | two kinds of attestation, parallel redemptions |
| `connect/src/protocols/gatewayTransfer.ts` | the same, with IBC transfers | the same | three legs over the gateway chain, an array that is reset across awaits, several pollers |
| submission loop (in all three) and `sendWait` of each platform | buffer of unsigned transactions, hashes | flush at a transaction that is not parallelizable | order of execution, partial failure |
| `connect/src/protocols/poller.ts` | counter, interval | `retry` | overlapping, late and rejecting tasks |
| `connect/src/wormhole.ts` | configuration | VAA and status queries with retries | timeouts |
| `core/definitions/src/chain.ts` | cached clients | `getRpc`, `getTokenBridge`, ... | filled across an await |
| `platforms/*/src/protocols` | none (contracts hold it) | generators of transactions | order and number of transactions |
| `platforms/solana/src/protocols/tokenBridge.ts`, `utils` | none (accounts on the chain) | `redeem`: create account, verify signatures in batches, post, redeem | up to six transactions that depend on each other, one blockhash, repeated attempts |
| `core/definitions/src/vaa.ts`, `payloads`, `layout-items`, `core/base/src/utils/layout` | none (the table of payloads, filled when loaded) | create, serialize, deserialize, discriminate | bounds, lengths inside lengths, inverse of each other |
| registries, constants, signers of the examples, generated code | tables | lookup | little |

They interact by calls and promises in one JavaScript thread: a transfer object
asks its `ChainContext` for a bridge, pulls transactions from the bridge's
generator, hands them to the signer and to `sendWait` of the platform, and
queries the guardians' API through `Wormhole`.  What it shares with the rest of
the world is on the chains.

What makes them correct, part by part:

* transfers: an object never records a message twice; it submits nothing that was
  not signed; its state does not run ahead of what happened, and goes back only by
  a call that was in flight before; it sends the funds once; whatever fails, the
  funds can be recovered from a transaction id;
* submission: transactions reach the chain in order, once each, and all hashes
  come back; a transaction whose order matters is executed before the next;
* poller: it neither gives up early nor polls for ever nor after it settled;
* a redemption on Solana: every transaction finds what the earlier ones left, a
  call that returns has redeemed, and an attempt that was cut short can be
  repeated;
* codecs: what is signed is read back with its hash, what is read is serialized
  to the bytes it came from, and the discriminator names the layout that fits.

`PROJECT.json` lists the hazards with their source lines and the properties
that would catch them.

## Modules

### TokenTransfer (core)

One `TokenTransfer` object between two EVM chains, the calls in flight on it
(`Calls`), and the world.  `state`, `txids` and `vaas` are the fields of the
object (`<<>>` is undefined); `pc[c]` is the await at which call `c` is
suspended, `hashes[c]`, `idx[c]`, `limit[c]` are its locals.  An action is the
code between two awaits, so all interleavings of the calls are explored:

| action | code |
|---|---|
| `BeginInitiate`, `Prepared`, `Approve`, `Transfer`, `TransferReverts`, `Confirm`, `Parse`, `ParseFindsNone` | `initiateTransfer` with the EVM generator of the bridge |
| `BeginFetch`, `FetchArrives`, `FetchGivesUp` (loop: `FetchLoop`, `NextMissing`) | `fetchAttestation`, `getTransferVaa` |
| `BeginStatus`, `StatusCompleted`, `StatusPending` | `getTransferState` |
| `BeginComplete`, `RedeemRefused`, `Redeem`, `RedeemReverts`, `Redeemed`, `RedeemNothing` (loop: `RedeemLoop`) | `completeTransfer` with the EVM generators |
| `Rejects` | any awaited promise rejects |
| `GuardiansSign`, `RelayerDelivers` | the world |
| `Recover` | the process dies and a new object is made by `fromIdentifier` or `fromTransaction` |

A message is a number, a VAA the number of its message, a transaction hash the
number of the message the transaction emitted (`Approval` for none).  A call
that fails its first check throws and changes nothing; it is not an action.
EVM transactions are never parallelizable, so each is flushed alone; the general
loop is in `SubmitFlow`.  `redeemer` says whether `redeem` of the destination
takes the VAAs from any signer or, as for a `TransferWithPayload` of a foreign token
(`tokenBridge.ts:243`), from one only; with `"one"` each call may come with that
signer or with another.  `automatic` is fixed: `fromIdentifier` recomputes it by
comparing with the relayer of the source chain, which on EVM chains is the one
of the destination.

### CctpTransfer

One `CCTPTransfer` object between two EVM chains, in the same style as
`TokenTransfer`.  `circle` is the only entry of `circleAttestations` (every
assignment assigns an array of one), `vaa` the only entry of `vaas`; `ca[c]` is
the entry that call `c` has in its hands across an await.

| action | code |
|---|---|
| `BeginInitiate`, `Prepared`, `Approve`, `Burn`, `BurnReverts`, `Confirm` | `initiateTransfer` with the generators of `EvmCircleBridge` and `EvmAutomaticCircleBridge` |
| `FetchWormhole`; `FetchCircle`, `Parse`, `AttestationArrives`, `PollGivesUp` (loop: `CircleLoop`) | `fetchAttestation` with its two private methods and `parseTransactionDetails` |
| `BeginComplete`, `Mint`, `MintReverts`, `Minted` | `completeTransfer` with `EvmCircleBridge.redeem` |
| `Attest`, `RelayerDelivers`, `Recover`, `Rejects` | the world, `from`, rejected promises |

`retry` appears as its outcome (an attestation, or `null`), which `Poller`
describes.  EVM transactions are never parallelizable, so the branch of
`completeTransfer` that would flush a rest (lines 396-400, where `txHashes` is
shadowed) is not reached with the bridges of this repository.

### GatewayTransfer

One `GatewayTransfer` object, the calls in flight on it, and the chains it
crosses.  `route` says which of the three ways it goes: into Cosmos (`"in"`), out
of it, or through wormchain.  `plain` is what of its contents changes its course:
the fee and the payload that spoil the recovery of one into Cosmos, the payload that
makes `redeem` refuse one out of it.  `txs`, `vaa` and `ibc` are `transactions`, `vaas[0]`
and `ibcTransfers`.

| action | code |
|---|---|
| `BeginInitiate`, `Prepared`, `Approve`, `Send`, `SendReverts`, `SendFails`, `Confirm` | `initiateTransfer`, `_transfer`, `_transferIbc` |
| `BeginFetch`, `ReadTransactions` | the first lines of `fetchAttestation`, which reset `ibcTransfers` and read `transactions[0]` |
| `LegsFound`, `LegsFailed`, `PacketFound`, `PacketMissing`, `VaaArrives`, `VaaMissing` | from the gateway: `lookupTransferFromTx` and the legs that follow |
| `Parse`, `ParseNothing`, `VaaArrives`, `VaaMissing`, `PollTrue`, `PollFalse`, `LookupFinds`, `LookupGivesUp` | into the gateway: message, VAA, poll for redemption, lookup by message |
| `BeginComplete`, `TakeVaa`, `RedeemRefused`, `Redeem`, `RedeemReverts`, `Redeemed` | `completeTransfer` |
| `Arrive`, `Sign`, `Recover`, `Rejects` | relayers and guardians, `from`, rejected promises |

A Cosmos transaction that failed on chain is `SendFails`: `broadcastTx` answers
with its hash all the same and `sendWait` does not look at the code.

### WormholeTransfer

The abstract life cycle behind the interface of `wormholeTransfer.ts`: no calls,
no hashes, no loops.  `TokenTransfer`, `CctpTransfer` and `GatewayTransfer` with
one call at a time implement it (`Lifecycle` in each, by the mapping `sent` =
messages emitted, `held` = attestations in the object, `delivered` = messages
redeemed).  A gateway transfer into Cosmos is redeemed on wormchain by others, as
an automatic transfer is; one through wormchain has no attestation and maps to
stuttering.

### TransferScript

`TokenTransfer` driven by the documented sequence of calls: `initiateTransfer`,
then `fetchAttestation` and `completeTransfer`, or the `waitLog` loop.  A script
that was cut short by a fault is finished with `finishTransfer` from the
transaction id, or started over if the object is still `Created`.  The user has one
signer on the destination: `named` says whether it is the one that a bridge with
`redeemer = "one"` asks for, and `Accepted` that `redeem` does not refuse it.

### SubmitFlow

The `unsigned`/flush loop and the three `sendWait`.  `plan` is what the
generator yields, as a sequence of kinds; the chain includes, reverts or (Solana)
drops what is in its pool at any time.  `platform` chooses the wait: after each
transaction (Evm, Cosmwasm), after the batch (Solana), never (Celo).

### OrderedSubmission

What the `parallelizable` flag and `sendWait` promise of a plan, without buffers
or waits: one transaction after the other, each once, none ahead of an earlier
one whose order matters and that was not executed, all hashes at the end.
`SubmitFlow` implements it (`Submission`: `executed` = included or reverted,
`strict` = not Celo, a call that failed is a rejected one).

### Poller

`retry`: the interval, the counter, and the tasks in flight.

### SolanaRedeem

`completeTransfer` into Solana: the transactions that `redeem` of the Solana
token bridge yields, the loop that flushes them, `sendWait` with its simulation
before the broadcast, and the chain.  A VAA is the size of its guardian set, its
signatures, and whether its token is Solana's own (`native`); a signature is one
half of it, a number digit by digit, because `Wire` is the encoding of
`signature.ts`, which loses zeros.  `wrapped` says whether the token has a mint on
Solana.  Several calls may overlap; each has a signature set of its own, and they
share the token account, the posted VAA and the redemption.

| action | code |
|---|---|
| `Begin`, `GetBlockhash`, `RefuseNative`, `WrappedFound`, `NotWrapped`, `ReadAccount`, `ReadConfig`, `RefuseGuardians` | the awaits of `redeem` before its transactions, `getWrappedAsset` among them |
| `Broadcast`, `BroadcastRefused`, `Confirm`, `ConfirmTimesOut` (operators `Flush`, `FlushEnd`, `Batch`) | the loop of `completeTransfer` and Solana's `sendWait` |
| `Lands`, `Lost`, `Expires`, `Rotate`, `Wrap`, `Rejects` | the chain, the blockhash, the guardians, the attestation of a token, rejected promises |

### LayoutItems, Layout, Discriminator, Payloads, VaaCodec

`LayoutItems` has the kinds of items a layout is made of.  `Layout` is the serialization of `core/base/src/utils/layout`: items of fixed,
prefixed and open length, arrays, objects, fixed and omitted values; a refusal is
a value that travels up.  `Discriminator` is `discriminate.ts`: bounds, fixed
bytes, and the search for a strategy.  `Payloads` holds the layouts of all
registered payloads, item by item, with the widths as parameters.  `VaaCodec` is
`vaa.ts` and `getTransferVaa` on top of them: VAAs are signed and set out as
bytes, the bytes may be damaged on their way, they are read under a literal or
by a transfer, and what was read is submitted.

What `vaa.ts` imports of the layout package are constant operators of `VaaCodec`
(`SerializeLayout`, `DeserializePart` and so on); `MCVaaCodec.cfg` gives them the
recursive definitions of `Layout` and `Discriminator`, so the run checks the code
as a whole, and the proofs speak of any package that keeps the laws `WritesBytes`,
`ReadsByName`, `RoundTrips`, `SerializesItems` and `ReadsPayloadAlone` of the bytes that
come, and `WritesAndReads` of what is signed.  The assumption `LayoutLaws` of
`MCVaaCodec` checks these laws of `Layout` for every VAA of the run, for its bytes and
for each of them with one byte changed, and that the guardians of the run keep
`SignedInOrder`.

## Runs

| run | shows |
|---|---|
| `token_transfer_two_calls` | two calls in flight, two attempts, both modes and tokens, faults and crashes: redemption with the right signer and the wrong: `VaasDistinct`, `RedeemsSigned`, `CompleteReturnsAll`, `FetchReturnsAll`, `NeverSetBack` |
| `token_transfer_one_call` | one call at a time, three attempts: `AttestedHasAll`, `TxidsCoverVaas`, and the refinement `ImplementsLifecycle` |
| `transfer_script` | the documented use with up to two faults, by a user whose signer is accepted and by one who is refused: `CallsAreValid`, `ReturnMeansDelivered`, `FundsArrive`, `ScriptEnds` |
| `cctp_two_calls` | two calls in flight on a `CCTPTransfer`, two attempts, both modes, faults and crashes: `ParsesABurn`, `SubmitsAttested`, `CallEnds` |
| `cctp_one_call` | one call at a time, three attempts: `AttestedHasAttestation`, `AttestationMatchesId`, `CompleteReturnsMinted`, and the refinement `ImplementsLifecycle` |
| `gateway_transfer` | three routes, two calls, two attempts, one fault: `NothingFailedIsAttested` however the calls overlap; `OwnVaa`, `ReturnsOneLeg`, the refinement `ImplementsWhileAlone` and the liveness `ReachesItsEnd` until they do |
| `submit_loop` | all plans of up to four transactions on Evm, Celo, Solana and Cosmwasm: `HashesComplete`, `OrderedExecution`, `EvmStopsAtFailure`, the refinement `ImplementsSubmission`, `CallEnds` |
| `retry_poller` | up to four retries, three overlapping tasks, two rejections: `GivesUpOnlyWhenExhausted`, `CallsBounded`, `QuietOnceSettled`, `Settles` |
| `solana_redeem` | two calls that may overlap, VAAs with 1, 13 and 19 signatures and one of a token of Solana, a mint that is there or made at any time, one loss, delay, expiry or rejection, new guardians at any time: `ReturnMeansRedeemed`, `ThrowsForAReason`, `RedeemedAtLast` |
| `vaa_codec` | VAAs of eight literals, one byte of damage anywhere, all literals and both readers, eight families of layouts: `SubmitsWhatCame`, `ReadsWhatWasSigned`, `EachGuardianSignsOnce`, `Discriminates` |

The bounds and why they are enough:

* Two calls are enough for the interleavings of `TokenTransfer`: the properties
  compare at most two entries or two hashes, and `TokenTransferProofs` has no
  bound on the calls.  Two attempts give two entries of `vaas`, which a loop can
  skip, exchange or duplicate.  `redeemer = "one"` has the behaviours of `"any"` and the
  refusals, so that the runs of the object alone need no other value.  Three attempts with one call allow a failed
  transfer to be repeated twice.
* In `gateway_transfer` two attempts give a transfer that the object forgot and
  whose message the lookup may find, and one fault is enough to cut the first
  attempt short.  The proofs have no bound.
* Four transactions in `submit_loop` allow two batches of two.
* In `solana_redeem` one signature is one batch, 13 are the quorum of 19 guardians
  and two batches, 19 are three.  One fault in each call position leaves every
  intermediate state of the chain for the next attempt.
* In `vaa_codec` a byte has five values, which leaves room for the identifiers 1 to
  4 of the payloads; numbers are one or two bytes wide, lists have up to three
  entries, and every damaged string of those lengths is read.  No code depends on a width
  beyond its own item.

Runs that end in a violation state what the repository says and the code does
not do; the findings quote both:

| run | what happens |
|---|---|
| `initiate_with_approval` | an ERC-20 transfer that needs an approval is sent and `initiateTransfer` throws on the approval's hash |
| `solana_short_signature` | a guardian signature that begins with a zero digit is encoded as another one, its verification is refused and the transfer cannot be redeemed |

### Known divergences

Met while modelling; the models follow the code, and no run is spent on them.

* `EvmAutomaticTokenBridge.redeem` returns its transaction instead of yielding it
  (`automaticTokenBridge.ts:59`): `completeTransfer` of an automatic transfer
  (`tokenTransfer.ts:303`) resolves without submitting anything
  (`RedeemNothing`).
* `EvmTokenBridge.redeem` compares the sender of a `TransferWithPayload` of a foreign
  token with the signer of the redemption (`tokenBridge.ts:243`, `RedeemRefused`).
  It is the signer of the source transaction that gets through, not the recipient;
  for any other signer `completeTransfer` throws on every attempt.  A gateway
  transfer with a payload has a contract as its sender and is never redeemed so.
* `redeem` of Solana begins with `getWrappedAsset` (`tokenBridge.ts:500`), which
  throws for a token of Solana (`RefuseNative`).  The branch at line 546 that would
  redeem one with `createCompleteTransferNativeInstruction` is never reached, and
  such a token cannot come home by `completeTransfer`.
* On Solana only the last transaction of a batch is confirmed
  (`platformUtils.ts:102`), where the comment at `tokenBridge.ts:534` expects the
  batch to be final before the post.  Simulation before the broadcast is what
  keeps the outcome right (`ReturnMeansRedeemed`).
* Two overlapping `fetchAttestation` of a `CCTPTransfer` each assign a fresh array
  (`cctpTransfer.ts:283`): the slower discards the attestation of the faster and
  the state stays `Attested`.  Hence `AttestedHasAttestation` with one call.
* No method of `CCTPTransfer` sets `Completed` (`cctpTransfer.ts:64`), so the
  `waitLog` loop of `examples/src/cctp.ts:73` does not end.  Of `TokenTransfer`
  only `getTransferState` of an automatic transfer sets it.
* With two `initiateTransfer` in flight `TokenTransfer` can be `Attested` with a
  VAA missing; hence `AttestedHasAll` with one call.
* `vaas` of an automatic `CCTPTransfer` is said to be populated once it is
  initiated, but only `from` populates it.
* `gatewayTransfer.ts:461` says it waits until the VAA is redeemed, but `retry`
  takes `false` for an answer and stops at once (`PollFalse`).
* When an approve came before the transfer, a `GatewayTransfer` parses the wrong
  transaction (`gatewayTransfer.ts:449`) and is never attested; overlapping
  `fetchAttestation` calls mix their legs (402).
* On Celo `sendWait` does not wait, so the order that `OrderedExecution` states is
  not kept there and the property excludes it.
* `discriminate.ts`: offsets inside a nested layout are counted from its own start
  (102, 216), so that no discriminator can be generated for the relayer's
  payloads; an open layout with lower bound 0 does not count as having a first
  byte (233); `findSmallestSuperSetStrategy` looks only at sizes below `n - 2`
  (387); a governance payload's action is not recognised as fixed (80).  The
  families of the run are those for which a discriminator is generated and right.

`CHECK_DEADLOCK FALSE` is set because each of these systems may stop: a call
ends, a script is done.

## Fairness

* `CctpTransfer!FairSpec`: weak fairness of the step that resumes a call, for
  each call: an awaited promise settles, and JavaScript then runs the function.
  Starting a call, faults and the world are not fair.  Polls give up, so
  `CallEnds` needs neither Circle nor the guardians.
* `GatewayTransfer!FairSpec`: the same, and the user calls again when nothing is
  in flight (strongly fair for `completeTransfer`, whose check passes only
  between two fetches); packets and VAAs arrive and are signed (weak); a query
  for a VAA or a transfer, asked again and again, is at last answered in time,
  which is strong fairness because each poll may give up first.
* `SolanaRedeem!FairSpec`: awaited promises settle, a transaction in the pool
  lands unless a fault takes it, and the user calls again while the transfer is
  not redeemed.  That a token gets a mint is not fair; `RedeemedAtLast` has it as a
  premise.
* `TransferScript!ScriptSpec`: in addition the script makes its next call, the
  guardians sign, the relayer delivers, and the user runs `finishTransfer` again
  (weak fairness); the status service may answer late but not never, which is
  strong fairness of `StatusCompleted` because polls may answer "pending" in
  between.  A user who is refused tries again and again too, which is why
  `ScriptEnds` says of one only that no attempt waits for ever.  Faults are bounded by `MaxFaults`, which is what makes liveness
  possible.
* `SubmitFlow!FairSpec`, `Poller!FairSpec`: the loop runs on, waits end, a chain
  settles or drops what it holds, timers fire and tasks answer (except the ones
  that reject, at most `MaxRejects`).

## Proofs

TLAPS proves, for all values of the constants that satisfy the named
assumptions:

* `TokenTransferProofs`: `IInv` is inductive, for any set of calls.  The
  properties alone are not: that entries of `vaas` are distinct needs that a hash
  not yet parsed is in no entry (`UnparsedIsNew`), and this that no two hashes,
  of any two calls, name the same message (`HashesOwned`); that only signed
  messages are redeemed needs that a call that is redeeming stands at an entry
  with a VAA (`CallAt`).  One lemma per action; `EndsKeeps`, `FetchLoopKeeps` and
  `RedeemLoopKeeps` carry what the actions share.  Consequences: `VaasDistinct`,
  `RedeemsSigned` and three action properties: `CompleteReturnsAll`;
  `FetchReturnsAll`, from the part of `CallAt` that no entry before the one a
  fetch stands at is without VAA, which other calls keep because they push
  behind and store only VAAs; and `NeverSetBack`, because a call that is
  `Settled` assigns the state it passed the check of, or a later one
  (`CallStaysSettled`).  `ApprovalFirst` (an approval is the first hash of its
  call, or there is none) joins the invariant for `InitiateReturnsUnlessApproved`:
  without faults `initiateTransfer` returns exactly if no approval was needed,
  which is the extent of the divergence that `initiate_with_approval` shows.
  Its second part is under `OneAtATime`, that is one slot for calls:
  `OneCallInv` is inductive and says at each await what state the object is in
  and how far its lists are filled, that before `Initiated` it holds nothing, and
  that there are no more messages than attempts.  From it
  `AttestedHasAll`, `TxidsCoverVaas` and the refinement of `WormholeTransfer`
  (`TransferImplementsLifecycle`: each step, a crash's recovery included, maps to
  one abstract step or to a stutter).  That no attempt sends twice
  (`EachAttemptSendsOnce`: `Len(vaas) <= emitted <= attempts`) holds for any set
  of calls: the calls that have passed the first check and not sent yet account
  for the attempts that have sent nothing (`Accounted`), and the pigeonhole
  principle, as the entries of `vaas` are distinct, for those that sent and are
  not in it.
* `TransferScriptProofs`: under `OneAtATime` `ScriptInv` is inductive: what is left
  of the script, where its call is suspended, and what the object must be for the
  next call.  A step of the call ends in one of four ways (it waits, throws, asks
  again, or turns to the next call), one lemma for each.  From it `CallsAreValid`
  and `ReturnMeansDelivered`.  Every step of the script is a step of the object
  (`ScriptUsesTheObject`), so that the documented use inherits the life cycle
  (`ScriptImplementsLifecycle`).
* `CctpTransferProofs`: `IInv` is inductive for any set of calls and gives
  `ParsesABurn` (a call that has confirmed holds the burn as its last hash) and
  `SubmitsAttested` (what a call submits as an attestation was given, even if for
  another message: `completeTransfer` has looked, because the state does not tell).  Under `OneAtATime`, that is one slot for
  calls, `OneCallInv` is inductive: it says what the object looks like at each
  await of the call, and that there are no more burns than attempts.  From it
  `AttestedHasAttestation`, `AttestationMatchesId`, `CompleteReturnsMinted` and
  the refinement of `WormholeTransfer` (`CctpImplementsLifecycle`: each step maps
  to one abstract step or to a stutter).  `EachAttemptBurnsOnce` needs no
  `OneAtATime`: it is proved as for `TokenTransfer`.
* `SubmitFlowProofs`: the inductive invariant relates the buffer to the
  generator's position, the hashes and the network to the buffer, and the chain's
  status to the network; from it `InOrder`, `HashesComplete`, `OrderedExecution`
  and `EvmStopsAtFailure`, and the refinement of `OrderedSubmission`
  (`SubmitFlowImplementsSubmission`: only a broadcast and the step that ends the
  call are seen from outside).  `StepsAreBounded` is the safety half of
  `CallEnds`: a variant that each step lowers allows at most seven steps for a
  transaction and five more, so a call that does not end waits for an answer.
* `GatewayTransferProofs`: `IInv` is inductive for any set of calls; it says where
  a call can stand on each route and gives `NothingFailedIsAttested`.  `AloneInv`
  says in addition what the object looks like at each await as long as no call
  has begun while another was in flight (`overlapped` is history); it gives
  `OwnVaa`, `ReturnsOneLeg` and the refinement `ImplementsWhileAlone`.
  `EachAttemptSendsOnce` as above, a transaction that is included as a failed
  one counted.
* `SolanaRedeemProofs`: for signature lists of any length the batches of seven
  partition it (`BatchesPartition`) and at most three go out for up to 19
  signatures (`AtMostThreePairs`); a scalar other than zero arrives as it was signed exactly
  if it does not begin with a zero (`WholeScalarsArrive`, `ShortScalarsDoNot`); and a
  call that returns has redeemed (`ReturnedIsRedeemed`), from the invariant that a
  redemption in the pool was seen to succeed in a state whose facts stay.
  `QuietInv` says where a call stands while nothing outside has failed: what it
  has broadcast is confirmed, what it still has to send is the rest of the plan,
  and the chain holds what the sent part leaves.  It gives the action property
  `ThrowsForAReason` (`ThrowsOnlyForAReason`): of what makes a call throw only the
  want of a mint is left.  The extent of the divergence that
  `solana_short_signature` shows is proved from both sides: a VAA with a
  signature that the encoding changes is never redeemed (`OnlyIntactIsRedeemed`,
  where a wrong signature stays wrong in every signature set), and with none of
  them every verification under the guardians in office succeeds
  (`IntactVerificationsPass`).
* `PollerProofs`: every call is awaited, counted or rejected; from it
  `GivesUpOnlyWhenExhausted`, `CallsBounded`, `QuietOnceSettled`.
* `VaaCodecProofs`: the invariant is short (what was read was read from the data,
  under a registered literal; what was sent is that, serialized), the work is in the
  lemmas on `vaa.ts`.  `SignersAreDistinct` (`EachGuardianSignsOnce`): a strictly
  ascending list counts no guardian twice, and no body has a name that would
  hide the header's signatures in the object.  `SubmitsTheBytesThatCame`
  (`SubmitsWhatCame`): header and body have no name in common, the layout of
  `serialize` is the one and then the other, and so the VAA is written as it was
  read if its two parts are.  `SignedIsReadAsSigned` (`ReadsWhatWasSigned`): what was
  created and arrives undamaged is read as it was created.  Proved is what
  `vaa.ts` adds to the package: that the hash of the body that is read is the one
  that was signed, that header and body hide none of each other's fields, that the
  bytes of the payload stand in the same place whether it is read by its layout or
  as bytes, and that its first byte leads `getTransferVaa` to the literal it was
  created under.  `SignedInOrder` is needed: signatures out of order are refused,
  and a payload created as bytes may be those of a transfer.  The other
  hypotheses are laws of the layout package alone,
  for layouts `vaa.ts` hands it; its operators are recursive over the data, so
  that `Layout` keeps the laws for all bytes cannot be proved here and is checked
  by the assumption `LayoutLaws`.

Of liveness the safety half is proved: a call that does not end waits for an
answer that never comes.  `AnswersLeft` is how many answers a call awaits at
most from where it is suspended.

* `CallsGoOn` of `CctpTransferProofs` and `GatewayTransferProofs` (at most four and
  six answers), for any set of calls, with faults and crashes: wherever a call is
  suspended an answer takes it on (`NoCallIsStuck`), nearer to its end, and no step
  of another call, of the chains or of a crash sets it back (`CallsAdvance`).
* `CallsGoOn` of `TokenTransferProofs`: the same, with at most six answers for
  `initiateTransfer` and two for each entry of `vaas` for the others; whatever
  overlapping calls do to the shared array, the entry a call stands at is there.
  One thing sets a call back, and no other: `for (cachedVaa of vaas)` walks over an
  array that `initiateTransfer` pushes to, so that `completeTransfer` then has one
  entry more to redeem.  `EachAttemptSendsOnce` bounds how often.
* `CallsGoOn` of `SolanaRedeemProofs`: at most two answers for a batch of
  signatures and ten more, sixteen for nineteen guardians.
* `PollingIsBounded` of `PollerProofs`: a pending `retry` can always go on, and takes
  at most `2 * (MaxRetries + MaxLag - 1) + 1` steps and two for each rejection.

`CanResume` and `CanStep` write out when `Resumes` and the poller's `Next` are
possible, because `ENABLED` is out of the prover's reach.  That they say the same
is what `\A c \in Calls : CanResume(c) <=> ENABLED Resumes(c)` and
`CanStep <=> ENABLED Next`, added to the invariants of the runs, lets TLC compare;
they hold there and are no runs of their own.

Model-checked only: liveness (`CallEnds`, `FundsArrive`, `ScriptEnds`, `Settles`,
`ReachesItsEnd`, `RedeemedAtLast`), which is out of the prover's reach,
save for the half above; `Discriminates`, which says what the recursive operators of `Discriminator` compute.

## Not modelled

* Amounts, addresses and payload contents in the life cycles (nothing there
  depends on them except the allowance, which counts transfers, who may redeem,
  which is `redeemer`, and `plain` of a gateway transfer), gas, forks that
  undo a mined transaction.
* `ChainContext`: overlapping calls make a client twice from the same
  configuration and keep either, which no behaviour tells apart.
* `sendAndConfirmTransactionsWithRetry` of Solana, which nothing calls; the
  instruction encoders of its programs.
* Recovery of a gateway transfer from a message id: `fetchAttestation` reads the
  first of no transactions and throws, so there is no object.
* Address formats, registries, constants, compile-time types, the signers of the
  examples, wormscan and circle clients beyond the answers they give: tables,
  conversions and single requests.
* Generated code: contract bindings, ABIs and IDL types, which are most of the
  implementation's lines (`platforms/evm/src/ethers-contracts`,
  `platforms/solana/src/utils/*/types`).  It holds no logic of the repository.
