# Verification of the SingularityNET daemon

`snetd` sits between the clients of an AI service and the service. A client
pays through a payment channel of the MultiPartyEscrow (MPE) contract: with
every call it signs the total it has spent so far on the channel, the daemon
checks and stores the signed amount, and the provider takes stored amounts to
the contract later. Several replicas of the daemon share one etcd.

These modules model the payment core of the daemon, the storages and locks
under it, the handlers and services around it and the life of its process,
check them with TLC on small instances and prove the main safety properties
with TLAPS for all instances.

## 1. Inventory

| Component (source) | State | Operations | Meets |
|---|---|---|---|
| Channel lock (`escrow/lock.go`, `snetd/cmd/channel.go`) | one key per channel: absent, `locked`, `unlocked` | Lock (Get, then CompareAndSwap or PutIfAbsent), Unlock (CompareAndSwap), the operator's delete | every paid call and claim, on all replicas |
| Channel state (`escrow/payment_channel_storage.go`, `payment_channel_api.go`, `validation.go`, `income.go`) | nonce, full amount, expiration, authorized amount, signature | merge of storage and contract, validation, income check, update of a claim | called by the channel service |
| Channel service and payment handler (`escrow/escrow.go`, `payment_handler.go`, `handler/interceptors.go`) | channel storage, payment storage, a transaction per call | StartPaymentTransaction, Commit, Rollback, StartClaim, ListClaims, Finish | lock, storage, contract, service |
| Control service (`escrow/control_service.go`) | none of its own | GetListUnclaimed, GetListInProgress, StartClaim, removal of claimed payments | channel service, contract |
| State service (`escrow/state_service.go`) | none | GetChannelState: storage, then contract, without the lock | channel service, clients that lost track of their channel |
| MPE contract (external; read by `blockchain/escrow.go`) | channel: nonce, value, expiration, recipient, group | open, add funds, extend, claim, time out | sender and provider |
| Storage interface (`escrow/atomic_storage.go`, `payment_storage.go`) | keys with a prefix per storage, gob values | Get, GetByKeyPrefix, Put, PutIfAbsent, CompareAndSwap, Delete | all of the above |
| etcd client (`etcddb/etcddb_client.go`) | etcd keys, sessions, mutexes with leases | the same, one request each; PutIfAbsent in five | lock, channel and payment storage of all replicas |
| Memory storage (`escrow/memory_storage.go`) | a map under a read-write lock | the same | a daemon that runs alone |
| gRPC proxy and unary handlers (`handler/grpc.go`) | two forwarding goroutines per call; a pipe per process | forward messages; HTTP call; run a process; echo | client, service, payment interceptor |
| Rate limiter (`ratelimit`, `handler/interceptors.go`, `handler/httphandler`) | token bucket of a library | Allow | interceptor chain, HTTP handler |
| Metrics (`metrics/utils.go`, `clients.go`, `register.go`, `*_stats.go`) | the registration token, a global | register, publish, publish again | monitoring service, every call |
| Heartbeat and alerts (`metrics/heartbeat.go`, `Notifications.go`) | two flags set at start | validate, check, alert | service, notification service |
| Process (`snetd/cmd`, `etcddb_server.go`, `config`, `blockchain/serviceMetadata.go`) | what is open, what is made | start step by step, serve, stop, close | operating system, etcd, IPFS, Ethereum |

What is hard here:

* **Concurrency.** Paid calls and claims of several replicas meet on one
  channel. Each of them reads the storage, reads the contract, waits for the
  service and writes, each access separately; only the lock orders them, and
  the control service reads and deletes without it.
* **Failure.** An access may fail and still have taken effect. The lock has no
  lease and no owner. StartClaim needs two writes. A panic of a handler, or of
  a control request, ends a process with all its calls.
* **Ordering and time.** The contract's channel changes by itself: the
  provider claims stored payments, the sender adds funds, extends the channel
  or takes an expired one back, between any two reads of the daemon.
* **Things that wait.** A mutex whose session is gone, a pipe nobody reads, a
  service that hangs, calls in progress when the process is told to stop.

What makes the components correct:

* lock: exclusion, whatever fails; a stranded lock is recovered by the
  operator only;
* channel service: no lost update, a stored amount always carries the
  signature the contract will check, the stored nonce never goes back, the
  sender pays for answered calls only, every answered call is paid when
  nothing fails and no process ends, and every way out of a call gives the
  lock back;
* merge and validation: work is only done against tokens the contract still
  has beyond all pending payments;
* control service: no empty claims, no gap between the contract's nonce and
  the stored one, lists for the provider only;
* gRPC proxy and handlers: success, which commits the payment, exactly for a
  complete answer; the handler and its goroutines end, since the channel is
  locked until then;
* storages: every operation takes effect at one moment, and every replica
  finds what another one stored;
* state service: a reply is a state the channel was in, with the signature
  for it;
* rate limiter: the configured rate and burst bound every stretch of time, and
  refusals cost nothing;
* metrics: one retry, whoever changes the token meanwhile; heartbeat: a service
  that hangs does not keep a check beyond its deadline, and no check harms the
  daemon;
* process: calls are drained before their storage is closed, and what was opened
  is released however main's goroutine ends.

`PROJECT.json` lists the hazards line by line, with the properties aimed at
each.

## 2. Modules

| Module | Models |
|---|---|
| `Mutex` | what the lock promises: a channel is free, owned, or stranded |
| `Locker` | `lock.go` and `snetd channel --unlock`, access by access |
| `ChannelState` | pure functions on channels, payments and signatures |
| `Escrow` | EXTENDS `ChannelState`, `Locker`: paid calls, claims, crashes, the contract |
| `EscrowAccounts` | EXTENDS `Escrow`: properties that add up money, a sum of amounts being the number of tokens they stand for |
| `EscrowLosses` | EXTENDS `EscrowAccounts`: the same with a history of the money that processes had in hand when they ended |
| `ControlRequests` | the checks in front of the provider's lists |
| `StateService` | EXTENDS `Escrow`: `GetChannelState` beside everything else |
| `AtomicStorage` | what a storage promises: each operation takes effect at one moment |
| `StorageState` | the values and operations that the two implementations of it share |
| `EtcdClient` | the etcd client, request by request; refines `AtomicStorage` |
| `EtcdLocker` | EXTENDS `EtcdClient`: `lock.go` and the unlock command over its requests; refines `Mutex` |
| `MemoryStorage` | the memory storage, map access by map access; refines `AtomicStorage` |
| `TypedStorage` | the gob encoding of keys, across replicas and restarts |
| `GrpcProxy` | `grpcToGRPC` with its two forwarding goroutines |
| `ServiceHandlers` | `grpcToJSONRPC`, `grpcToProcess`, `grpcLoopback` and the payment around them |
| `RateLimit` | the limiter, its configuration and its two users |
| `Metrics` | publishing with the shared token, registration and retry |
| `Heartbeat` | validation of its settings, health checks, alerts |
| `Lifecycle` | one run of the executable, from the configuration file to the exit |
| `LockerProofs`, `EscrowProofs`, `AccountsProofs`, `StateServiceProofs` | theorems about the payment core |
| `StorageProofs`, `EtcdLockerProofs` | theorems about the storages, and about the lock over etcd |
| `RequestPathProofs`, `DaemonProofs` | theorems about the limiter, the control requests, the proxy and the unary handlers; about metrics and the process |
| `MCEscrow`, `MCEscrowLosses`, `MCStateService`, `MCEtcdLocker`, `MCControlRequests` | instances of one component for TLC |
| `MCStorage`, `MCRequestPath`, `MCDaemon` | instances of several components that share no state, see section 3 |

### How state and actions correspond to the code

A *call* is the goroutine that serves a request; `ReplicaOf` says in which
process it runs. `pc[c]` is the next access the call makes, `req[c]` its
request, `snap[c]` the `*PaymentChannelData` it has in memory, `todo[c]` the
list `removeClaimedPayments` loops over. `store` is the channel storage, `pays`
the payment storage, `key` the lock's keys, `chain` the contract. `funded`,
`income` and `served` count for the properties and no code reads them.

A paid call goes through

    lock -> (PaymentGet) chain -> (PaymentChain) validate -> (PaymentValidate)
         -> serve -> commit -> unlock -> idle

and leaves for `unlock` at every early return behind the lock. Nothing happens
between two storage or blockchain accesses that another process could see, so
what a handler does in memory between them belongs to the access before. The
income check belongs to `PaymentValidate`; the rollback it calls is the
`unlock` step. A control request goes through

    verifyGet -> verifyChain -> list -> remove* -> beginGet -> beginChain
              -> begin -> lock -> claimPut -> paymentPut -> unlock -> idle

with everything up to `begin` outside the lock, as in the code.

Failures are counted by `faults`, bounded by `MaxFaults`. A failed read returns
its error; a failed write takes effect or does not (a timeout of the etcd
client does not say). A crash ends all the calls of a replica and leaves the
storage as it is. A panic (of the service, or the nil channel that
`beginClaimOnChannel` dereferences for an unknown channel) ends the process the
same way; the interceptor's rollback comes first.

`EscrowLosses` adds the variable `lost` to the accounts. A call has money in
hand (`InHand`) between the service's answer and its Commit, and between the two
writes of a claim; when its process ends there (`CutOff`), `lost` counts it. A
daemon serves paid and control calls in one process (`serve.go`, `start`
registers both), so a claim for an unknown channel costs the paid calls that
are in that place.

In `Escrow` a failed write takes effect at once or never. Writes that are
executed after their caller has gone on are modelled for the lock, in
`EtcdLocker`. For the channel storage they are an assumption: a Put of Commit
that is executed after the lock was given back would undo what the next call
wrote, and no code prevents it.

In `GrpcProxy`, `s2c` and `c2s` are the places of the goroutines of
`forwardServerToClient` and `forwardClientToServer`, `s2cErr` and `c2sErr` the
channels of capacity one they report to, and `turns` the loop's `i`. Messages
are counted, since streams keep their order. Client, service and the library's
streams are external: RecvMsg may report a cancelled context or a failed
service ahead of messages that are still to come, or fail for a message over
the size limit, and SendMsg answers io.EOF on a stream that has ended, whatever
ended it. A client or a service that stops reading stalls the goroutine that
sends to it, until it reads again or its stream ends. The module is about one call, which
comes to an end: its run does not check deadlock. `Escrow` takes the handler's
result as it comes (answered, failed or panicked), which covers every result of
the proxy.

In `EtcdClient`, `call[c]` and `ret[c]` are the operation of a goroutine and
its outcome, `st[c]` the next request it makes; `mutex[k]` is owned by a
goroutine, by a process that keeps a forgotten session's lease alive, or, after
a crash, by a lease that has still to expire; `late` holds the writes whose
callers have given up. The lease of a live process is taken to be kept alive:
the requests of PutIfAbsent behind mu.Lock share one deadline of seconds
(`request_timeout`, 3s by default), a session's lease has 60. The clock of a
process that is paused for longer is out of scope. `AtomicStorage` has the same
`data`, `call` and `ret`, so the refinement mapping is the identity and the
question is which request is the moment the operation takes effect: the one
that reads or writes, or the failing one. `EtcdLocker` composes lock.go with
these requests, and `owner` maps it to `Mutex`: a goroutine owns a lock from
the swap or Put that took it, and a channel is stranded when its key says
`locked` and nobody owns it, unless a PutIfAbsent is about to overwrite the
key.

`MemoryStorage` has one step for a read of the map and one for a write, so that
the lock, and not the model, makes the conditional writes atomic.

In `TypedStorage`, `types[r]` are the types a process has encoded so far in the
order of their gob numbers, and `Accesses` the storage accesses of the four
kinds of requests. A request may end after any access. What `EveryReplicaFindsIt`
shows is that each of them serializes a channel key, or nothing with types,
first; it depends on payments being stored under a string.

`StateService` adds one state request to `Escrow`; `views` collects the states
the channel was in since it came. One at a time is enough, since it writes
nothing.

In `ServiceHandlers` a call has its channel's lock from `Receive` to `Return`,
requests have a size and a pipe a capacity. `Return` is the interceptor's
deferred function: a handler without an error is followed by Complete, which may
fail, so that an answer may be sent and not charged. `RateLimit` counts time and credit
in the milliseconds of `getLimit`, and looks at calls from any moment on
(`Look`). In `Metrics` a token is a number, 0 the empty string; storing it is
two steps with respect to its readers (`HalfStored`), as a Go string is two
words; a registration may be answered with 200 and no token, which is stored and
retried with like any other; and a request may never be answered (`Hangs`),
since `http.Client{}` has no timeout. `Heartbeat` has the daemon's settings in
`settings`, chosen at the start, and the state of the service. An alert's
delivery is `Metrics`; here it is sent, or hangs with the check that sends it
(`AlertHangs`).

In `Lifecycle`, `todo` is the list of steps that the command still has to do
before it works, computed from its configuration in the order of the code;
getters that keep what they made are steps that do nothing the second time. A
step fails by panic (deferred calls run), log.Fatal (they do not) or error.
`way` says how the run ended. A panic in the goroutine of a call (`CallPanics`:
the interceptor's re-panic, the nil channel of `beginClaimOnChannel`, the nil
error of the health check) ends a working daemon without any deferred call of
`main`, as a kill does. A call stands for a native gRPC call; those that come
through grpc-web are served by `grpcServer.ServeHTTP`, whose transport
GracefulStop does not drain, and are not distinguished.

Abstractions of data:

* A signature is the record of the nonce and amount it signs; `NoSig` is no
  signature or one that recovers to somebody else. The channel id and the
  contract's address, which are signed too, are fixed by the channel.
* Sender, recipient and group of a channel are folded into `payee`.
* Amounts are integers without a width: the code uses `big.Int`. The test
  `AuthorizedAmount.Int64() == 0` is exact below 2^63 cogs, which is more than
  there are.
* In `Escrow`, gob serialization and key prefixes give each channel and payment
  an entry of its own; `TypedStorage` is about why.
* Headers that do not parse are refused before the first access and change
  nothing, so every request of the model is one that parsed.
* The price is positive (`PriceAssumption`); the metadata may also say zero
  (`serviceMetadata.go:187`), and then no money moves.
* `removeClaimedPayments` reads the contract's nonce and deletes the payment in
  one step: nonces only grow, so a later delete deletes no more than that.
* The operator's command is a Get and a Delete; it is one step in `Locker`, and
  two in `EtcdLocker`. Requests to etcd that are in flight when a process
  crashes are executed or lost at the crash, and a `mu.Lock` that ran into its
  deadline leaves the mutex taken or not; that it stays queued behind an owner
  is not modelled.
* The service type is one of the documented ones. For any other
  `NewGrpcHandler` returns a nil handler (`grpc.go:64`), which panics on the
  first call.

The contract's actions are external: written from what the daemon's code
relies on. A claim that sends the rest back to the sender is left out, since
the daemon's `StartClaim` only ever uses `IncrementChannelNonce`.

The storage operations are atomic in `Locker` and `Escrow`. For Get, Put,
Delete and CompareAndSwap that is what etcd provides; PutIfAbsent is a Get and
a Put under an etcd mutex, and `EtcdClient` shows it atomic for keys that
nobody writes with a plain Put, which is how the lock uses it.

The operator is taken to unlock only channels that no live call holds. The
command cannot check this; used on a live holder it breaks the exclusion, and
with it everything below.

## 3. Runs

| Run | Instance | Shows |
|---|---|---|
| `escrow_concurrent` | 2 paid calls and 1 control call in one process, no faults but panics | `TypeOK`, `NoGap`, `EveryCallPaid` |
| `escrow_claims` | 1 paid call, 2 control calls on one replica, no faults but panics | `Isolation`, `ClaimsVerify`, `StoreGoesForward` with racing claims |
| `escrow_expiry` | 1 paid call, 1 control call, 1 fault, 3 blocks, foreign channels | `OnlyOurChannels`, `NeverOvercharged`, `Solvent`, `BackedWork` |
| `escrow_recovery` | 1 paid call, 1 control call, 2 faults, the operator, fairness | `MutualExclusion`, refinement of `Mutex` (`ImplementsMutex`), `StrandedByFailure`, `CallsReturn`, `ChannelsAreFreed` |
| `escrow_double_claim` | 1 paid call, 2 control calls | violation of `NoEmptyClaim` |
| `state_service` | 1 paid call, 1 control call, 1 state request, contract events, no faults | `ReplyIsLatest`, `ReplyVerifies` |
| `storage` | etcd: 3 goroutines on 2 replicas, 1 key, 2 faults or crashes; memory: 2 goroutines, 2 keys, all operations; keys: 3 handlers on 2 replicas, restarts | `WritesOnlyIfAbsent`, `NoConcurrentMapAccess`, `EveryReplicaFindsIt`, refinement of `AtomicStorage` by both storages (`ImplementsAtomicStorage`) |
| `etcd_locker` | 2 goroutines, the operator, 2 late writes, 3 faults or crashes, fairness | `OneOwner`, refinement of `Mutex` (`LateWritesAreHarmless`), `LockReturns` |
| `request_path` | limiter: 4 tokens in 11 ms, burst 2, 15 ms; control: provider and another signer, 2 contracts, 3 blocks; streams: up to 3 messages each way; messages: 2 calls, 2 channels, the three handlers | `TokenBucket`, `PacedCallsPass`, `AskedByProvider`, `SuccessIsComplete`, `HalfCloseIsTrue`, `ChargedForAnswer`, `HandlerReturns`, `GoroutinesEnd`, `LockIsReturned` |
| `control_window` | provider, 7 blocks | violation of `AnswersAreRecent` |
| `daemon` | process: all commands and configurations, 2 calls that may panic; health: 2 checks, every kind of setting, a flapping service, alerts that may hang; metrics: 2 publishers, 4 tokens, requests that may hang | `ServedUntilDrained`, `EtcdReleased`, `ReturnsResult`, `Ends`, `DeadlineEndsCheck`, `OneRetry`, `PublishReturns` |
| `heartbeat_grpc` | a gRPC service | violation of `DaemonSurvivesChecks` |

**Several components in one run.** `MCStorage`, `MCRequestPath` and `MCDaemon`
extend components that share neither state nor steps. The variable `part` is
chosen in Init and never changes; it says which component a behaviour is about,
and the others stay in one initial state, which satisfies their properties. So
the behaviours of the run are exactly those of each component by itself, and a
property of a component is checked against all of that component's behaviours.
The fairness conditions are those of the components' own fair specifications.
`StorageState` is the one thing shared, by the two storages, of which a daemon
has one: the refinement is then one property for whichever it has.

**Bounds.** One channel is enough for the payment core: calls on different
channels share nothing but the payment storage, whose entries are disjoint.
Nonces 0 and 1 in requests let a call be valid before and after the first claim
and stale in between; funds of two prices allow two calls, the second one after
a claim of the first; where `Deposits` is smaller they come in two steps. In
`escrow_concurrent` all calls run in one daemon, so that the panic of the claim
meets paid calls at every place (it does: `lost` becomes positive). Two faults
let a lost write and a failed unlock, or a crash, come together; the proofs
have any number of them. In `escrow_expiry` the expirations 2 and 4, a
threshold of 1 and blocks 0 to 2 let a channel be valid, near its end, expired
and extended. Symmetry permutes calls of the same kind, which run on the same
replica, and is not used for liveness. Three messages each way are a first one,
which goes with the header, and two later ones, so that one can be in each of
the proxy's hands while another is on its way. etcd needs one key, since keys
meet only in lists, and enough failures for a lost unlock, a late write and a
crash; in `storage` no write is late, because the caller of a late write has
had its answer, and an operation that takes effect after its answer is not
atomic (`etcd_locker` is about what that does to the lock). A message may be
larger than the server accepts (3) and than a pipe (2). Two tokens more than
publishers let a token expire, be replaced and be cleared by the other. The
limiter's minute is a few milliseconds long and the burst two, so that the
bucket is full, empty and in between, and the rate does not divide the minute,
so that the truncation of the interval matters; what is not a matter of size is proved
for all sizes. `request_path` and `daemon` do not check deadlock: a proxied
call and a command come to an end, and the limiter's time is bounded.

**Fairness.** `CallFairness` is weak fairness of every started call's next
step: the Go scheduler runs every goroutine, etcd requests have a time limit,
and the service is taken to answer or fail in the end. That is an assumption
about services: a client's deadline ends a streamed call, but the JSON-RPC and
process handlers do not pass the context on and wait as long as their service
does. Nothing makes a client or the provider send requests, and
nothing makes the chain move. `OperatorFairness` is weak fairness of the
operator's unlock, which the log messages of `escrow.go` ask for ("Please
unlock channel manually"). `ProxySpec` is fair to the two goroutines and to the
handler, as the Go scheduler is, and to nobody else: a service that never
answers a client that never leaves may keep a call for ever, and so may a client
that stays and does not read (`grpc.go:154` waits for flow control), which
`HandlerReturns` excepts. The fairness of
the other modules is of the same kind, weak fairness of the next step of each
goroutine that has begun something: in `EtcdLocker` requests are answered or
run into their deadline (the session and the unlock of the mutex, which have
none, are answered or fail), in `ServiceHandlers` services and processes answer
or fail and a process reads its input. In `Metrics` and `Heartbeat` only what
can go on does: a request without a timeout may instead hang for ever, at every
place, and `PublishReturns` and `DeadlineEndsCheck` say that nothing else keeps
a publisher or a gRPC check. In `Lifecycle` calls end, and a signal need not
come. `MemoryStorage` is checked for safety only.

**What the proxy's result says.** `SuccessIsComplete` has no converse: a client
that cancels when it has its whole answer, before the trailers, may win the
race to the select, and the answered call is rolled back. The proxy's error is
then the price of not waiting; no doc promises otherwise.

**What the accounts say.** With failures a claim may lose its payment between
its two writes, and a Commit may lose an answered call: both cost the provider,
so `NeverOvercharged` holds throughout, and `EveryCallPaid`, `NoGap` only while
no access fails. Even then a process may end: a StartClaim for a channel nobody
knows panics. `EveryCallPaid` books what that costs as `lost`, and says that it
is exactly what the process's calls had in hand and that nothing else is ever
lost. Two control calls on one replica may lose a payment between its writes
that way, which is a gap; `escrow_concurrent` therefore has one.

**What the locks say.** `ChannelsAreFreed` holds because the operator frees any
stranded channel, so it cannot tell a call that forgot its rollback from a
crash. `StrandedByFailure` can: a channel becomes locked for nobody only in a
step in which an access fails or a process ends.

### Findings

* `escrow_double_claim`: of two concurrent StartClaim requests both pass the
  unlocked check of the authorized amount; the second one, under the lock,
  claims a channel the first has just emptied. The nonce moves on for a
  payment of zero without a signature, which `listClaims` skips with an error
  and the contract will never accept; later payments of the channel carry
  nonces the contract does not reach until the channel is settled by hand.
* `control_window`: `compareWithLatestBlockNumber` uses the sign of a
  comparison as a difference and joins the bounds with `||`; every block
  number passes, so a signed list request never becomes too old.

* `heartbeat_grpc`: the health check of a daemon whose service answers over
  gRPC calls `err.Error()` on nil, and the daemon ends.

### Observations

What else came up while the modules were written. Each is in the model, as part
of an action or as an exception in a property. Where a line of the repository
says otherwise it is quoted.

* PutIfAbsent's mutex is not taken by Put, so a Put between its Get and its Put
  is lost. No key of the daemon meets both: the lock uses PutIfAbsent without
  Put, the storages Put without PutIfAbsent. `WritesOnlyIfAbsent` is checked
  and proved for that use.
* The session of PutIfAbsent is never closed and the error of `mu.Unlock` is
  ignored; when it fails, the mutex of the channel's key belongs to a session
  that lives as long as the daemon. Once the operator has deleted the key, every
  Lock goes through PutIfAbsent and runs into its deadline: `LockReturns` holds,
  but with an error.
* Without the contract GetChannelState answers from the storage, which may be
  behind: `ReplyIsLatest` is about replies for which the contract was read.
* A request larger than the pipe's buffer blocks `grpcToProcess` before the
  process is started, and the channel stays locked: the exception `Fits` of
  `LockIsReturned`.
* The interval between tokens is truncated to whole milliseconds
  (`rateLimit.go:27`), so that the bucket is filled faster than at "the rate r"
  of `ratelimit/README.md:9`: the 50000 per minute of its own example become
  60000, and above 60000 there is no limit. `TokenBucket` is stated for the
  configured rate, with the millisecond per token as the code's allowance
  (`Early`), and not for rates above it. The HTTP handler copies the limiter for
  each request, so that it never refuses one: `TokenBucket` is about a gRPC
  daemon.
* The status of a health check over HTTP does not look at the answer: a service
  that answers 200 and says that it is not serving makes the daemon Online,
  where `heartbeat.go:30-31` has Offline for "none of the services are online".
* An answer that was sent stays sent when Complete fails
  (`interceptors.go:200-205`): the client has it, with an error behind it, and
  the payment may not be stored. `ChargedForAnswer` has no converse.
* A panic in a call's goroutine ends the daemon without Close, so that the
  embedded etcd server is not shut down: `EtcdReleased` and `ReturnsResult` are
  about main's goroutine.
* The requests to the monitoring and notification services have no timeout: a
  service that never answers keeps the goroutine that publishes, and an alert
  keeps the health check that sends it.
* The metrics token is shared, and a registration that fails clears it for
  everybody; a retry may then carry an empty token.
* Without the blockchain Close closes clients that are nil, and the list
  commands read the registry before the network is selected: the two exceptions
  of `ReturnsResult`.

## 4. Proofs

`LockerProofs` and `EscrowProofs` hold for every set of calls, replicas,
channels and requests, every price, threshold, and number of failures. The
assumptions are the named ASSUMEs of `Locker`, `ChannelState` and `Escrow`:
each call runs on one replica and is either a paid or a control call; price,
deposits, nonces and amounts are natural numbers, price and deposits positive.

* `LockInvariant`: `LockSpec => []LockInv`. Exclusion alone is not inductive; the
  invariant adds that a holder's key is `locked` (`HeldIsLocked`), so that no
  Get or swap of another call can succeed, and that a call inside Lock has a
  target.
* `LockerImplementsMutex`: under the refinement mapping `lockOwner` every step
  is an acquire of a free channel, the owner's release, a stranding, a recovery
  or a stutter.
* `EscrowUsesLocker`: every step of the payment core is a step of the locker,
  so the two results above hold for the core as well
  (`EscrowMutualExclusion`, `EscrowImplementsMutex`).
* `EscrowInvariant`: `EscrowInv` is inductive. `CallLock` ties `pc` to the
  lock, so that two calls behind the lock are on different channels; with it a
  write of one call leaves the `Isolation` of the others alone. `SnapshotGood`
  and `Accepted` carry what PaymentChannel, Validate and the income check
  established to the place where Commit uses it; from them follow
  `ClaimsVerify` and `OnlyOurChannels` when it writes.
* `EscrowTypes`, `NoLostUpdate`, `StoredClaimsVerify`, `StoredChannelsAreOurs`
  are its parts, and `StoreForward` (an action property) follows from
  `Isolation`, `Accepted` and a positive price.
* `LocksAreGivenBack` (an action property) is `StrandedByFailure`: by `CallLock`
  a call that ends is not behind the lock, so that a step that leaves a key
  `locked` without a holder is a failed access or the end of a process.

The lemmas follow the code: one per group of actions (`LockingInv`, `PayInv`,
`ControlInv`, `ClaimInv`, `OtherInv`), after the facts about the pure functions
(`PaymentChannelForward`, `PaymentChannelGood`).

**The accounts** (`AccountsProofs`, on top of `EscrowInv`, for any deposits and
blocks too). A sum is the cardinality of a set of tokens (`Tokens`, `Total`),
so that a payment that is added or claimed changes it by its amount
(`TotalOfMore`) without induction over the set.

* `AccountsInvariant`: `AccountsInv` is inductive, whatever fails. The payments
  of a channel have different nonces, all behind the stored one
  (`PaysInOrder`), so that a claim never overwrites one and a claim on the
  contract turns exactly one into income (`ClaimIsIncome`). Until channel data
  expires the contract covers it and all pending payments (`Covers`): for the
  stored channel, and for what a call has read, since a commit makes the latter
  the former. A call about to commit or to hand a payment over has its amount
  already within the price of the answered calls (`CallSound`); this is what is
  missing in the properties themselves. `SenderNeverOvercharged`,
  `ChannelIsSolvent` and `WorkIsBacked` follow. An expired channel is covered
  by nothing, and the sender's timeout only takes from those.
* `ClaimsHaveNoGap` and `ClaimsAreNotEmpty` hold without failures
  (`NoFailures`: `MaxFaults = 0`) and with one claim at a time
  (`OneClaimAtATime`). `NoGapInv` adds that what beginClaimOnChannel saw to be
  authorized is still there when the claim has the lock (`HasAmount`): paid
  calls only add to it, and there is no second claim. With a second one this
  is what fails in `escrow_double_claim`.
* `AnsweredCallsArePaid` holds without failures and before expiration
  (`NoExpiry`), for any distribution of paid and control calls over processes.
  `BalanceInv` says that the books balance with `lost` (`Balanced`): at most one
  call has money of a channel in hand, since it has the channel's lock
  (`PriceInHand`, `AmountInHand`), and only the end of its process takes it away
  (`NothingCut`); and the contract never gets ahead of the storage, so that
  nothing stored is ever dropped by the merge. Several claims may race here: an
  empty claim moves no money (that later ones then wait behind it is
  `escrow_double_claim`).

All these hypotheses are satisfied by the instance of `escrow_concurrent`,
which checks the same properties; TLC has also checked `AccountsInv` on the
instance of `escrow_expiry`, and `NoGapInv` and `BalanceInv` on that of
`escrow_concurrent`.

**`StateServiceProofs`** has the same assumptions as the payment core.
`StateInv` is inductive, `ReplyIsLatest` is not: a request that has read the
storage and not yet the contract depends on `views` having the state it will
answer with (`Remembered`): the stored one, or, for each nonce that the
contract may have by then, the fresh state. A claim or a contract event that
moves the nonce on has left that fresh state there, and a paid call writes no
nonce that the storage or the contract did not have (`NoNonceAhead`). Failures
and crashes are included. `ReplyWasCurrent` and `ReplyIsSigned` follow.

**`StorageProofs`.**

* etcd client: for any keys, values, replicas and number of failures, for
  clients that are `Disciplined`: no plain Put on the keys, and no write
  executed late. `EtcdInvariant` is the inductive `EtcdInv`: `OwnsMutex` says
  that whoever is between Get and Put owns the key's mutex, hence nobody else
  does, and `Decided` that an operation has its outcome exactly when it has
  taken effect. `PutIfAbsentIsAtomic` follows, and with it
  `EtcdIsAtomicStorage`: the Put of PutIfAbsent is the abstract operation,
  since its condition still holds. Without the discipline the statement is
  false: a Put between Get and Put is overwritten.
* memory storage: for any goroutines and keys and all operations. `MemInv` ties
  the locks to the goroutines that are inside the map (`HasItsLock`), so that
  the condition of a conditional write still holds when the map is written
  (`MemDecided`). `MapIsNotShared` and `MemoryIsAtomicStorage` follow.
* keys: for any processes, handlers and channels. `TypedInv` says that a process
  that has numbered any type has numbered those of the channel key first
  (`KeyTypesFirst`), because every request that writes a payment gets a channel
  before (`ChannelBeforePayment`). `KeysAgree` follows.

**`EtcdLockerProofs`** holds for any goroutines, replicas and locks, any number
of failures and of writes executed late. `LockerInv` is inductive: the key of
an owned lock says `locked`, no PutIfAbsent is about to overwrite it, and no
late Unlock, late Delete or operator is about to take it away (`Guarded`). A
late write of a goroutine that gave up can only meet a key that was left
`locked` for nobody, since its condition, or PutIfAbsent's mutex, still holds.
`LockHasOneOwner` follows, and `EtcdLockIsMutex`: every request, in time or
late, is a step of `Mutex` or a stutter.

**`RequestPathProofs`.**

* limiter: for any rate, burst, length of a minute and time, for the gRPC
  daemon: the inductive `BucketInv` says that the calls let through and what is
  left in the bucket together never exceed a full bucket and what was filled
  since, and that the bucket has what was filled since the last call. What the
  truncated interval means for the configured rate is a fact about division
  (`IntervalOfRate`); with it follow `GrpcTokenBucket` and `GrpcPacedCalls`.
* control requests: a list is given out only for a message the provider signed
  for that list and contract (`OnlyForProvider`).
* proxy: for requests and answers of any length. `ProxyInv` is inductive, the
  three properties are not: `RequestStage` says that the request's goroutine
  reports once and last, so that the loop makes at most one turn
  (`ProxyNeverReached`); `RequestEnd` that the io.EOF in the channel is the
  client's, or that there is nobody to be told (`ProxyHalfClose`); `ReplyStage`
  that the io.EOF of the answer comes after the last answer was relayed
  (`ProxySuccess`).
* unary handlers: for any calls, channels, sizes and service types.
  `HandlersInv` adds that nothing is answered or charged while a handler works,
  and that the service has run once there is an answer to send; the payment may
  fail to complete at every return (`UnaryCallsCharged`).

**`DaemonProofs`.**

* metrics: for any publishers and tokens, `MetricsInv` says that the retry flag
  tells how often the event was sent (`EventSentTwice`).
* process: for every command and configuration and any calls. `LifeInv` says
  that what a call uses is open or still to be opened before there are calls
  (`OpenOrToDo`, `CallsAreServed`), that what is open has still to be closed
  (`OpenIsToClose`), and that the network is selected before anything is
  dialled (`ValidatedInTime`), whatever fails and whichever call panics when.
  `CallsHaveWhatTheyUse`, `EtcdIsReleased` and
  `RunReturnsResult` follow.

The inductive invariants themselves are proved and not part of a run; the runs
check what follows from them, on instances where TLC has also checked the
invariants.

Every invariant, action property and refinement that a passing run checks is
proved, with the hypotheses above. Only model-checked are the liveness
properties (`CallsReturn`, `ChannelsAreFreed`, `LockReturns`, `HandlerReturns`,
`GoroutinesEnd`, `LockIsReturned`, `Ends`, `DeadlineEndsCheck`,
`PublishReturns`): they rest on fairness, which is beyond the prover.

## 5. Plan

Modelled: the parts of section 1. Proved: their safety, but
for the heartbeat, of which only a deadline and a violation are checked. What is
left:

1. The safety facts that the liveness properties rest on, as invariants: a
   goroutine that waits is waiting for somebody who can go on (no call of
   `EtcdLocker` waits for a mutex of a live session for ever without a
   deadline; a handler that is blocked on its pipe does not `Fits`).
2. What failures cost: `EveryCallPaid` with failed accesses, their losses booked
   as those of a process that ends are, and a bound on them by the number of
   failures.
3. Calls through grpc-web in `Lifecycle`, which GracefulStop does not drain.

### Not modelled

* The embedded etcd server beyond its start and its release, etcd itself,
  Ethereum and IPFS: third-party code, external to the modules.
* What the HTTP handler forwards, the contents of statistics, log formatting
  and hooks, the parsing of settings and of the service metadata beyond whether
  it fails: data without control of its own.
* `version`, `init` and the other commands that only print or write a file.
* Writes to the channel storage that are executed late, and leases lost by a
  process that is paused: the code has no answer to them, and no line says it
  does.
* `memoryStorage.Clear`, `EtcdClient.NewMutex`: not used by the daemon.
