# TLA+ models of Qervan-AI

This directory holds TLA+ specifications of the parts of the repository whose
behaviour a model checker can explore, the TLC configurations that check
them, and `PROJECT.json`, which records the component inventory, the runs,
the mutants that show each property can fail, the source lines each
definition translates, the findings and the hazards.

Run everything from this directory:

    tlasany Planner.tla
    tlc -workers 2 -config MCPlanner.cfg MCPlanner

## The system and its parts

The repository is a set of largely independent Python components; most are
thin clients of external services. The components do not call one another.
The only composition in the code is inside `planner.py` (the caller builds a
tree of task nodes, then hands its root to `PlanningGraph`), so `Planner`
EXTENDS `TaskGraph`, and the search runs over every tree the building phase
can produce. `IDocContract` is an abstract specification that `IDocPipeline`
is shown to implement. `GDPRCompliance` puts the GDPR engine between the
source systems that submit records and an outsider who can rewrite them.

| Component | Source | Module | Status |
|---|---|---|---|
| Task nodes | `src/orchestration/symbolic/planner.py` (TaskNode and subclasses) | `TaskGraph` | modelled |
| Planning engine | same file, `PlanningGraph` | `Planner` | partly (not `visualize`) |
| SDK client | `src/developer_experience/sdk/python/nuzon/client.py` | `NuzonClient` | modelled (the pydantic models are data) |
| LLM router | `src/core/cognition_engine/llm_orchestrator/mistral_integration.py` | `MistralRouter` | partly (placeholders are constants) |
| SAP IDoc adapter | `src/integration/adapters/sap/idoc_adapter.py` | `IDocPipeline`, `IDocContract` | modelled |
| DQN training | `src/orchestration/neural/reinforcement/dqn.py` | `DQNControl` | partly (control only, no networks) |
| VCG auction | `src/platform/market_mechanism/auction_engine/combinatorial.py` | `VCGAuction` | modelled (solver as its specification) |
| Hybrid encryption | `src/core/quantum_layer/crypto_agility/hybrid_schemes.py` | `HybridEncryption` | modelled (symbolic crypto) |
| GDPR engine | `src/security/audit/gdpr_check.py` | `GDPRCompliance` | modelled (symbolic Fernet and HMAC) |
| SOC2, Spark, Azure Arc, schema learner, tensor planner, Flower, homomorphic, SDK types | see `PROJECT.json` | none | not modelled |

Many methods the code calls are missing or are placeholders. A module keeps
the code as written behind a Boolean constant (the value `FALSE`), and the
passing runs set it to `TRUE`, the evident intent, so that the code behind
the broken call is explored too. The one exception is
`AsyncHooksAwaitable`, which the client runs keep `FALSE` as written: the
coroutine's response hook is then never run, and the async hook path is not
explored. In Planner the choice is a variable
`hasValidateResources` set in `Init` from `ValidateResourcesChoices`, so one
run explores the code as written and the fix side by side. The constants
are: `SignRequestDefined`,
`AsyncHooksAwaitable` (NuzonClient); `CacheTTLConfigured`,
`SemanticHashDefined` (MistralRouter); `ValidateSignatureDefined`,
`MappingsLoaded`, `MessageTypeInControl` (IDocPipeline); `NetworkBuilds`,
`BetaDefined`, `SampleUnpacks`, `TrainConfigResolves`, `ForwardResolves`,
`MemoryHasLen`, `LossDefined` (DQNControl); `ShadowPricesBuild`
(VCGAuction). What the code as written does with each is listed under
"Defects seen while modelling".

## Modules

### TaskGraph.tla: task nodes

`children[n]` is `n._children`; `lastAdd` records the last `add_child` call.
Preconditions are constructor arguments, so they are the constant
`Preconditions`; the caller's calls are the set `Wiring`.

- `AddChild(p, c)` is `add_child`: it raises when `c \in GetAncestors(p)`,
  and appends otherwise.
- `AncestorWalk` is the stack loop of `get_ancestors`; `DagWalk` is the
  stack-and-visited loop of `validate_dag`, in the code's order.
- `Reach`, `PreconditionClosure`, `Descendants` and `CycleReachableFrom` are
  independent reference definitions used only by the properties.
- Its properties are checked in `planner_search`, whose build phase makes
  the same `add_child` calls (`MCPlanner` EXTENDS `MCTaskGraph`).

### Planner.tla: generate_plan and the search

`kind` and `pool` are chosen in `Init`. `phase` is build, search, done;
`heap` is a bag of `<<cost, node>>` entries, `best` is `best_plan`, and
`outcome` is the plan or the exception that escapes. `Build` is one
`add_child`; `GeneratePlanRejected` is `validate_dag` raising;
`GeneratePlanStart` pushes `(0, root)`; `PopAtomic`, `PopDecomposeCrash` and
`PopExpand` are one whole iteration of the `while heap` loop (`ScoreOption`
folded over `Decompose`); `Finish` is the empty heap.
`TaskNode.validate_resources` is defined nowhere: `ChildFeasible` gives it
the spec's meaning (marked spec_modelled in the map). Costs are in tens, risk
in tenths and memory in units of 512 MB, which keeps every comparison.
`HeapPop` is the `heappop` of each iteration. `TreeSize` and `HeapWork`
(the unfolded subtree sizes of the heap's entries) are reference
definitions for the loop's termination argument.

### GDPRCompliance.tla: the GDPR engine

`hmacSecret` is the configured `hmac_secret` (a secret or none), `store` the
records held, `audit` the audit records `generate_audit_log` returned and
`collected` (history) the `raw_content` values source systems produced.
`Collect` is a source system with the engine's keys (content Fernet-encrypted
or plain, signature optional); `Tamper` is an outsider with a key of its own
who rewrites a stored record's content, `encrypted` flag and signature;
`Verify` is `verify_compliance` then `generate_audit_log`. `Violations`
runs the five checks in the code's order. A Fernet token is a record of key
and data, and `cipher.decrypt` succeeds exactly on tokens of the engine's
key (Fernet authenticates its tokens); an HMAC is a record of key and
covered value. A record carries its `user_id` (`User`); `collected` holds
`[user, content]` pairs, what each user supplied. All records share one
`collected_at`.

### NuzonClient.tla: circuit breaker and retries

Callers are threads (`execute`), coroutines (`execute_async`) and threads
iterating `stream`, all sharing one client. `StreamOpen` sends a stream
request without the circuit check; its response goes through the same hook,
and `StreamOutcome` parses every body line, whatever the status (no
`raise_for_status`), into `AgentResponse` or an uncaught error. Per caller: `pc`, tenacity's `attempt`, `calls`, the response held,
`tmp` (the value `+=` loaded) and `result`; shared: `failureCount`,
`circuitOpen` and the AsyncClient's state. The response hook's
`_failure_count += 1` is three steps (`IncLoad`, `IncStore`, `IncCheck`), so
two threads can interleave inside it; the async hook runs atomically on the
event loop. A response is a status class and a body kind. The history
variable `inFlightAtOpen` holds the callers whose request was admitted
before the circuit last opened and is not yet answered; `TrackInFlight`,
a conjunct of `Next`, updates it.

### MistralRouter.tla: route_request

Sessions are concurrent `route_request` coroutines sharing the Redis cache.
`ValidatePayload`, `CheckCache`, `SelectModel`, `TryModel` (one iteration of
the fallback loop) and `CacheResponse` are the steps between awaits.
`Clients` is what `_initialize_clients` builds from the endpoint providers;
a model without a client raises `KeyError` in `_call_model_api`.

### IDocPipeline.tla and IDocContract.tla: process_idoc

One inbound IDoc is a record (well formed, schema, segments). The stages are
signature, parse (retried 5 times), transform, dispatch (retried 3 times),
acknowledgement. `DispatchToEDS` chooses the POST's fate: refused, dropped
after EDS got the data, 5xx, 2xx followed by `_monitor_performance`
(returns, raises or never answers), or no answer at all. Neither
`session.post` nor `requests.post` is given a timeout, so a silent endpoint
leaves the call in stage `blocked` for good. `received` counts the POSTs EDS
got. `IDocContract` states what `process_idoc` promises (EDS receives only
an acceptable IDoc, at most a bounded number of times; success only after a
delivery; a call may stay pending), a safety property only, and
`IDocPipeline` maps onto it with `Contract == INSTANCE IDocContract WITH ...`.

### DQNControl.tla: training control

The control of `EnterpriseTrainer.train` / `evaluate` over
`EnterpriseDQNAgent.step` / `learn` and the replay buffer. An experience is
named by the global step that produced it and a priority by the experience it
was written for, so the two deques can be compared position by position.
Epsilon is a decay level. `AgentStep` is one inner-loop iteration including
the whole of `agent.step` and `learn` (priority update, epsilon decay);
`NextEpisode`, `FinishTraining` (final checkpoint) and `EvalStep` complete the
loop. `AgentStep` also holds the three places the code as written raises on
the way: `act` (the global `config` in `forward`), the `len(self.memory)` of
a wrapped `t_step` (no `__len__`), and `learn` (`beta`, the unpacking, the
undefined `_compute_distributional_loss`). `Deploy` is the end of `__main__`: `DQNService` builds its agent with
`load_checkpoint` (`LoadCheckpoint`: a fresh agent whose epsilon is then
overwritten from `final_model.pth`), and `export_onnx` only writes a file.
The environment is nondeterministic: any step may end an episode.

### VCGAuction.tla: compute_vcg_payments

Bids are a sequence of records. The SCIP solver is replaced by its
specification: `Solve` picks any allocation of maximal value (`BestWelfare`
over the feasible subsets). `PayBid` is one iteration of the payment loop;
`ExclusionWelfare` models `_compute_exclusion_welfare` over `_clone_solver`,
where `LookupVariable` finds one variable per bidder name (`lookup`, chosen in
`Init`, since every bid of a bidder shares the name).

### HybridEncryption.tla: the KEM/DEM engine

Keys, secrets and ciphertexts are records naming what they were made from;
randomness is a counter. `EncryptHybrid` and `DecryptHybrid` follow the two
methods step by step (encapsulation, DEM encryption, key hash, HMAC; and
decapsulation, split, key hash, verify, GCM decryption).

## Runs

| Run | Config | Checks | Result |
|---|---|---|---|
| `taskgraph_insertion_guard` | `MCTaskGraphCycle.cfg` | `InsertionGuardKeepsAcyclic` | violation: finding 1 |
| `planner_search` | `MCPlanner.cfg` | `TypeOK`; `NoHeapTieComparison`: heapq never compares two TaskNodes; `PlanWithinBudget`; `BestIsFirstCheapestRootOption`: the search returns exactly the first cheapest acceptable root decomposition; `AddChildGuardIsAncestry`: `add_child` raises exactly on the transitive precondition closure; `ValidateDagDetectsCycles`: `validate_dag` raises exactly when a cycle is reachable from the root; `SearchLoopShrinksHeapWork` | pass, ~1.19M states |
| `client_sync` | `MCNuzonClient.cfg` | `ClientTypeOK`; `OnlyBypassingRequestsCloseCircuit`; `EveryCallTerminates` | pass, ~309k states |
| `client_thread_race` | `MCNuzonClientRace.cfg` | `CircuitOpensAtThreshold` with two threads | violation: finding 2 |
| `router_fallback` | `MCMistralRouter.cfg` | `RouterTypeOK`; `FallbackGivesUpAfterMaxRetries` | pass, ~48k states |
| `idoc_pipeline` | `MCIDocPipeline.cfg` | `IDocTypeOK`; `SuccessMeansValidAndDelivered`; `ImplementsContract` (refinement of `IDocContract`) | pass |
| `idoc_redelivery` | `MCIDocPipelineRedelivery.cfg` | `FailedIDocNotDelivered` | violation: finding 3 |
| `dqn_training` | `MCDQNControl.cfg` | `DQNTypeOK`; `LearnCadence`; `ReplayIsSlidingWindow` | pass |
| `auction_vcg` | `MCVCGAuction.cfg` | `AuctionTypeOK`; `ChargedAtLeastBid` | pass: finding 4 |
| `gdpr_integrity` | `MCGDPRCompliance.cfg` | `GDPRTypeOK`; `CompliantContentIsCollected` | pass, ~1.6M states |
| `gdpr_replay` | `MCGDPRComplianceReplay.cfg` | `SignedCompliantRecordIsUsersOwn` with two users | violation: finding 6 |
| `hybrid_roundtrip` | `MCHybridEncryption.cfg` | `RoundTrip` | violation: finding 5 |

What the deeper properties say:
- `CircuitOpensAtThreshold`: the breaker is open exactly when `Threshold`
  consecutive 5xx responses have been validated (counted over all callers).
  It holds with one thread; two threads (execute or stream) break it, which
  is finding 2.
- `OnlyBypassingRequestsCloseCircuit`: an open circuit is cleared only by
  the 2xx answer to a `stream` request (which never checks the circuit) or
  to an `execute` request admitted before another caller's hook opened it.
  TLC reaches both kinds of clearing. Every call that starts while the
  circuit is open raises 503 before sending, and there is no half-open
  state, so a client that only uses `execute` never recovers.
- `FallbackGivesUpAfterMaxRetries`: models are tried in `fallback_order`, and
  a request that failed tried exactly `max_retries` models (or all of them).
- `ImplementsContract`: every step of the pipeline is a contract step or a
  stutter; so EDS receives only an IDoc `_parse_idoc` accepts, also on calls
  that end in an exception or block, and never more than three times.
  Skipping `_check_duplicates` (the mutant) delivers a rejected IDoc.
- `LearnCadence`: `learn` ran exactly once per global step that is a multiple
  of `update_every` and at which the memory held more than `pretrain_steps`
  experiences, because `t_step` is never reset between episodes.
- `ReplayIsSlidingWindow`: the buffer and priority deques hold the last
  `min(steps, buffer_size)` experiences, aligned position by position, after
  wrap-around and `update_priorities`.
- `SearchLoopShrinksHeapWork`: every iteration of `_ao_star_search` that
  stays in the loop strictly lowers the work left on the heap (the sum of
  the unfolded subtree sizes of its entries): it pops an entry and pushes
  only children of its node. With a finite tree (`validate_dag` ran first)
  this is the loop's termination argument.
- `CompliantContentIsCollected`: an audit record that says compliant is
  about `raw_content` a source system produced, whatever the outsider did.
  It holds even where `_validate_hmac` passes because the signature was
  dropped or no secret is set, and only because the Fernet decryption in
  `_validate_encryption` authenticates the content. Trusting the
  `encrypted` flag (the mutant) lets tampered content through.
- `ChargedAtLeastBid`: every charged bidder pays at least a bid it won (a
  property VCG payments never have; see finding 4).

Each property of a passing run has a mutant in `PROJECT.json`: a plausible
bug in the mapped code (an off-by-one retry bound, a missing deque bound, a
skipped duplicate check, the Clarke payment formula, a skipped model) that TLC finds.

## Findings

1. **add_child guard (planner.py:57).** The guard looks only at
   preconditions, so accepted `add_child` calls can build a cycle through
   children, which `validate_dag` then rejects.
2. **Failure counter race (client.py:165).** `_failure_count += 1` runs in
   the response hook of every thread without a lock; two threads lose an
   increment, and after `Threshold` consecutive 5xx the circuit is closed.
3. **IDoc redelivery (idoc_adapter.py:156).** `_dispatch_to_eds` is retried
   as a whole; when EDS received the POST but the connection dropped, EDS answered
   5xx, or `_monitor_performance` raised, the IDoc is posted again, and
   `process_idoc` can raise after EDS received it up to three times.
4. **Payments are not VCG (combinatorial.py:100).** The code charges
   `social_welfare - (exclusion_value - bid.value)`, which is never below the
   bid; VCG charges `exclusion_value - (social_welfare - bid.value)`, never
   above it. In the file's example the two winners pay 600 and 900 for bids
   of 500 and 800.
5. **Hybrid decryption never succeeds (hybrid_schemes.py:78).** Encryption
   keys the HMAC with a hash of the KEM secret and a random DEM key that is
   never transmitted; decryption hashes the KEM secret alone. Also, one
   ciphertext argument is both decapsulated and split, and the GCM decryptor
   has no tag. `decrypt_hybrid` returns None for every input.
6. **A signed record can be moved to another user (gdpr_check.py:101).**
   `_validate_hmac` signs `raw_content` only. TLC's trace: user u1 submits a
   plain record with the required consent; user u2 submits a Fernet token
   signed with the engine's secret but no consent; an outsider copies u2's
   content and signature into u1's record; `verify_compliance` passes all
   five checks and the audit log calls it compliant for u1
   (`SignedCompliantRecordIsUsersOwn`: a compliant record with a checked
   signature is content its own user supplied).

## Defects seen while modelling

These were confirmed by reading the code while building the modules; no run
states them, since each one is a single deterministic error a unit test
reaches at once:

- planner.py:98/115: `validate_resources` is undefined; its AttributeError
  escapes, so with children present `generate_plan` never plans
  (`planner_search` explores this code with `hasValidateResources` FALSE).
- planner.py:102: an AND node keeps its feasible children where the spec asks
  for all-or-nothing.
- planner.py:163-167: a pushed entry carries the best cost so far and a later
  option must beat it strictly, so for spec scenario A the search returns
  `[AcquireData, ProcessData]` at cost 0 instead of the leaves at cost 60
  (`BestIsFirstCheapestRootOption` states the code's actual result).
- client.py:152: `hmac` and `hashlib` are not imported (NameError in the
  request hook). client.py:173: after three network errors tenacity raises
  `RetryError`, and client.py:190 lets a non-JSON body's `JSONDecodeError`
  escape, both outside `NuzonError`. client.py:201: the
  second `async with self._async_client` fails, the first having closed it.
  client.py:241: `close` calls `AsyncClient.close`, which does not exist
  (`aclose` does), so it raises AttributeError.
  client.py:214: `stream` ignores the circuit breaker, never checks the
  status, and lets pydantic's `ValidationError` escape.
- mistral_integration.py:140: `config["cache_ttl"]` is never loaded;
  :159 the semantic hash is None, so every payload shares one cache key and
  a cache hit can answer one session with another's response (the model's
  `SemanticHashDefined` gives each payload its own key, so no run checks the
  cache's answers);
  :86 the 413 of `_validate_payload` becomes a 500.
- idoc_adapter.py:49: `_validate_signature` is not defined; :126
  `_load_mappings` returns None; :61 a malformed IDoc is retried five times
  and ends in `RetryError`; :108 the duplicate check keys segments on DOCNUM,
  so two items of one type are rejected as duplicates.
- dqn.py:255: `train` reads `.training` on the `DQNConfig` wrapper;
  :57: the networks read `config.system` from the model section;
  :83 `forward` uses a global `config`; :149 `len(self.memory)` on a class
  without `__len__`; :195 `_compute_distributional_loss` is not defined; :109 `beta` is undefined; :166 `learn`
  unpacks seven values from a 3-tuple; :160 `act(training=False)` always acts
  at random; :96/100 `_max_priority` is never raised and priorities are raised
  to alpha twice.
- combinatorial.py:101: payments are keyed by bidder and overwritten;
  :124 `LookupVariable` maps all of a bidder's bids to one variable;
  :88 `solver.Constraint(item)` is not a lookup of the item constraint.
- gdpr_check.py:96: a record without a signature skips the HMAC check;
  :101 the HMAC covers `raw_content` only (finding 6); :120 the
  audit signature does not cover the `compliant` verdict. :47 `Fernet(key)`
  runs before `_validate_initialization`, so its key-length check never
  sees a bad key.
- hybrid_schemes.py:47: level 2 builds `ChaCha20` without its nonce
  (TypeError); a level outside 1..3 is a KeyError.

## Bounds

- Planner: every subset and order of the example's wiring (plus a cycle,
  rejected calls and a risky node), three root kinds, three pools (the
  example's, no memory, no gpu key), every order of heap pops.
- Client: an execute thread and a coroutine with two calls each and a
  stream thread with one, threshold 2, three attempts: enough for two 5xx to
  open the circuit while another request is in flight, for a stream to
  clear it, and for the coroutine's second call. The race run uses two
  execute threads.
- Router: three sessions, two payloads plus an oversize one, the default
  three-model fallback order, `max_retries` 0, 2 and 3 (below, inside and at
  the number of models), two strategies.
- IDoc: six IDocs (valid 3.0 and 4.0, two items of one type, a true repeat,
  malformed, unsupported schema); all five POST fates and the three
  monitoring outcomes on every attempt.
- DQN: buffer 3, `update_every` 2, `pretrain_steps` 2, four episodes of up to
  three steps: the buffer wraps, learning starts mid-episode, `t_step` wraps
  across episode boundaries and the final checkpoint is deployed.
- Auction: four items and nine bid lists (the example, ties, a bidder with
  two bids, a duplicate).
- GDPR: two stored records, one datum, one required consent, two data types
  and two retention periods (at and one over the limit), with and without an
  hmac_secret, and one verification, all of one user. The replay run has
  two users, one data type allowed and one not, and a fixed secret: the
  smallest setting where one user's signed content can reach another's
  record. One verification suffices: `Verify`
  may pick any record in any reachable store. One datum suffices because an
  outsider's content differs from a source's by its key.
- Hybrid: two key pairs, two encryptions, both ciphertext parts passed to
  decryption with both keys.

## Fairness

- Client: weak fairness per caller (`WF_vars(Step(c) /\ TrackInFlight)`): each thread or
  coroutine keeps running while it can, and network calls return or time out.
- Planner, router, IDoc, DQN, auction, hybrid, GDPR: only safety is
  checked; no fairness. The IDoc POSTs have no timeout, so `process_idoc`
  need not end (the model's `blocked` stage); `evaluate`'s `while not done`
  has no step limit, and train's loops are `for ... in range`, which end
  whatever the code inside does. The planner's loop termination is stated as a variant
  (`SearchLoopShrinksHeapWork`) rather than as `<>(phase = "done")`:
  under weak fairness TLC must evaluate `ENABLED PopExpand`, whose fold over
  the decompositions is not cached there, and the check does not finish.

## Not modelled

- `PlanningGraph.visualize` (graphviz I/O), the client's pydantic models
  (data validation with no client state), the router's metrics.
- The networks, losses and optimiser of `dqn.py` (numeric), and
  `DQNService.predict_action`, which the program never calls.
- `BidSecurity` and `PerformanceOptimizer` (empty stubs);
  `serialize_keys` / `deserialize_keys` (a base64 round trip).
- The remaining files call external services (AWS, Azure, Slack, Spark,
  Flower, TenSEAL, SAP RFC), are placeholders returning constants, or are
  numeric ML code. `PROJECT.json` gives the reason for each one.
