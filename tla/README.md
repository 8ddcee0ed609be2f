# Formal models of the Airavata C++ client samples and MPI emulators

This directory holds TLA+ models of the C++/C programs in this repository:

- the catalog-registration driver (`client_samples/util/register/Register.cpp`, `Register.h`);
- the experiment clients (`createExperiment.cpp`, `getExperimentOutputs.cpp`,
  `client samples/launchExperiment.cpp`, and the helpers of `util/register/airavata.cpp`);
- the MockPwscf MPI emulator (`src/samples/application-emulators/MockPwscf/pwscf.c`).

It also holds the TLC configurations that check the models and the TLAPS proofs about them.
Paths below are relative to
`src/airavata-api/airavata-client-sdks/airavata-cpp-sdk/src/main/resources/`,
except the paths of the emulators.

## 1. The system

| Part | Source | What it does |
|---|---|---|
| Config loader | `readConfigFile` in every client | The three mains read `AIRAVATA_SERVER`, the port and the timeout from `airavata-client-properties.ini` with GKeyFile. `Register.cpp` and `airavata.cpp` hard-code the values instead. The host is stored with its quotes; then `erase(0,1)` and `erase(length()-1,1)` strip them. |
| Connection | every client | A `TSocket` with a *send* timeout only, then `TBufferedTransport`, `TBinaryProtocol` and `transport->open()`. |
| Experiment clients | `createExperiment.cpp`, `getExperimentOutputs.cpp`, `launchExperiment.cpp`, `airavata.cpp` | Each run goes: config, open, argument check, one RPC, print, close. None catches an exception, so any failure ends the process. |
| Registration driver | `Register.cpp` | `init()` loads the module list from `menu.json` into the global `genapp_modules`. `registerAll()` opens one connection and issues, in order, the RPCs gateway → gateway profile → compute resource → local submission → per-module application module → per-module deployment → per-module interface. The output parameter of each call (`gatewayId`, `localhostId`, `it->moduleId`) is an input to later calls. |
| MockPwscf | `pwscf.c` | N MPI ranks share one working directory. Each rank opens the two output files with `fopen("w")` before `MPI_Init`. In its turn of the rank loop it reads three inputs, then writes its text, which reaches the file at `fclose`. Then it calls `MPI_Finalize`. |
| mpi-hello-world | `mpi-hello-world.c` | `MPI_Init`, one `printf`, `MPI_Finalize`. Not modelled: there is nothing to tell apart. |

The components interact only through the external Airavata server (clients and driver) and through the
shared file system (the emulator ranks). The server, Thrift, jsoncons and glib are not in this repository.
They appear in the models only as the outcomes their calls can have.

## 2. Modules

| Module | Models | State | Actions |
|---|---|---|---|
| `Register` | `Register.cpp`, `Register.h` | `pc`, iterator `i`, `conn`, the members `gatewayId` and `localhostId`, `moduleId[m]` (the `genapp_modules` entries), and an abstract server (`nextId`, `issued`) with the request log `sent` | `LoadModules` (`init`), `OpenTransport`, `RegisterGateway`, `RegisterGatewayProfile`, `RegisterComputeResource` and `AddLocalSubmission` (the two calls of `registerLocalhost`, one try), `RegisterApplicationModules`, `RegisterApplicationDeployments`, `RegisterApplicationInterfaces`, `CloseTransport` |
| `HostString` | the two `erase` calls | none: pure operators | `Erase` (the semantics of `std::string::erase`, out_of_range included), `StripQuotes` |
| `Registration` | what `registerAll()` promises the catalog | the request log `sent` and the stored entities `issued` | `Send(req)`: requests in one fixed (kind, module) order and none twice, references empty or stored, at most one fresh entity per request |
| `ExperimentClient` | the mains and the helpers | `prog`, `args`, `pc`, the host as read (`cfg`) and as stripped (`host`), `reply`, `printed`, `status`, `rpcs` | `ReadConfig`, `Strip`, `Open`, `CheckArgs`, `BuildExperiment` (the `createExperiment` helper's request, where a NULL `inp` crashes), `Send` and `Receive` (the two halves of the one RPC), `PrintResult` |
| `SingleCall` | what one client invocation promises (the RPC contract) | the operation `op`, `phase` (`idle`, `waiting`, `ended`), `calls`, the lines printed `out` | `Call` (one request, whose send may fail), `Answer` (the report of one of the operation's answers), `Fail` (before the call possibly printing the usage, while waiting printing nothing) |
| `Pwscf` | `pwscf.c` | `pc[r]`, `fp[r][f]` (non-NULL `FILE*`), `file[f]`, `env` (cwd writable, `tmp/` present, inputs present), `job` | `OpenOutput`, `OpenOutput2`, `ReadInputs`, `WriteOutputs`, `CloseOutput2`, `Finalize` for each rank `r` |
| `RegisterProofs`, `RegisterMembers`, `RegisterRefinement`, `HostStringProofs`, `ExperimentClientProofs`, `PwscfProofs` | — | — | TLAPS proofs |

Modelling choices:

- **One action per Thrift call.** The outcome of a call is a nondeterministic choice from `Outcomes(conn)`:
  - `ok`: the server stores the entity and the output parameter is set;
  - `appError`: an Airavata exception; nothing is stored and the output parameter is unchanged;
  - `lostRequest`: a transport failure before the server saw the request;
  - `lostReply`: the server stored the entity but the reply was lost.

  The two transport failures leave the connection broken, so every later call on it fails at the send.
  A Thrift output parameter is written only when the reply is decoded, which is why `Reply` keeps the
  old value on every outcome except `ok`.
- **Identifiers.** They are naturals. `NoId` = 0 stands for the empty string the members start with.
- **The RPC of a client in two steps.** `Send` writes and flushes the request, which the send timeout
  bounds. `Receive` is the wait in `recv`, which nothing bounds. Only that split lets the model say
  where a client can hang.
- **Uncaught exceptions.** `g_error`, `out_of_range`, `TTransportException`, a `NULL` `char*` turned into
  a `std::string`, and `return 0;` into a `std::string` all end the process. They are modelled as
  `status = "terminated"`.
- **The read of `_return[0]` on an empty vector.** This is undefined behaviour. It is modelled as a
  choice between returning and terminating.
- **Emulator writes.** A rank's `fprintf` only fills a stdio buffer. `Fclose` writes the buffer at the
  stream's position, which is 0 for a `"w"` stream that has written nothing. A NULL `FILE*` handed to
  `fscanf` or `fprintf` is a SIGSEGV, after which mpirun kills the job (`Crash`).

## 3. Runs

| Run | Config | Expect | Shows |
|---|---|---|---|
| `register` | `Register.cfg`, N = 2 | pass | `TypeOK`; `RefsIssued`: every id sent is empty or names the stored entity of the right kind and module, across failed calls and lost replies; its inductive strengthening `IInv`; `InterfaceForEveryModule`; `ConsistentRefs`: two references to the same member never carry two different non-empty ids; `MembersKept` (action property): a member once set is never overwritten; `ImplementsRegistration`: `Register` implements `Registration` (`Abstract!Spec` as a `PROPERTY`) |
| `register_failure_isolated` | `Register_FailureIsolated.cfg` | violation | the try around the whole module and deployment loops skips the remaining modules |
| `register_deploy_after_module` | `Register_DeployAfterModule.cfg` | violation | deployments and interfaces are sent with an empty module id |
| `register_profile_after_resource` | `Register_ProfileAfterResource.cfg` | violation | the gateway profile is sent before the compute resource exists |
| `experiment_client` | `ExperimentClient.cfg`: hosts up to 3 characters, output lists up to 2 | pass | at most one RPC; `StripCorrect`; `ClientEnds` (liveness): a run ends unless it blocks forever in `recv`; `ImplementsSingleCall`: the client implements `SingleCall` under the mapping `Phase` (`idle` before `Send`, `waiting` from the send to the print, `ended` once the process stops) with `prog`, `rpcs`, `printed` for `op`, `calls`, `out` |
| `client_usage_without_rpc` | `ExperimentClient_UsageWithoutRpc.cfg` | violation | a bad invocation can die before printing its usage |
| `client_first_output_present` | `ExperimentClient_FirstOutputPresent.cfg` | violation | `_return[0]` of an empty output list |
| `pwscf` | `Pwscf.cfg`, N = 3 | pass | `IInv`; `OutputsComplete`: one copy of each text once all ranks finalise, whatever the files held and however the ranks interleaved |
| `pwscf_disjoint_outputs` | `Pwscf_DisjointOutputs.cfg`, N = 2 | violation | a late rank's `fopen("w")` empties an output already written |

Why the bounds are enough:

- **N = 2 modules in `Register`.** Two modules let a failure on the first skip the second, and let the
  loop go on after a per-module failure. Both are needed for the loop properties. Every call outcome is
  tried at every call.
- **Hosts of length 0..3 in `ExperimentClient`.** These cover the empty string, a single character
  (the npos wrap), exactly the quotes, and a quoted name.
- **`SizeT = 65536` in the TLC runs.** The real value is 2^64. `SizeT` only has to exceed every string
  length, and `HostStringProofs` proves the result for every such `SizeT`.
- **N = 3 in `Pwscf`.** Three ranks let one rank truncate a file between the open and the flush of
  another, after a third has finished.
- **Initial files.** Each starts either empty or holding a stale file longer than one copy.

Every property of a passing run has a mutant: a plausible bug in the mapped code that TLC finds
(`PROJECT.json`, "mutants"). The mutants are:

- an output parameter set on a failed call;
- the output parameters of `addLocalSubmissionDetails` swapped (also breaks `ConsistentRefs` and `MembersKept`);
- one try around the interface loop;
- the second `erase` at `length()`;
- a call whose send failed issued again (breaks `TypeOK` and `ImplementsSingleCall`);
- one registration loop that retries a module whose registration failed instead of ending the loop (breaks the refinement);
- a failed `transport->open()` retried until it succeeds (breaks `ClientEnds`);
- the outputs opened in append mode.

## 4. Fairness and liveness

`Register` assumes no fairness, and its liveness is not checked.

`ExperimentClient` assumes weak fairness of `ClientStep`: every step the process takes by itself.
These steps are:
- a local file read;
- the two `erase` calls;
- `transport->open()`, whose connect the kernel gives up on;
- the send, bounded by `setSendTimeout`;
- the print.

`Receive` has no fairness. The sockets have only a send timeout, so a server that never answers
blocks `recv` forever, and the code gives no ground for assuming that a reply comes. Under this
fairness `ClientEnds` holds: every run returns or terminates, or waits forever in `await`. Nothing is
retried, so no other wait exists. The mutant that retries a failed open breaks it.

`Pwscf` assumes no fairness and checks no liveness. Each rank is straight-line code whose only wait
is the `MPI_Finalize` barrier, which every live rank reaches, so termination would hold by the shape
of the program and says nothing about it.

## 5. What is proved

Every theorem below is checked by `tlapm`, for every value of the constants.

- **`RegisterProofs`**
  - Theorems: `IInvariant` (`Spec => []IInv`), `TypeCorrect` (`Spec => []TypeOK`) and
    `RefsSafe` (`Spec => []RefsIssued`).
  - Assumption: `N \in Nat`.
  - Why `RefsIssued` needs strengthening: it is not inductive on its own, because a request built from
    a member would break it if the member held a wrong id. `IInv` adds `ClientIdsIssued`: `gatewayId`,
    `localhostId` and every `moduleId[m]` are empty or name the stored entity of their kind and module.
  - Argument: one lemma per action. Each rests on a generic lemma for an RPC step (`ClientStep`). That
    lemma shows an output parameter is either kept or set to `nextId`, and that the server records
    `nextId` for exactly that kind and module when the reply arrives.
- **`RegisterProofs`, continued**
  - Theorem: `InterfacesAttempted` (`Spec => []InterfaceForEveryModule`).
  - Inductive invariant `LoopInv`: in the interface loop, modules `1..i-1` have had an interface
    request sent; at `done`, every module has.
- **`RegisterMembers`**
  - Theorems: `MembersInvariant` (`Spec => []MInv`), `RefsConsistent` (`Spec => []ConsistentRefs`)
    and `IdsKept` (`Spec => MembersKept`).
  - Why a strengthening is needed: `ConsistentRefs` speaks of the log, but a new request carries the
    members, so the step proof must know that every non-empty id in the log equals the member it
    was read from, and that a member is not written after it has been sent. `MInv` = `IInv` plus
    - `RefsAreMembers`: every reference in the log is to the gateway, the compute resource or a
      module of `1..N`, and a non-empty one equals the current value of that member;
    - `Unfilled`: a member is empty before the phase that sets it, and in the module loop
      `moduleId[m]` is empty for `m >= i`.
  - Argument: one lemma per action, each showing `RefsAreMembers'`, `Unfilled'` and the step
    predicate `KeptStep` of `MembersKept`; `MembersKept` then follows from `[][KeptStep]_vars` by PTL.
    `MInv` was checked with TLC at N = 3 first.
- **`RegisterRefinement`**
  - Theorems: `Refinement` (`Spec => Abstract!Spec`, where `Abstract == INSTANCE Registration`) and
    `RegistrationImplemented` (the same, stated with the run's property `ImplementsRegistration`).
  - Inductive invariant `RInv` = `IInv` plus three clauses:
    - `IdsBelow`: every stored id is below the server's counter, so a new one is fresh;
    - `EmptyBefore`: nothing is sent before the gateway phase;
    - `InOrder`: the last request sent precedes the one the current phase will send next (`NextKey`).
  - Argument: one lemma per action (`GatewayOrder` ... `CloseOrder`). Each lemma rests on
    `RpcRefines`: an RPC step appends its request and either stores nothing or stores `nextId` for the
    request's kind and module, which is an abstract `Send`. `RInv` was checked with TLC at N = 3 first.
- **`ExperimentClientProofs`**
  - Theorems: `ClientInvariant` (`Spec => []CInv`), `ClientTypeCorrect` (`TypeOK`, so at most one
    RPC) and `StripSafe` (`StripCorrect`).
  - Assumption: `ClientAssumption`. This requires `3 <= MaxHostLen < SizeT`, because the helpers'
    hard-coded `"'localhost'"` (three characters in the model) must be a configured host.
  - Inductive invariant `CInv` adds four clauses to `TypeOK` and `StripCorrect`:
    - a running process has printed nothing;
    - no RPC happens before the call;
    - a process at the call that is still running has made none;
    - at the print, the reply is one the signature allows.
  - `StripCorrect` rests on `StripQuotesCorrect`.
  - Theorem `ContractImplemented` (`Spec => ImplementsSingleCall`, where
    `Contract == INSTANCE SingleCall WITH ... phase <- Phase, calls <- rpcs, out <- printed`).
    Argument, one lemma per action: the local steps before the call are stutters or a `Fail` from
    `idle` (`LocalRefines`); a bad argument check is a `Fail` printing at most the usage; `Send` is
    the `Call`; `Receive` is a stutter or a `Fail` from `waiting`; `PrintResult` is the `Answer`
    whose witness is the reply held, which `CInv` puts in `Replies(prog)`. The clause of `CInv` that
    a running process has printed nothing is what makes the usage the only line before the call.
- **`HostStringProofs`**
  - Theorem: `StripQuotesCorrect`. For every sequence `s` with `Len(s) <= SizeT`, `StripQuotes(s)` is
    `SubSeq(s, 2, Len(s)-1)` when `Len(s) >= 2`, and `out_of_range` otherwise. On an empty remainder,
    the size_t wrap of `length()-1` is what throws.
  - Assumption: `SizeT \in Nat /\ SizeT > 1`.
  - It rests on the library's `SequenceTheorems`.
- **`PwscfProofs`**
  - Theorems: `IInvariant`, `TypeCorrect` and `OutputsCorrect` (`Spec => []OutputsComplete`).
  - Assumption: `N \in Nat \ {0}`.
  - Inductive invariant `IInv`:
    - a rank holds an open stream only after its `fopen`;
    - a rank reaches the `fclose` calls only with both streams open;
    - once any rank has opened a file, the file is empty or one copy;
    - once every rank has flushed a file, it is one copy.

    The third clause is what makes the last rank's write produce exactly one copy, whatever stale
    contents the file had.

TLC only, not proved:

- `ClientEnds`. It is liveness under fairness, which is beyond the prover.
- The violation runs. These are counterexamples, so there is nothing to prove.

## 6. What is not modelled

- The Airavata server, Thrift, jsoncons and glib. They are outside the repository and are represented
  only by the outcomes of their calls.
- `mpi-hello-world.c`.
- The contents of files and messages. Names, descriptions and JSON are abstracted away. For the
  emulator, only the presence of the input files matters.
- Reruns of the driver. A rerun after a lost reply registers entities again, which is a consequence
  of the missing idempotency the spec accepts.
- The `%s` buffer overflow in `pwscf.c`. It depends on input contents.
- A composition of the `airavata.cpp` helpers into a session (create project, create experiment,
  launch, poll status, read outputs). The caller of the helpers, a Qt GUI judging by the `qDebug`
  comments, is not in the repository. The server's experiment lifecycle is not either. Such a model
  would check an invented caller against an invented server, so each helper is modelled as one
  independent invocation instead.
- A composition of the driver with the clients. They share only the external server, and no code
  passes an identifier from one to the other.
