# A TLA+ verification of the post-quantum zero-knowledge bridge

This directory models this repository in TLA+. One half is the bridge: the
contracts, the scripts that move tokens through them, the node and the file that
connect the scripts, the post-quantum channel, the Merkle tree library and the
proof pipeline. The other half, and by far the larger program, is the compiler
`zkp-circuits/circom` that the pipeline runs: from the text of a circuit to its
constraints and to the parallel program that computes its witness. TLC checks
the models on small instances. TLAPS proves the safety of the bridge, of what it
reports, of the node's restarts and of its refinement of an abstract bridge for
every number of processes and every amount; the proof pipeline for any number of
runs; the Merkle tree for every depth; the compiler's parallel calculator for
any tree of components and any number of threads; its reading of files for any
includes among them; and its symbolic arithmetic for every prime, any signals and
expressions of any length.

## 1. The system

| Component | State | Operations | Interacts with |
|---|---|---|---|
| `contracts/L2A.sol` | `balances`, `verifier` | constructor, `bridgeTransfer` | calls its verifier |
| `contracts/L2B.sol` | `balances` | `receiveFromBridge` | called by the scripts only |
| `contracts/ZKBridgeVerifier.sol`, `verifier.sol` | none | `verifyProof`, `verifyProofOnChain` | called by L2A, `demoBridge.js`, `verifyProof.js` |
| `scripts/*.js` | local variables of a process | five scripts, each a sequence of awaits | the node, `deployed-addresses.json`, `proof.json`, `public.json` |
| Hardhat node | chain in memory, nonce of each account | mines each transaction as it arrives; may be restarted | every script |
| `deployed-addresses.json` | one book of three addresses | truncated and written by `deployContracts.js`, read by `transferBridge.js` | |
| `pq-crypto/algo.js` | none | key generation, encapsulation, decapsulation, AES-GCM | called inside a transfer |
| `contracts/lib/MerkleTree.sol` | `nodes`, `zeros`, `nextIndex`, `root` | `init`, `insert`, `getLeaf`, `getProof` | a Poseidon contract; no contract uses the library yet |
| `zkp-circuits/transfer.circom` | none | constraints on a transfer, a Merkle path and a nullifier | input builders, `verifier.sol` |
| `zkp-circuits/scripts/build_input_poseidon.js`, `verify_input.js`, `compute_nullifier.js` | `input.json` | compute the inputs of the circuit | the circuit |
| `zkp-circuits/run_project.sh`, `src/*.rs`, `reform_output.py` | `witness.wtns`, `proof.json`, `received.json`, keys | the pipeline from input to verified proof | files only |
| circom: `parser`, `type_analysis` | the program archive, one report per error | read the files, expand the syntax, check, type and decorate the program | hands an archive to the execution |
| circom: `constraint_generation`, `circom_algebra` | environment of one template, its constraints, the record of what was seen | execute a template at compile time, simplify its body | emits templates into the DAG |
| circom: `dag`, `constraint_list`, `constraint_writers` | nodes, edges, clusters, maps of substitutions | number, clean, classify, simplify on a thread pool, write `.r1cs` and `.sym` | `snarkjs` reads the files |
| circom: `compiler`, `code_producers` | instructions of a template | write the C++ and WebAssembly calculators | the calculators run on their own |
| the generated C++ calculator | signals, `outputIsSet` flags, mutexes, condition variables, thread counter | one thread per parallel component | the operating system's scheduler |

There is no server and no relayer: *a bridge transfer is one process that sends
two transactions*, a burn on L2A and then a mint on L2B. The hard behaviours
follow from that.

- **Concurrency.** Every script is its own process. All of them use the same
  signer (whose nonce decides the address of the next contract), the same
  contracts, the same sender and receiver, and one file. Between two awaits of
  one script any other process may act.
- **Failure.** A process can be interrupted between the burn and the mint,
  nothing is persisted about a transfer, and nothing undoes a burn. A script
  also fails by itself: a revert, a missing file, a file caught between
  truncation and writing, a getter called on an address without code.
- **Restart.** The chain is in memory. A restart empties it and resets the
  nonce, so new contracts land on the addresses of the old ones, while the file
  and the running processes keep the old addresses. A transaction to an address
  without code succeeds.
- **A pipeline without error handling.** `run_project.sh` makes proofs through a
  chain of commands and files. A failed command does not stop it, and the files
  of earlier runs, or those that the repository ships, take the place of the
  missing ones.
- **Stale reads.** The report of a transfer subtracts balances read before and
  after it, with other transfers in between.

The compiler adds hard behaviours of its own.

- **Orders nobody chose.** Clusters of constraints are simplified on a pool whose
  answers come in any order; substitutions are applied in the order of a hash
  map. The result must be one circuit with the same solutions.
- **One pass for all runs.** Templates are executed once, at compile time, with
  unknown inputs. What the pass saw decides which constraints exist and what the
  witness code computes, for every input.
- **Many numberings.** A signal's number is recomputed by offsets in several
  walks; the witness, the constraints and the symbols must agree on it.
- **Real threads.** The generated calculator runs parallel components on threads
  that share flags, a counter and memory, and free what others still use.
- **Rewriting before checking.** Anonymous components and tuples are rewritten
  before the program is typed, and later passes trust what earlier ones refused.

What makes the bridge correct: the books of addresses stay consistent
(`Wiring`), tokens are conserved (`Conservation`), nothing but the death of a
process strands a transfer (`NoFailureAfterBurn`, `BurnLeadsToMint`), no
transfer happens without a valid proof (`BurnWasProved`), and what a script
reports happened (`ReportCoversTransfer` and the properties on restarts). What
makes the Merkle tree correct: the incremental root is the root of the complete
tree, and the proofs it hands out lead to it. What makes the proof pipeline
correct: the proof survives its transport (`TransportDelivers`), a run without
failures verifies its own proof (`CleanRunAccepted`), and old files are not taken
for the result of a new run (`FreshKeysFreshProof`). What makes the compiler
correct: an expression means what its operators mean (`ExpressionMeans`,
`ConstraintMeans`), the constraints hold of the witness the code computes
(`CodeAgrees`, `WitnessSatisfies`), simplification keeps the solutions and the
layout (`SolutionsPreserved`, `LayoutStable`, `NumberingAgrees`), and the parallel
calculator reads final values, frees nothing in use and ends (`ReadsFinal`,
`MemoryHeld`, `Completes`).

## 2. The modules

| Module | Models | Correspondence |
|---|---|---|
| `L2A`, `L2B` | the two contracts | operators on the storage of one instance: the `require`s as a predicate (`...OK`), the effect as a function |
| `PQCrypto` | `pq-crypto/algo.js` | keys, secrets and ciphertexts are terms; a wrong ML-KEM key yields another secret, a wrong AES-GCM key, iv or tag throws |
| `Bridge` | the scripts, the node, the file | composes the three modules above; one action per await or file access of a script; the inductive invariants `IInv`, `ProvedInv`, `ReportInv` at its end |
| `TokenBridge` | what a user may expect | pairs of ledgers, a transfer burns once and later mints once on the same pair |
| `BridgeRefinement` | | the refinement mapping from `Bridge` to `TokenBridge` |
| `BridgeRestart` | a restart of the node | `Bridge` with the action `Restart` |
| `BridgeProofs` | | the theorems about `Bridge`, about reports and restarts, about the refinement |
| `MerkleTree` | `contracts/lib/MerkleTree.sol` | one action, `Insert`; `Init` is `init`; the getters are operators |
| `MerkleTreeProofs`, `Recursion` | | the theorems about the tree; recursion and induction over `Nat` in a form an instance can cite |
| `ProofPipeline` | `run_project.sh`, `main.rs`, `crypto_utils.rs`, `reform_output.py` | one action per command over the files of the directory; each may fail and leave its output as it was or truncated; the transport as one operator per function, on the twelve coordinates of a proof |
| `ProofPipelineProofs` | | the theorems about the pipeline and the transport |
| `CircomSyntax` | the syntax tree, `ast_shortcuts.rs` and the builders, the environments of the analyses | expressions and statements as records; what the grammar expands (`for`, `+=`, declarations with several names); blocks as a stack of names |
| `SyntaxSugar` | `syntax_sugar_remover.rs` | anonymous components and tuples rewritten, one operator per function |
| `ProgramAnalyses` | `symbol_analysis.rs`, the checks of returns, signals and functions, `custom_gate_analysis.rs` | one predicate per analysis |
| `TypeCheck` | `type_given_function.rs`, `type_check.rs` | dimensions and kinds of expressions; what the main component reaches |
| `ComponentTypes` | `component_type_inference.rs`, `type_reduction.rs` | the template of a component, the kind of a name |
| `ConstantsHandler` | `constants_handler.rs` | constants replaced by their values |
| `FileReading` | `parser/src/lib.rs`, `include_logic.rs` | the stack of files, the graph of includes and the pragmas; one action per file read, one at the end |
| `FileReadingProofs` | | the theorems about the reading of files |
| `FrontEnd` | `parser/src/lib.rs`, `check_types.rs` | composes the modules from `CircomSyntax` to here; one action per file read and per phase |
| `CircomMeaning` | | a reference interpreter, for the properties of `FrontEnd` |
| `ModularArithmetic` | `circom_algebra/src/modular_arithmetic.rs` | one operator per function over a small prime; `Undefined` is the answer `DivisionByZero` |
| `Algebra` | `circom_algebra/src/algebra.rs` | expressions of degree at most two, constraints `A*B - C = 0`, substitutions; a `HashMap` is a function whose domain matters |
| `ExpressionEval` | expressions in `execute.rs` | an accumulator goes through operators, beside it its meaning at every assignment |
| `FieldProofs`, `ExpressionEvalProofs` | | facts about prime fields, powers, sums and bits; the theorems about expressions, constraints and their elimination |
| `CircomCode` | `unknown_known_analysis.rs`, `filters.rs`, `analysis.rs` | the body of a template by places, the analysis that admits it and the filters that simplify it |
| `SignalState` | `assignment_utils.rs`, `component_representation.rs` | what an execution remembers of signals and of the inputs of a component |
| `TemplateExecution` | `execute.rs` | the execution of a template at compile time, one action per statement or change of block |
| `CircuitDag` | `dag/src` | nodes, edges, offsets, the walks over the tree of instances |
| `Simplifier` | `constraint_simplification.rs`, `simplification_utils.rs` | clusters, elimination inside one cluster, renumbering |
| `CompileCircuit` | `executed_program.rs`, `map_to_constraint_list.rs`, the porting to files | composes `CircuitDag`, `Simplifier` and `R1CSFile`; the workers of a pass answer in any order |
| `R1CSFile` | `r1cs_writer.rs`, `r1cs_reader.rs` | the bytes of the file, section by section, and their reader |
| `WitnessThreads` | the generated calculator, `calcwit.cpp` | the code of each component is given; one action per operation of a thread on the shared state |
| `WitnessCode` | store, load and template writers, `build_inputs_info.rs` | extends it by the code the compiler writes for a body: the operations, and what is known of each store |
| `WitnessThreadsProofs` | | the theorems about the calculator |
| `MC...` | | constants for TLC: the programs, circuits and bodies of the instances (the bridge, `MerkleTree`, `ProofPipeline` and `ExpressionEval` need none) |

### Bridge in detail

*The node* is `nonce`, `code`, `verifierOf` and `balances`, all indexed by
address. The address of a contract is the nonce of the transaction that created
it, so two live contracts never share one and a restarted node reuses them: this
is how Ethereum derives addresses from the deployer and its nonce. Sending a
transaction and waiting for its receipt is one step, because the node mines each
transaction as it arrives. An outcome can therefore not be lost between the two
awaits except by the death of the process, which is the step `Kill`. A reverting
transaction either is refused while its gas is estimated or is mined as failed
when the state moved in between; `Revert` leaves both open, as only the second
uses a nonce.

*The file* is `fileState` and `saved`. `writeFileSync` opens with truncation and
then writes, and other processes may read in between: hence the two steps
`TruncateFile` and `WriteFile`. If the writer is killed in between, the file
stays truncated and `JSON.parse` fails for every reader.

*A process* has a script (`kind`), a `status` and a `pc`. The steps of the
scripts, in order:

| Script | Steps |
|---|---|
| `deployContracts` | `deployVerifier deployL2A deployL2B truncate write showInitial` |
| `transferBridge` | `loadAddresses loadProof readSender readReceiver transmit burn mint finalSender finalReceiver` |
| `demoBridge` | `deployVerifier deployL2A deployL2B loadProof preVerify readSender transmit burn mint finalSender finalReceiver` |
| `deployZKVerifier` | `deployVerifier` |
| `verifyProof` | `loadProof submitProof` |

Only the first signer's and the receiver's balances exist, as the scripts use no
other account. A proof is one bit: whether the verifier contract accepts it,
which the contract computes without state, so the answer is the same each time.
`LoadProof` chooses it, or fails when the files are missing or malformed.
`deployer.address` in the file, the text that is printed, and the contract
events are left out.

### ProofPipeline in detail

A file holds what its readers can tell of it: a witness is the input it
satisfies, a key is the number of the run that made it (0 for the one in the
repository), a proof names the input, the key and the run that made it, and
`Unusable` is a file that is missing, truncated or malformed. Every run makes
new keys, because the contributions are random; this does not depend on the
circuit being compiled again, as the repository ships a `transfer_0000.zkey`.
`received.json` holds a flattened proof after the Rust program and a structured
one after `reform_output.py`, which leaves alone whatever has not twelve
elements. Groth16 verification accepts a proof under its own key and for its
own input, whichever run made it; that is the only thing assumed of it.

### The circom compiler in detail

*Front end.* A project has files in directories, each with a version, a pragma,
includes, definitions and perhaps a main component. `ReadFile` takes one path from
the stack as `take_next` does; after that every phase of `run_parser` and
`check_types` is one action that hands on a changed program, rejects it or ends
in a panic. What the program computes is `Meaning`, a constant
operator that the instance gives as `CircomMeaning`: it executes a definition as
the language documents it, anonymous components and tuples included, so that
the same interpreter runs the written and the final program. Places in the text
are strings that stand for byte offsets, as the names of anonymous components
are made of them.

*Field and algebra.* A literal is a canonical element `0..Field-1`. An expression
is a number, a signal, a linear or a quadratic form, or not quadratic at all;
key 0 of a form is its constant, a key may hold the coefficient 0, and the code
asks whether a map is empty rather than whether the form is zero, so the domains
are kept as the code keeps them. The arms of each `CASE` exclude each other, as the
arms of a `match` do by their order. `Usize` is the number of values of a machine word, in
which a shift amount has to fit and a component counts its missing inputs.

*Templates.* The template that `TemplateExecution` executes has inputs `x` and
`y`, a signal `s[2]`, variables `a` and `b`, and a component `c` with the inputs
`in[2]` and `k` and one output. A node of its body is named by its place, the
path from the root, which stands for the `elem_id` of the syntax tree. A condition
that is not a number opens an unknown block: both arms are executed, every
variable assigned in them becomes unknown, and a loop is executed twice. `seen`
records which statements were reached and which values the expressions had;
`CircomCode` simplifies the body by that record, and `CodeAgrees` compares the
simplified body with the source on every input. The component is executed
atomically when the last input that decides its tags arrives.

*DAG and simplification.* A dag is `[nodes, adjacency]`; main is the last node.
The name `c.s` reads as two digits. Where the code iterates over a `HashMap` or a
`HashSet` the parameter `up` says which of two orders the iteration takes;
`CompileCircuit` lets it differ from pass to pass, and the workers of a pass
answer in any order. A compilation ends with the `.r1cs` (constraints over the
numbering of the witness) and the `.sym` (name, witness number, node).

*The .r1cs file.* `R1CSFile` builds the bytes as the writer does: a section starts
with a placeholder for its size, its size is added up write by write, and ending
the section seeks back and overwrites the placeholder. The reader first goes
from section to section by these sizes, then reads each from its start, with the
width of a field element taken from the header. `NumberingAgrees` demands that it
gets what the writer was given. One oddity: the factors of a linear combination
are sorted by the bytes of their signals, so signal 256 comes before 1.

*Witness code.* A body is a sequence of stores to own outputs, stores to inputs of
subcomponents, reads of outputs and branches. `WitnessCode` turns it into the
operations of the generated program: compare and decrement the counter of missing
inputs, start a component, take and leave a slot, wait on a flag, set it and
notify, join, release. `WitnessThreads` runs such operations, whoever wrote them:
its `CodeAssumption` says what the threads need of the code (section 5), and TLC
finds it true of every program that `WitnessCode` compiles for the run. The mutex
`numThreadMutex` is never kept over a wait, so a step takes and leaves it; the
mutex of an output is kept by its reader until it has a slot again, and that is
`held`. `at` is the next operation of a component, and `aborted` a failed
assertion of the generated code.

## 3. The runs

| Run | Question | Instance | Result |
|---|---|---|---|
| `bridge_transfers` | `NoFailureAfterBurn`, `BurnWasProved`, `RefinementInv` (it contains `IInv`), `Conservation`, `ReportCoversTransfer`, `RefinesTokenBridge` | 3 processes of `deployContracts` and `transferBridge`, amount 1, supply and `MaxUint` 2 | holds, 292702 states |
| `bridge_live` | `Wiring`, `Termination`, `BurnLeadsToMint` | 2 processes of all five scripts, fair, no symmetry | holds, 34 thousand states |
| `bridge_restart` | `TypeOK`, `RestartInv` (before the restart it contains `IInv`), `UncrossedReportCovers`, `UncrossedTransferIsReal` | 3 processes, amount, supply and `MaxUint` 1, 1 restart | holds, 1329732 states |
| `bridge_verified` | `VerifiedMeansValid` | 2 processes of all scripts | violated |
| `merkle` | `RootIsReference`, `ProofsVerify`, `RootsNeverRepeat` | depth 3, two plain leaves, the zero word and the word of an unused position, 9 insertions | holds, 349525 states |
| `pipeline` | `TransportDelivers`, `CleanRunAccepted`, `FreshKeysFreshProof` | 2 runs of the script, 2 inputs with a witness and 1 without | holds, 198607 states |
| `front_end` | `AcceptedMeans`, `AcceptedRuns`, `IncludesClosed` | 5 169 projects: pairs of statements, functions, several files | holds, 42 633 states |
| `algebra` | `ExpressionMeans`, `ConstraintMeans`, `StopsOnlyWhenUndefined` | two operators, field of 11 | holds, 40136 states |
| `templates` | `CodeAgrees`, `WitnessSatisfies`, `AssignedOnce`, `TagsTrue`, `InputsGiven` | 5 632 bodies, field of 5 | holds, 74068 states |
| `compile` | `SolutionsPreserved`, `LayoutStable`, `EverySignalPlaced`, `NumberingAgrees` | 509 circuits, 6 settings of the options, field of 3 | holds, 38 179 states |
| `witness_threads` | `StatusesRight`, `StartedComplete`, `ReadsFinal`, `MemoryHeld`, `SlotsRepaid`, `Completes` | sequential, parallel and nested components, 1 to 3 slots, fair | holds, 38286 states |
| `witness_branches` | `AssertionsHold` | the same, without fairness | violated |

**Bounds.** Three processes are the least number for two transfers that overlap
on contracts a third one deployed, and for two deployments with a transfer
between them. With a supply of two amounts (`bridge_transfers`) both transfers go
through and overlap in every order; with a supply of one (`bridge_restart`) they
compete for it, and `bridgeTransfer` must refuse the last one: `RestartInv` demands
the whole of `IInv` and `BurnWasProved` there until the node restarts. The amount is
the unit: the code always
moves 100 of 1000. `MaxUint` equals the supply, the smallest word that holds it,
so any token beyond the supply overflows. `MaxNonce` bounds the transactions of
the first signer and is large enough never to stop a run without restarts: 9
covers three deployments (3 transactions each), 10 two runs of `demoBridge`
(5 each). In `bridge_restart` it is 5 for each life of the node, which fits one
deployment and one transfer, so two deployments in the *same* life of a node
that restarts are outside of that run (`bridge_transfers` covers them without
restart). `MaxRestarts` is 1.

`demoBridge` and the two verifier scripts run in `bridge_live` and
`bridge_verified` only, with two processes. `demoBridge` shares nothing with the
others but the nonce, so its interference is that of a deployment.

In `MerkleTree` `MaxUint32` is 9: past the capacity of a tree of depth 3, and
small enough that the counter reaches its limit and `incrementIndex` refuses.

In `ProofPipeline` two runs of the script are enough for a file to be stale, next
to the files of the repository, which act as those of a run before; a third
input adds nothing, as a statement is either the current one or another.

In `front_end` the field has 7 elements, `Fuel` (12) bounds the passes of a loop and
the depth of calls in `Meaning`, and `Alphabet` orders the names of wires, which the
code orders as strings. The projects are: a main template of the usual
declarations and two statements from a pool (anonymous components in loops,
conditions and other anonymous components, tuples, inputs by name, components and
arrays of them, tags, calls, type errors); functions from a pool; and projects of
three or four files with cycles, diamonds, libraries, pragmas and versions. Of
the 3 300 pairs about a thousand are accepted and compute something, 200 are
accepted and stop as written (an index or an assertion), 80 are accepted but not
tidy, 200 panic and the others are rejected.

In `algebra` a machine word has 5 values, so that shifts by 5 and by -5, which the
documentation defines, do not fit.
The field has 11 elements, enough for a lower and an upper half
with carries between them; the literals are 0, 2, 5 (the largest positive), 6
(the smallest negative) and 10. Two operators reach every pair of forms.

In `compile` the field has 3 elements, `FewConstraints` (350 in the code, the
limit between the two heuristics) is 2 so that both are used, and `MostRounds` is 9
for the largest `usize`. The circuits have two or three templates with up to three
instances of them; custom gates with different parameters make the file have five sections.

In `witness_threads` the number of slots is one to three where the code has 32;
loops run twice. Spurious wake-ups are left out: each wait is in a loop over its
flag.

In `templates` the field has 5 elements and `Usize` 8 values; there is one tag.
The 5 632 bodies are those of up to four statements, chosen so that each
statement appears in each block and after each other.

`CHECK_DEADLOCK FALSE` stands where the system really stops: when all scripts have
ended, the counter of the tree is at its limit, the pipeline is not started
again, an expression is done, or the witness is computed. A compilation and an
execution of a template instead stay in their last state by an action of their
own, and deadlock is checked there.

**Fairness.** `FairSpec` asks weak fairness of `Step(r)` for each process: a
Node.js process that is not killed gets to its next await, as the node answers
every request and no script holds a lock. Nobody is obliged to start a script,
`Kill` is never required, and the liveness properties allow for it. `Termination`
and `BurnLeadsToMint` would fail if a script waited on another one. The
`FairSpec` of `WitnessThreads` asks weak fairness for each component: its thread
is scheduled by the operating system, and a thread woken by `notify_all` runs
again. No order between threads is assumed.

## 4. Where the code and its texts part

`bridge_verified` finds `VerifiedMeansValid` violated: `verifyProofOnChain`
returns false for a bad proof and does not revert; `verifyProof.js` sends it as a
transaction, whose return value is discarded, and prints "Proof verified
successfully!" at line 40. It prints the same when nothing is deployed at its
hard-coded address.

`witness_branches` finds `AssertionsHold` violated: `build_inputs_info` visits the if
branch twice and the else branch never (`build_inputs_info.rs:64` and 71). With two
branches that may each give the last input of a component, the store in the first is
taken for one that leaves others missing, the assertion `store_bucket.rs:676` writes
after it fails, and nothing starts the component. `StatusesRight` claims bodies whose
arms give inputs to the same components.

Other things met while modelling. A property of section 3 that would be refuted
by one of them says so in its guard, and claims the rest.

*The bridge.*

- Two overlapping runs of `transferBridge.js` on one pair each report the sum of
  both transfers (lines 195 and 196). `ReportCoversTransfer` claims the lower bound.
- After a restart between the reads (lines 65, 66) and the transactions,
  `bridgeTransfer` and `receiveFromBridge` go to addresses without code and
  succeed; with contracts deployed there again, the script closes with "TRANSFER
  COMPLETED SUCCESSFULLY!" and nothing has moved. `UncrossedTransferIsReal` claims
  the runs that were not crossed by the restart.
- `init` of the Merkle tree stores `zeros[depth - 1]` as the root, while `insert`
  hashes `depth` levels; and `insert` has no capacity check, so leaf number
  `2^depth` replaces the root by that of a path beside the tree.
- An unused position of the tree does not hold zero but the hash of two zeros
  (`zeros[0]`). Whoever inserts that word leaves the root as it was, so a root may
  repeat; `RootsNeverRepeat` claims histories in which nobody does. A leaf of zero
  is harmless.
- `run_project.sh` prints "ZKP generation completed." whatever the commands
  before it returned.

*The compiler, before execution.*

- `expand_variable` (`constants_handler.rs:538`) asks whether a constant of that
  name exists in any open block. A variable that hides a constant of an outer
  block is replaced by that constant, and the function returns another value,
  although `scoping.md` reduces a variable's visibility to its block. `AcceptedMeans`
  claims the programs in which no declaration hides another (`NothingHidden`).
- `type_reduction.rs` learns what a component is in the order of the text. When its
  wires occur in the text before its creation (in a loop this may still run in
  order), or it is created by `?:`, its input is taken for something else.
  `AcceptedMeans` and `AcceptedRuns` claim programs that create components first
  (`CreatedFirst`).
- The path of the main file is not canonical, so a file that includes it back gets
  it read a second time. `IncludesClosed` allows that.
- Some programs end the compiler in a panic: `parallel 3`, two anonymous
  components nested in the parameters of a `parallel` one, wires of a component
  that was assigned the value of a function. They end in the phase `panicked`.

*The compiler, at compile time.*

- A loop whose condition is unknown is executed twice (`execute.rs:654`). A value
  that first changes in the third pass is compiled into the witness code as a
  constant, although `control-flow.md:39` has the condition checked before each
  execution of the block. `CodeAgrees` claims executions in which no value went
  stale in this way (`stale`); loops may pass any number of times.
- The stack of conditions keeps an entry of a loop that is left inside an arm.
  After that a second assignment of a signal may be taken for one in the other
  arm. `AssignedOnce` claims executions without such an entry (`strayed`).
- Each assignment to an input of a component takes its cells off the count of the
  missing ones (`component_representation.rs:878`), whichever arm of a condition it
  is in. One cell assigned in both arms counts as two, so a template that never gives
  the other cell and reads the output is accepted, although
  `templates-and-components.md:75` announces a compiler error; and an input given in
  one arm is not missed in the other. `InputsGiven` claims programs without
  either (`InputsWhole`).
- A shift of constants by more than a machine word holds, in either direction, ends in
  the report "Division by zero" (`modular_arithmetic.rs:117` and 130,
  `execute.rs:3714`), although `basic-operators.md:105` and 112 define shifts for every
  amount. The meaning in `ExpressionEval` (`Shifted`) is the documented one;
  `StopsOnlyWhenUndefined` names such a step (`ShiftsTooFar`), and claims that
  evaluation stops at no other expression that has a value.
- `%` by zero on constants ends the compiler (`modular_arithmetic.rs:58`).
- `constant_eq_simplification` (`constraint_simplification.rs:253`) keeps the last of
  two constants for one private signal, and the contradiction is lost: an
  unsatisfiable circuit gets solutions, although by `simplification.md:15` the relation
  between public inputs and outputs does not change. `SolutionsPreserved` claims
  circuits whose constants agree (`ConstantsAgree`).
- The number of rounds wraps around below zero under `--O1`; it is then not read.

*The generated calculator.*

- A component holds its slot while it creates the threads of its subcomponents
  and waits for one for each: when nested components take all slots, nobody
  proceeds. A parallel component without inputs is never started by a store.
  `Completes` claims programs with slots for all nested threads.

## 5. What is proved

| Module | Theorem | States |
|---|---|---|
| `BridgeProofs` | `Invariance` | `Spec => []IInv` |
| | `TypeCorrectness` | `Spec => []TypeOK` |
| | `WiringHolds` | `Spec => []Wiring` |
| | `ConservationHolds` | `Spec => []Conservation` |
| | `NoFailureAfterBurnHolds` | `Spec => []NoFailureAfterBurn` |
| | `BurnWasProvedHolds` | `Spec => []BurnWasProved` |
| | `ReportInvariance` | `Spec => []ReportInv` |
| | `ReportCoversTransferHolds` | `Spec => []ReportCoversTransfer` |
| | `RestartInvariance` | `RestartSpec => []RestartInv` |
| | `UncrossedReportCoversHolds` | `RestartSpec => []UncrossedReportCovers` |
| | `UncrossedTransferIsRealHolds` | `RestartSpec => UncrossedTransferIsReal`, an action property |
| | `RefinementInvariance` | `Spec => []RefinementInv` |
| | `Refinement` | `Spec => RefinesTokenBridge` |
| `ProofPipelineProofs` | `PipelineInvariance` | `Spec => []PipelineInv` |
| | `TransportDeliversHolds` | `Spec => []TransportDelivers` |
| | `CleanRunAcceptedHolds` | `Spec => []CleanRunAccepted` |
| | `FreshKeysFreshProofHolds` | `Spec => []FreshKeysFreshProof` |
| `MerkleTreeProofs` | `TreeInvariance` | `Spec => []TreeInv` |
| | `RootIsReferenceHolds` | `Spec => []RootIsReference` |
| | `ProofsVerifyHolds` | `Spec => []ProofsVerify` |
| | `MerkleInvariance` | `Spec => []MerkleInv` |
| | `RootsNeverRepeatHolds` | `Spec => []RootsNeverRepeat` |
| `WitnessThreadsProofs` | `ThreadsInvariance` | `Spec => []ThreadsInv` |
| | `StartedCompleteHolds` | `Spec => []StartedComplete` |
| | `ReadsFinalHolds` | `Spec => []ReadsFinal` |
| | `MemoryHeldHolds` | `Spec => []MemoryHeld` |
| | `SlotsRepaidHolds` | `Spec => []SlotsRepaid` |
| `FileReadingProofs` | `ReadingInvariance` | `ReadingSpec => []ReadingInv` |
| | `IncludesClosedHolds` | `ReadingSpec => []IncludesClosed` |
| `FieldProofs` | `InverseExists` | every element but 0 has an inverse |
| | `MultiInvInverts` | `MultiInv` inverts every number of a list without zero |
| `ExpressionEvalProofs` | `IInvHolds` | `Spec => []IInv` |
| | `ExpressionMeansHolds` | `Spec => []ExpressionMeans` |
| | `ConstraintMeansHolds` | `Spec => []ConstraintMeans` |
| | `StopsOnlyWhenUndefinedHolds` | `Spec => StopsOnlyWhenUndefined`, an action property |
| | `EliminationKeepsSolutions` | solving a constraint for a signal and substituting it keeps the solutions |
| | `ConflictKeepsSolutions` | the cross difference of two constraints solved for one signal keeps them too |

`Spec` is that of the module the proofs extend; none needs fairness. Each theorem
but those on operators (`InverseExists`, `MultiInvInverts`, `EliminationKeepsSolutions`,
`ConflictKeepsSolutions`) and on `IInv`, `ReportInv`, `PipelineInv`, `TreeInv`, `MerkleInv`,
`ThreadsInv` and `ReadingInv` states a property that a run checks too. Every safety property that
holds of the bridge, the tree, the pipeline, the running calculator and the algebra is on this list.

**Assumptions.** Of `Bridge`: `Run` is any finite set, the scripts are among the
five, the two signers differ, the amount is positive, the supply fits in a word,
and there is at least one address. Of `MerkleTree`: the depth is a positive
number and the limit of the counter a number; leaves are any values, and the hash
is free, so two different pairs never collide. `ProofPipeline` assumes nothing of its inputs.
Of `WitnessThreads`: every program is `Orderly`, see below. Of `FileReading`: the
libraries and the includes of a file are lists; the files of a project need not be
finite, and includes may form cycles. Of `ExpressionEval`: the field is a prime greater
than 2; a machine word has a value; signals are positive numbers, as key 0 of a map is
the constant; literals are canonical, as `build_number` reduces them
(`expression_builders.rs:46`). Signals and literals need not be finite. TLC evaluates all of
them in the runs.

**The bridge.** `TypeOK` is not inductive: a mint could overflow and the type
of the balances would be lost. That it does not is a consequence of
`Conservation`, as the mint of one transfer in flight can only raise the balance
to what the L2A started with (`MintFits`). `Conservation` in turn needs that an
L2A and its L2B belong to each other and to no one else (`Wiring`), or two L2A
could feed one L2B. `Wiring` survives a deployment because the address of a new
contract was unused (`Unused`) and because an L2A without its L2B is known only
to the process deploying it and has its full supply (`Private`), so a pair
opens in balance. `Stages` says what a process knows at each step, and
`Delivered`, that the payload decrypted by the receiver is the one the sender
encrypted, comes from the round trip of the channel (`RoundTrip`). Together
with `NoFailureAfterBurn`, which needs all of them, they are `IInv`. For
`BurnWasProved` it is enough to add that a payload carries the answer its proof
deserves (`ProvedInv`): the book is wired, so the burn meets an L2A, and that asks
the verifier.

**Reports and restarts.** A report subtracts balances read at four moments. What
relates them is `Tracked`: since a process read the sender's balance it has only
fallen, and since it read the receiver's that has only grown, by `Amount` as soon
as its own transaction is mined; `Reported` is the half of the subtraction that is
already in memory. Both rest on `CommonInv`, the part of the invariant that no
restart disturbs: it says nothing of wiring or conservation, which a stale file
breaks. So the proof is made once: on a living node for every process (`ReportInv`),
and on a node that restarts for every process outside of `crossed` (`RestartInv`, which
until the first restart adds `IInv` and `ProvedInv`, by the lemmas of the living node).
`UncrossedTransferIsReal` follows from `RestartInv` step by step: a contract that an
uncrossed process read from still has code, so the call moves tokens.

**The refinement.** A pair of `TokenBridge` opens when a process has deployed its
L2B. Before that nobody knows the L2A (`Private`), so every book in use is one that
a deployment put together (`BooksDeployed`), and a burn through a book loaded
from the file is a burn on an open pair. `Itineraries` says which scripts take
which step. Each kind of step then has a lemma that finds its abstract step:
`DeployL2B` is `OpenPair`, `Burn` is `BurnOn`, `Mint` is the mint on the pair that was
burned on, since a process never changes its book in between; all others stutter.

**The pipeline.** `PipelineInv` says of every file what made it: `FilesOK`, that a
proof, in either shape, is never older than its key; `KeysOfRun` and `ProofOfRun`,
what the commands that did not fail have left of this run; `Sent`, that
`received.json` holds the flattened proof before it is restructured; `Judged`, that
the verdict is about the files as they are. `WitnessOfRun`
says whose witness it is, and `OwnProofs`, that a proof made in this run, wherever it lies,
is of this run's input unless the witness command failed. `FreshKeysFreshProof` follows: an
accepted proof is under the key of this run, is not older than it, and no proof is
newer than the run, so it was made in it. It is always a proof of the public signals
beside it. That these are of the current input cannot be claimed when the witness command
failed: the script goes on, proves the witness an earlier run left, and accepts that.
The lemmas about `flatten_json` and `reshape` compute the fold
over the rows of a proof, so that the round trip holds of any coordinates.

**The Merkle tree.** The tree is defined by recursive functions on levels, and the
library's induction theorems cannot be cited here (they take an operator as a
parameter). `Recursion` therefore states definition and induction over `Nat` for a
`Start` and a `Step` that are constants of the module, proved from the least-number
principle; `MerkleTreeProofs` has an instance of it for each recursion. `TreeInv`
says that every stored node on or before the last path is the node of the
complete tree and everything beyond is zero (`NodesOfTree`, `UnusedZero`), which is why
a sibling that reads zero may be replaced by the zero of its level. An insertion
changes one node per level, and the induction over the levels shows that each is the
complete tree's again (`RootIsReference`) and that the siblings in storage lead
every older leaf to the new root (`ProofsVerify`). For `RootsNeverRepeat` the history
needs a part of its own: `Shows` goes down from a root to the positions it declares
unused, which tells the number of leaves it was made of (`HistoryInv`).

**The parallel calculator.** `CodeAssumption` is what the threads need of the code
of each component: the components form a tree, a father before
its components, and main is no thread (`WellTyped`); a component is created,
used, joined and released in this order by its father alone (`PartsInOrder`); a store
that may be the last one is followed by the start, and nothing else starts
a component (`StartsInPlace`); inputs are stored at most as often as there are, and
before the outputs are used or awaited (`InputsFirst`); a slot is taken
after each start and wait of a thread and given up before each wait and at the end
(`SlotsPaired`). The order of these operations is what the writers of the
compiler put into one function, or what the circuit's author must do for a complete
circuit (give every input once). TLC confirms it for each program that
`WitnessCode` compiles for the run. Nothing is assumed of the schedule, of the
statuses of the stores, of the number of slots or of the shape of the tree.

In `ThreadsInv` the position of a father tells everything about its components.
`CountsDown`: the counter is the number of inputs less the stores before that
position, so it is zero when the last one is done. `StartedByFather` and
`StartedInTime`: a component runs if and only if it lacks nothing, except between
the decrement and the start in the next line, where `Count` may also skip. `FatherWaits`:
the father of a sequential component stays at the call. `FlagsAnnounced` and
`AwaitedAnnounced`: a flag, or a finished wait, is a witness that the `set` in the code of
the component has been passed. `JoinedFinished` and `MemoryOwned` give the life of a component
between its creation and its release. `SlotsCounted`: `numThread` is the number of
threads with a slot, less those that returned it for good, less those that wait. The proofs
go by five kinds of steps (creation, counting, starts, steps without effect on
other components, stutter) rather than by fifteen operations. `ReadsFinal` then needs
that a sequential component has finished, or that the store stands before the announcement.
For `SlotsRepaid`, when main has ended, every started component has ended, or the least one
that has not would have a finished father; so all who took a slot gave it back.

**The reading of files.** `IncludesClosed` compares what was read with the least set of
files that holds the main file and all a member leads to. `FromMain` keeps the files
read inside that set. `NothingLost` gives the converse: an include of a file that was
read is read too or waits on the stack, so when nothing unread waits the files read are
closed. Dropping a path loses nothing, since paths are dropped only when they were read
(`TakeEffect`: what is known grows by exactly the includes of the file). `EdgesRight` says
that the graph of includes has the edges of the files read, from which the absence of
a missing pragma carries over from the nodes of the graph to the files. The two differ
for a main file that is included back and read twice, under two paths of which only
one has edges; `SameAbove` shows that the traversal reaches both or neither.
`FrontEnd` takes the steps `ReadFile` and `EndReading` of this module, in `Merge` the
latter, and its other steps change none of the files, which is `LaterPhase`. That
is read off its `Next`, not proved: `FrontEnd` reaches `RECURSIVE` operators.

**The algebra.** The proof goes up in five layers. *Field*: reduction may be done at
any time; every element but 0 has an inverse (`InverseExists`, by descent on the least
positive multiple, since the prime itself is a multiple of nothing smaller) and only one
(`Cancel`), so the quotient the documentation means is the one `DivMod` finds. Sums over
finite sets, powers and digits are recursive functions, each an instance of `Recursion`;
`Powering` and `PoweringMod` agree (`PowMeans`), and a number is the sum of the powers of its
bits (`DigitsValue`, `BitsValue`), from which masks, shifts and the complement follow.
*Operators on numbers*: each folds to its documented value (`ComputationMeans`,
`ComparisonMeans`). *Maps*: the value of a map may be summed over any larger set of keys
(`SumOverKeys`), so adding and scaling maps with different keys adds and scales values.
*Expressions*: `Means` says that an expression is unknown, or is of one of the four forms
with canonical coefficients and has the given value everywhere; each operator preserves it
(`AddMeans`, `MulMeans`, `DivMeans`, ... , `InfixMeans`). *Machine*: `IInv` says `Means` of the
accumulator and `ConstraintMeans` of the constraint; `NextIInv` finds in the same case
analysis that a step which stops has no value left or shifts too far
(`StopsOnlyWhenUndefined`). `ExpressionMeans` alone is not inductive: the
value of a product needs the form and the canonical coefficients of its factors.
`IInv` quantifies over all maps, so TLC does not evaluate it; the three theorems are what
the run checks of it.

**The elimination step.** The run `compile` checks `SolutionsPreserved` on whole circuits;
the step it rests on is proved for every prime, any number of signals and any maps. A
linear constraint that mentions a signal with a coefficient other than 0 (`Solvable`)
says `coefficient * signal = rest` (`UnnormalizedSolves`), so both ways of solving it, at once
(`ClearSignal`) and with the coefficient divided out later (`Normalized`), give the one value the
constraint leaves to the signal (`Solves`). Evaluating a map after a substitution is evaluating
the old map where the signal has that value (`SubstituteSum`), and putting a constraint in
order, which drops zeros and moves a constant factor into C, changes neither what it says
nor adds a signal (`FixConstraintHolds`). `EliminationKeepsSolutions` puts these together: an
assignment satisfies the new constraint exactly when, completed with the value computed for the
signal, it satisfies both old ones, and the signal is gone. `ConflictKeepsSolutions` is the
other outcome of the lazy elimination, a signal already solved for: the constraint the
compiler goes on with says, given the first, what the second says, and mentions neither the
signal nor a new one. That the division of a whole cluster, one for all of its
coefficients, inverts each of them is `MultiInvInverts`. What is left to TLC is the order of
the steps: `Treat`, which goes on until no signal is free, is a `RECURSIVE` operator.

**Only model-checked.** Liveness (`Termination`, `BurnLeadsToMint`, `Completes`) is out
of reach of the prover. `StatusesRight` and the properties of
`compile`, `templates` and, but for `IncludesClosed`, `front_end` are about programs over trees of syntax and of
components, which those modules walk with `RECURSIVE` operators. They are not in the
prover's reach. That the code `WitnessCode`
writes is `Orderly` for every body, not only those of the run, is therefore not proved.

## 6. What is not modelled

- The Groth16 equations and the field checks of `verifier.sol`: a proof verifies
  or it does not.
- The transfer circuit and the input builders: see the plan.
- `verify_integrity` of the Rust program: it compares lengths, its answer is only
  printed, and no state of the program makes it false.
- Transactions on L2A and L2B by accounts other than the scripts'. Both functions
  are public, and `receiveFromBridge` trusts its caller; what is claimed here is
  about the repository's own callers.
- A shift to the left whose power of two is a machine word of bits but more than the
  memory holds: the compiler computes the power before it masks it.
- Running out of gas or of ether, and networks other than the in-memory node.
- Of circom: the grammar and the lexer, buses, the text of reports and warnings,
  calls of functions and `log` and `assert` at compile time, the translation into
  the intermediate representation (`hir`, `translate.rs`), the WebAssembly
  writer, the JSON files and the `--inspect` checks.
- `witness_calculator.js` (generated) and the
  leftovers of the Hardhat template (`Lock`), whose contract is not there.

## 7. Plan

Done: the modules of section 2, and the theorems of section 5 on `Bridge`,
`BridgeRestart`, `BridgeRefinement`, `ProofPipeline`, `MerkleTree`,
`WitnessThreads`, `FileReading` and `ExpressionEval`. Next, in this order:

1. `TransferCircuit`: the constraints of `transfer.circom` over a free hash
   (binary path indices, selectors, root, nullifier) as a predicate on inputs,
   and `build_input_poseidon.js` as an operator that computes an input. Checks:
   the input it builds satisfies the circuit for each leaf index in range, and a
   satisfying assignment shows a leaf of the tree and its one nullifier.
2. The field check and the early returns of `verifier.sol`, so that the answer
   bit of `Bridge` gets a model of its own.
3. Proofs about the compiler, after splitting what does not recurse over syntax off
   the modules that do: the clusters and the renumbering of `Simplifier`
   (`LayoutStable`), sequences of elimination steps (from
   `EliminationKeepsSolutions`), and `SignalState` (`AssignedOnce`).
4. Circom: functions, arrays of components and buses at compile time; the
   instructions of `WitnessCode` generated from a body by `translate.rs` instead of
   given; the stack of the WebAssembly code.
