# Formal models of NEML2

NEML2 is a C++ library of batched constitutive material models.  This directory
holds TLA+ modules that model the parts of it that carry control and state,
TLC configurations that check them on small instances, and theorems about them
with proofs that TLAPS checks.  Line numbers refer to the sources under `src/`.

## 1. The system

| Component | State it keeps | Operations | Interacts with |
|---|---|---|---|
| Work dispatcher (`include/neml2/dispatchers/WorkDispatcher.h`) | thread pool, one task queue per device, `_results`, `_stop` | construct (`init_thread_pool`), `run_sync`, `run_async`, `thread_pool_main`, destroy (`stop_thread_pool`) | scheduler, generator, the functors of `ModelDriver` |
| Work schedulers (`WorkScheduler`, `SimpleScheduler`, `StaticHybridScheduler`, `SimpleMPIScheduler`) | load per device | `schedule_work`, `dispatched_work`, `completed_work`, `wait_for_completion` | called from the main thread and from every pool thread |
| Work generators and loaders (`WorkGenerator`, `SliceGenerator`, `TensorLoader`, `ValueMapLoader`) | `_offset` | `has_more`, `next`, `total` | the dispatcher |
| Nonlinear solvers (`Newton`, `NewtonWithLineSearch`, `NewtonWithTrustRegion`) | iterate, trust radius | `solve`, `update`, `linesearch`, `converged` | `NonlinearSystem` |
| `NonlinearSystem`, `ImplicitUpdate` | the guess (the model's own input variables), scaling, the thread-local solving flag | `set_guess`, `residual`, `Jacobian`, `init_scaling`, `set_value` | a solver, the implicit model |
| Model evaluation (`Model`, `VariableStore`, `Variable`) | input, output and derivative values, caches of traced graphs | `value`, `dvalue`, ..., `forward_maybe_jit`, `clear_input` | drivers, submodels, the JIT tracer |
| Model composition (`ComposedModel`, `DependencyResolver`) | node graph, resolution order | `resolve`, `set_value` (chain rule) | submodels |
| Transient driver (`TransientDriver`, `ModelDriver`) | `_in`, `_result_in`, `_result_out`, `_step_count` | `solve` and its per-step parts | model, dispatcher, postprocessor |
| Input and construction (`Parser`, `HITParser`, `Factory`, `Registry`, `OptionSet`) | loaded objects, options | `load`, `get_object` | every object |
| Labeled axes and assemblers (`LabeledAxis`, `Assembler`) | layouts | `add_variable`, `setup_layout`, `assemble`, `split` | models, solver |
| Parameters and buffers (`ParameterStore`, `BufferStore`) | tensors, nonlinear parameters | `declare_parameter`, `set_parameter` | models |
| Tensor library, material models, Python bindings | none beyond values | numerical functions | everything |

What is hard about them, in one paragraph: the dispatcher is a thread pool with
two mutexes and two condition variables, and leaves two containers to chance;
the solvers move a guess that lives in the model's own input variables, so that
"which point was this residual evaluated at" has to be answered at every place;
the transient driver keeps its input map across steps and across runs, throws
included; chunks of a batch are cut and put together by shape arithmetic that
must agree with broadcasting; the evaluation order of composed models comes
out of a depth-first search over sets of pointers; a model keeps sizes, axes,
sparsities and traced graphs of earlier evaluations; derivatives may be assigned
in several shapes that are told apart by their sizes; and objects are shared
through a cache while they are still under construction.  `PROJECT.json` lists under
`hazards` each of these at its line, with the properties that would catch it
going wrong or the reason why none does.

What makes each part correct:

- *Dispatch.* Every batch is worked on once, and `run` returns after all of them
  with all results; the load kept by the scheduler is the work in flight; no
  device exceeds its capacity; nobody sleeps on a condition that holds; the
  destructor drains the queues and ends, after an exception too.
- *Nonlinear solves.* What is published is a converged state; directions,
  derivatives and convergence tests are of the point they are taken for; the
  thread-local solving flag is restored on every path; every call ends.
- *Transient driver.* Each step solves the initial value problem of its own run;
  what is recorded is that trajectory.
- *Chunking.* The update of the chunks is the update of the batch.
- *Composition.* The order is an evaluation order, a cycle is always reported,
  and total derivatives are those of the composed function.
- *Model evaluation.* Values and derivatives are those of the arguments of the
  call and of the current parameters, whatever was evaluated before.
- *Axes and assemblers.* An entry of a derivative is that of the elements it stands
  for, in whatever shape it was assigned, and the assembled Jacobian is that of
  the assembled residual by the assembled unknowns.
- *Construction.* Models that a caller has got share nothing; what belongs to a
  model is in its own stores; a variable is linked to the one it stands for.

## 2. Modules

| Module | Models | Kind |
|---|---|---|
| `WorkScheduler` | the two schedulers: `load`, the choice of a device, room, completion | operators and one variable |
| `DispatchCalls` | what both modes of the dispatcher have: the caller and the members that a call works with | constants and variables, extends `WorkScheduler` |
| `WorkDispatcher` | `run_async`, the pool threads, construction and destruction, `ModelDriver`'s functors | state machine, extends `DispatchCalls` |
| `SyncDispatcher` | `run_sync` | state machine, extends `DispatchCalls` |
| `BatchDispatch` | what `run` promises | abstract specification |
| `Newton` | the three solvers: one iteration is several actions | state machine, used by `ImplicitUpdate` |
| `ImplicitUpdate` | `ImplicitUpdate::set_value` around a solve | state machine, extends `Newton` |
| `ImplicitMap` | what an implicit update promises | abstract specification |
| `TransientDriver` | `run` with `solve` and its parts, and the LDI driver's predictor | state machine |
| `ChunkedUpdate` | `ValueMapLoader`, `SliceGenerator`, `valuemap_cat_reduce` around an evaluation | state machine |
| `DependencyResolver` | `build_graph` and `resolve` | state machine |
| `ComposedModel` | construction, links, evaluation, chain rule of `ComposedModel` | state machine, extends `DependencyResolver` |
| `ModelEvaluation` | the `value`/`dvalue` family and `forward_maybe_jit` of one `Model`, with its caches, and the calls a solver makes | state machine |
| `AssemblyFormat` | `to_assembly`, `from_assembly`, `broadcast_intmd_dims` | operators |
| `Assembly` | `Derivative`, the layout of `LabeledAxis`, the vector and matrix assemblers, and what `Model` and `ImplicitUpdate` do with them | state machine, extends `AssemblyFormat` |
| `ModelConstruction` | `Factory`, hosts, parameters, `register_model`, construction and links of nested models | state machine |
| `MC...` | constants of the runs | instances |
| `...Proofs` | theorems | proofs |

### Dispatch

The main thread's place is `pc`; each device has one pool thread with a place in
`thread`.  A critical section of `_qmutex` or of the scheduler's mutex is one
action, a stretch that touches only the thread's own data is one action, and a
wait is two: one that tests the condition and falls asleep, and the notification
that wakes it up (`NotifyThreads`, `NotifyMain`).  The two accesses that the code
does not synchronise are split.  `GrowBegin`/`GrowEnd` is `_results.resize`, and
a `StoreBegin`/`StoreEnd` of a pool thread that falls between them is lost, the
outcome of writing to a buffer that has been copied already; `InsertBegin`/
`InsertEnd` is the insertion into `_models`, and either of two that overlap may be
lost.  `reserved` is the capacity of the vector, which `clear()` keeps: growing
within it does not move the buffer.  A batch is a number; what is computed for it
is abstracted away, except that it may throw, as `next` of a generator may
(`WorkMayThrow`).  After a call that threw in the main thread the caller may call again:
`work` and `finished` then keep the tasks of the earlier call that are still in flight, `first`
is how many there were (so the tasks of this call are `Own`), `begin` is the number of its first
batch, and a task stores at its `slot`, the index it was given.  The caller and the members that both modes use are declared in
`DispatchCalls`.

`BatchDispatch` is what the caller sees: batches are done at most once, and the
call returns after all of them.  Both `WorkDispatcher` and `SyncDispatcher`
implement it.  A call numbers its batches from its own `begin`, and what an earlier
call left in flight is none of its own.

### Nonlinear solves

A state is a point of a finite set with a residual norm, which may be NaN; a
batch has one point per element.  `guess` is the system's input variables, `x`
the solver's iterate, `R` and `J` the points at which the residual and the
Jacobian at hand were evaluated.  This is all the code has to keep in step.  A
Newton direction may lead anywhere: the model chooses the trial point freely, so
every sequence of iterates of a real system, and more, is in it.  What the code
decides is what it does with the trial: convergence by element, line search by
element with its cutting of the factor, acceptance and radius by element.
`ImplicitUpdate` adds the flag, the outputs and the implicit function theorem.
`method` is the update rule of the solver and `grad` a residual with an AD graph,
where `final_update` takes one more step; both are chosen at the start and stay,
so that one run covers the four rules.  The scaling of the system and the numbers themselves are
left out.

### Transient driver

Values are symbols that say where they come from: `<<"model", n, k, run>>` is the
output `n` of step `k` in a run, `<<"force", f, k>>` a prescribed value.  The maps
`_in`, `_result_in` and `_result_out` are functions from variables to symbols, so
a stale entry shows.  A setup says which variables the model takes and gives,
which forces are driven, the initial conditions, the predictor, the
postprocessor and the variables that the LDI predictor warms up.  A step may
throw at every call that evaluates something, and the driver may be run again.

### Chunking

A tensor is a shape and an entry per index that names where it came from.
Broadcasting is that of libtorch (external); the loader's size rule, the slicing, the
sizes the reduction collects, its expansion and its concatenation are translated from
the code.  The model that is evaluated
maps entries to entries by the inputs each output reads.

### Composition

`DependencyResolver` chooses the graph at the start and then runs the search one
call at a time: `stack` is the recursion of `resolve(node)`.  Wherever the code
walks a `std::set` of pointers the model may take any element.  `ComposedModel`
continues with the graph that resolved: it declares inputs and outputs, then
evaluates submodel after submodel through the links.  Submodels are quadratic
functions with integer coefficients, which have first and second derivatives of
their own that depend on the inputs.  An evaluation is asked for derivatives of any
orders (`asked`).  `ForwardSubmodel` is a submodel's own forward: it stores its values
and its derivatives at the inputs it finds (`outputs`, `slopes`, `bends`), with first ones
when only second ones are asked for, and clears what is not asked for; the chain rule reads
what is stored, and counts what is not as zero.  The output variables of the composed model
are references, which its own forward does not clear: `derivs` and `derivs2` keep what an
earlier evaluation put there until the chain rule replaces it, and the properties speak of
what has been asked for.  `TotalDerivatives` and
`TotalSecondDerivatives` are the walks of `VariableBase`, back from the outputs;
the reference `Jets` differentiates forward along the order of evaluation.

### Model evaluation

One model object is called again and again: what a call passes (`given`), what it
asks for (`request`), then `op`, the evaluation at hand, which a solver repeats
with guesses of its own within one call.  A value is a stamp that says which
call, guess and parameter it comes from, so that whatever is read from an earlier
evaluation shows.  `intmd` are the intermediate sizes the variables have cached,
`layout` the axis that is set up once, `sparsity` the derivatives found at the
first evaluation by solving flag, and `traced` the traced graphs by the key the
code looks them up with, each with what was baked into it.  `kind` says how the
model has its derivatives: its own, by automatic differentiation, or from
submodels.  `Throw` leaves inputs and outputs in place, as the code does.

### Axes and assemblers

A tensor is a list of sizes and an entry per index, and an entry is the set of
assigned tensors with the index that it adds up.  `deriv` is what a `Derivative`
holds, `cached` its assembly format; `terms` records what has been assigned, in
which form, from which the reference `Entry` says what each entry should be.  The
forms are those `operator=` tells apart by sizes: all dimensions, or only the
independent ones with the dependent ones in front or behind.  Shapes come in
cases (`Cases`) with independent, broadcast (size one) and dependent dimensions.
`PassStack` is the way through a traced function, `Assemble`, `SetDerivatives` and
`SetGuess` the uses in `Model` and `ImplicitUpdate`.  `SetDerivatives` is the implicit
function theorem: the Jacobian is split by subaxes, its columns by the unknowns are solved
for the columns of each other subaxis at once, and the blocks are the derivatives of the
update (`solved`), whose outputs are the unknowns.  `LuSolve` is symbolic: the matrix is
taken as regular, and an entry of a solution is named by its row and its right-hand side.  `AssemblyAssumption` says
that inputs have different names, none of them empty, and that no dimension is empty.

### Construction

A constructor asks the factory for more objects before it ends, so `stack` holds the
constructors that have begun, each with the models it has left to register and the
parameters it has left to declare; `got` is the object that `get_object` hands to
the constructor, or to the caller at the end.  `GetModel`, `RegisterModel` and
`DeclareParameter` begin a call, `ModelRegistered`, `ParameterProvided` and
`ReturnModel` go on with what it has returned, and `Construct` is the rest of the
constructor with the insertion into the cache.  A setup then links the pairs of
variables in `links`, one a step, in the order of the recursive
`link_output_variables` and `link_input_variables`.  A step may end in `Throw`, which
destroys the objects of the stack and keeps what is in the cache, the store and the
references.  What the recursive functions of a model return does not change after
its constructor, so an object has it in fields (`named`, `outLinks`, `inLinks`).
A constructor of a composed model sorts its submodels by a resolution, any of those
that the order of pointers may give (`Resolutions`), and looks each of them up by its
name (`Sorted`), so the order of its links is left open.  Objects are numbered in the order of
their allocation and lie at an address, either a new one or that of an object which has been
destroyed, as the allocator likes (`Addresses`); a host is known by its address.  Input
files have leaf models whose parameters are numbers or provided by another
model, composed models, and models around one other model (`Normality`,
`ImplicitUpdate`), whose inputs they take over.  `store` is the host's parameter
store, `refs` the reference of each variable.

## 3. Runs

Every run with `CHECK_DEADLOCK FALSE` models a call that returns and is not
repeated; in the others the end is a stuttering action of its own and any other
state without a step is a deadlock.

| Run | Shows |
|---|---|
| `dispatch` | two devices of different batch size, capacity and priority, two runs, the second also after a throw with work in flight, work and a generator that throw: the dispatch properties, the inductive invariant, calls and a destructor that end, and the refinement of `BatchDispatch` |
| `dispatch_sync` | synchronous mode with work that throws: results in order, calls that end, the refinement of `BatchDispatch` |
| `implicit` | the four update rules with and without AD, NaN residuals: the inductive invariant, what is published, and the refinement of `ImplicitMap` |
| `transient` | over three thousand setups, two runs of four steps |
| `chunked` | all pairs of shapes of up to two dynamic dimensions, all cuts |
| `compose` | all graphs of three nodes over two items with all priorities, and compositions with an input that are evaluated twice, at different values and for any orders of derivatives: the order of evaluation, cycles, values and derivatives |
| `evaluate` | two calls of a model with every request, with and without JIT, solves and throws in between, parameters that are set: values and derivatives are of this call (an input that is not passed after a throw is left out) |
| `assembly` | every order of assignments, conversions and assembling, for five cases of shapes: entries, Jacobian and guess are at their places, and the derivatives of the unknowns are solved from the right rows and columns |
| `construct` | ten input files, three requests and clearings, with memory of destroyed objects used again: separate models, linked inputs, and parameters in their host except for what a constructor that threw has left behind |

Three runs show a disagreement between the code and what is written about it,
each by a counterexample:

| Run | Disagreement |
|---|---|
| `results_race` | `WorkDispatcher.h:475` resizes `_results` while pool threads store into it |
| `models_race` | `ModelDriver.cxx:120` inserts into a map from several threads |
| `ad_second` | `Model.cxx:753` makes no graph for second derivatives when first ones are asked for too |

### Divergences without a run

The models follow the code in these places, too, where a comment or a document
says something else; no run is spent on them:

- `Newton.cxx:79`: the loop ends below `miters`, so `MAXITER` is reported after
  `miters - 1` updates, while the comment above says "3. i > miters (failure)"
  (`Direction` and `MaxIter`).
- `NewtonWithLineSearch.cxx:122`: the factor is cut once more after the last
  trial and used untried; the option speaks of "the scale factor in the last
  iteration" (`SearchExhausted`).
- `TransientDriver.cxx:329`: the extrapolation looks the time up in `_in`, which
  has it only if the model takes it; the tutorial says the predictors "are
  implemented for all transient drivers" (`PredictorThrow`).
- `LDISolidMechanicsDriver.cxx:158`: the warm-up value stays in `_in` for the
  later steps; the option says "for the very first time step" (`WarmStart`).
- `TransientDriver.cxx:258`: the inputs recorded for step 0 are the whole map, which a second
  run finds with old state and old forces of the run before it.  They are not inputs of
  an evaluation, and `RecordsTrajectory` speaks of the steps from the first on.
- `DependencyResolver.h:366`: a set of models that all feed one another has no end
  node, and the exception calls itself an internal error (phase `"missing"`).
- `StaticHybridScheduler.cxx:156`: `max_availability` is compared with and never
  raised, so the last available device of the list is chosen; the comment on the
  class says "the device with the highest availability will be chosen"
  (`Picks`).
- `ValueMapLoader.cxx:77`: each input is cut along its own first dynamic dimension,
  so inputs of different numbers of dynamic dimensions are cut along dimensions
  that broadcasting does not align; `scheduler.md:12` says that work is divided
  "along a single batch axis".  `ChunkedIsWhole` is stated for inputs that align.
- `Model.cxx:526`: `clear_input` is not reached when an evaluation throws, and the
  next call with fewer inputs finds the old values (`dirty`); the comment at
  `VariableStore.h:146` says "By default we initialize undefined input variables to
  zero before evaluating the model".
- `Variable.cxx:146`: on the traced path the output is reshaped with the
  intermediate sizes of the last assignment that was not traced (`RunTraced`).
- The input axis is set up at its first use and keeps the sizes of that call, also
  when later guesses have others (`layout`).
- `Derivative.cxx:138`: a tensor whose sizes are those of all dimensions is taken as
  full, also when it was meant to have the dependent dimensions of a square
  derivative in front (`Admissible` leaves this form out).
- `Assembler.cxx:214`: a row of a matrix without an entry throws before the first row
  with one and is zero afterwards; `model.md:186` says "Variable values not
  provided by the map are filled with zeros" (`NoneFound`).
- `ComposedModel.cxx:81`: a model that is listed and provides a parameter is the one
  object if it comes before the model that uses it, and two objects with the same
  output, which do not resolve, if it comes after.
- `ComposedModel.cxx:68`: two composed submodels with a common provider whose
  inputs come from different places throw at setup, while the comment promises
  each submodel "_independent_ output storage".
- `ComposedModel.cxx:124`: without automatic registration, two submodels with
  nonlinear parameters of one name throw.
- `Model.h:261`: "has already been registered" is never thrown, each registration
  makes an object of its own.
- `WorkDispatcher.h:462`: a call after one that threw clears `_results` while tasks of the
  earlier call may still be in flight, and they store by their indices into the results of
  the new call, which may reduce one of them (`StoreEnd` at a `slot`); the comment on the class
  says "Once all the work has been completed and results have been collected".
  `ResultsCollected` is false for this reason, too, and in `dispatch` nothing is said of what
  is stored, only of the work.
- `Factory.cxx:48`: an object is put into the cache when its constructor has ended, and stays
  there when the constructor of the model it was made for throws.  `options_compatible`
  compares hosts as addresses (`OptionSet.cxx:39`), so a later model at the address of the
  destroyed one is given that object, whose parameters are in a store that is gone; the
  comment at `ParameterStore.cxx:116` says "we want it to register its own parameters and
  buffers in the host of the caller".  `ParametersInHost` has this case as an exception of
  its own (`LeftOver`), and is false without it.
- `DependencyResolver.h:264`: priorities only drop edges, models without a path
  between them come in the order of their addresses; the option says "A model
  with higher priority will be evaluated first".

### Bounds

- *Dispatch*: two devices and up to two calls of `run` of two or five
  batches.  Two devices is where threads meet at the scheduler and at `_results`;
  a device with a queue of two tasks, both devices full, and a short last batch
  are within five batches; the second call starts from what the first leaves, which
  after a throw are tasks in any of their places.  A
  device with a batch size of zero throws from the loop at the place where a
  generator does (`ScheduleThrow`), and the generator may throw at every task.
  `MaxRuns` and `Totals` name the bounds.
- *Solves*: a batch of two (elements that stop at different iterations), three
  residual norms (converged, not converged, NaN), `MaxIts` of three, which is two
  updates, `MaxLineIts` of two, which is one trial that some elements stop at and
  others are cut back from, and one call (`MaxCalls`):
  every variable but the guess and the radius is set anew by a call, and the
  theorems hold for any number.  The relative test, `nR / nR0 < rtol`, is passed
  by the root alone in this run; the theorems hold for any norms.
- *Transient*: four steps are one more than the predictor reaches back; two runs
  so that one finds what another, broken off anywhere, has left.
- *Chunking*: batches of up to four in chunks of one to three: whole chunks, a
  short last one, and sizes that do not divide; a second dynamic dimension of one
  or two.
- *Resolver*: with three nodes and two items every way of sharing, ambiguity,
  self-consumption and a three-cycle.  The evaluation order is proved for any size.
- *Evaluation*: an unknown and a force, one intermediate shape besides the scalar,
  two calls of every request with up to two guesses each (the second guess is the
  first that finds the axis, the sparsity and the graph of another one) and one
  change of the parameter.  One number of dynamic dimensions: others only add
  entries to the traced graphs, whose keys hold the number.
- *Assembly*: two residuals, two unknowns, a force and an old force on a subaxis of its
  own; dimensions of one to four, with
  independent, broadcast and dependent ones among the cases, and two assignments
  in all (`MaxAssign`), to two derivatives or both to one, where the second adds up.
- *Construction*: each input file holds one way of sharing or failing, with up to
  three levels of composition; three requests are two models and what a third
  finds in the cache of both, or one that throws and two that find what it has left.  An
  address is a new one or any that is free.
- *Composition*: three submodels and four items (three provided and one input)
  hold a diamond and an input that reaches an output by a short and a long path.  Two
  evaluations (`MaxCalls`) are what the second may find of another one; the compositions of
  that kind are without priorities, which the graphs over two items have.  Models of one
  priority differ only by the coefficients of their functions, and one of the ways to name
  them is taken.

### Fairness

Liveness is checked for `WorkDispatcher` under weak fairness of the main thread
and of each pool thread: they are operating system threads that nothing in the
program suspends.  No fairness is assumed of one choice over another, nor that
work succeeds.  `SyncDispatcher` and `ImplicitUpdate` are sequential: weak
fairness of the steps of a call says that the thread is run, and calls themselves
are not fair, the caller may stop.

## 4. Theorems

All are of the form `Spec => []P` or a refinement, for every value of the constants
under the named assumptions of the modules: any number of devices and batches,
any batch of any points, any setups and number of steps, any graph.

- `WorkDispatcherProofs`: `Invariance` of `IInv`, from which follow `TypeOK`,
  `LoadAccounted`, `CapacityRespected` and `ReturnsComplete`.  These need to know
  more than they say: that the tasks cut the batches dispatched so far into
  consecutive spans (`Tiled`), that a queue holds pushed and unfinished tasks of
  its device in order (`QueueOrdered`), what the place of a thread says about its
  task (`CurrentTask`), and that the room `schedule_work` has found is still there
  when `dispatched_work` takes it in another critical section (`RoomKept`), since
  only the main thread takes room.  Tasks that an earlier call left in flight hold the batches
  before `begin` (`EarlierWork`), so that the load and the queues are accounted for over both
  calls, and what is returned is only about `Own`.
  On top of it: `NoLostWakeup`, since the test and the wait
  of each condition variable are one critical section, and whoever changes what is
  tested notifies before it does anything else; `DrainedAtJoin`, from `Draining`
  (what was pushed is in a queue, with a thread or finished, and a thread leaves
  only with an empty queue); and that the pool implements `BatchDispatch`, where
  finishing a task is the abstract step and nearly everything else stutters.
  Of synchronous mode: the results of `run_sync` are consecutive pieces
  (`Consecutive`), and what is left is what has not been cut off (`Progress`); from
  these `InOrder` and that it implements the same `BatchDispatch`.
- `ImplicitUpdateProofs`: `Invariance` of `IInv` and from it `SolutionInGuess`,
  `SystemAtIterate`, `FlagRestored`, `DerivativesAtOutput`,
  `TrustRegionKeepsNumbers`, and that the solve implements `ImplicitMap`.
  `SolverPlaces` says for each place of the solver which of `guess`, `x`, `R`, `J`
  agree there, the argument that the code's comments leave to the reader.
- `TransientDriverProofs`: `Invariance` of `IInv` and `InitialValueProblem`.
  `PastRecorded` (the steps that are over have their records) and `InitialKept`
  (what an earlier run has left at step 0 is what this one would put there) are
  what makes a second run independent of the first.
  Then `PredictorUsesSolutions`, as what the predictor reads
  is in `PastRecorded` and nothing touches the guess between it and the solve, and
  `RecordsTrajectory`, by which the inputs that are stored continue from the
  recorded step before (`Continues`) while its outputs are still those of the run.
  It says nothing of the inputs recorded for step 0.
- `ModelEvaluationProofs`: `ValuesOfArguments`, `DerivativesOfArguments`, and
  `SecondDerivativesOfArguments` for models without second derivatives by AD (for
  these it is false, see run `ad_second`).  The invariant `EInv` says that inputs are
  those of the call (`InputsOfCall`), that between calls only one that has thrown
  leaves any (`AtRest`), that a cached sparsity is the only one there can be
  (`SparsityFixed`), and that a graph agrees with the key it is kept under and lays
  its results out in that sparsity (`TracedAgrees`): this is why separate tables for
  the solving flag are needed.  The dimensions of a guess need that finite sets of
  numbers have a maximum, proved from the library's well-founded order on subsets.
- `ComposedModelProofs`, of the resolver: `Invariance` of `IInv`, then `ResolutionIsOrder`, and
  `CyclesThrow` in both directions.  A graph that resolves is acyclic: the first node
  of a would-be cycle in the resolution has its providers before it.  The
  cyclic-dependency exception is thrown for cyclic graphs: all of the stack is a set
  in which everything is provided for.  And so is the other one, of a node missing
  from the resolution: the search starts from all end nodes (`EndsVisited`), so every
  node that it has not come to feeds another such node, and the least set of them with
  this property is a cycle (`FeedersCycle`; this is where the models must be finitely
  many, `IsFiniteSet(Nodes)`, as the nodes of a `std::set` are).
- `ComposedModelProofs`, of the model: `CTypeOK` and `ChainRuleIsExact`, for every set of submodels,
  every acyclic wiring of them with any number of paths between two variables, every
  order that the resolver finds and any number of evaluations.  The invariant `CInv`
  says that the submodels evaluated so far in this call are up to date with what their
  inputs are linked to *now*, values and stored derivatives of the orders asked for
  (`UpToDate`, `StoredAsAsked`); an evaluation overwrites the outputs of one
  submodel, and that keeps the others up to date because the resolution puts
  providers first (`IInv` of the resolver), although the variables still hold the
  values of the call before.  The rest is about the two ways of differentiating: the
  code walks back from each output (`TotalDerivatives`, `TotalSecondDerivatives`),
  the reference `Jets` goes forward along the order.  Both are shown to be defined and
  to solve the same equations (`JetsFix`, `ChainedExact`, `ChainedTwiceExact`), which
  have one solution by `OrderInduction`: a set of nodes that has every node whose
  providers it has is all of them when the graph is acyclic.  Sums over inputs need
  lemmas on the library's fold (`SumSplit`, `SumAdd`, `SumScale`, `SumNonzero`,
  `SumPairs`), proved by induction over the subsets of a finite set.  The items must be
  finitely many, `IsFiniteSet(Items)`.
- `ChunkedUpdateProofs`: `ChunkedIsWhole` and `AlignedReduces`, for inputs of any
  dynamic shapes, any outputs and chunks of any sizes.  The invariant `ChInv` says that
  the results so far are those of chunks that follow each other from the start of the
  batch to the offset (`Evaluated`, by increasing cuts `f`).  The reduction is then a
  matter of one output at a time.  Either it reads no batched input, and its part is
  expanded to whatever size the other outputs of the chunk have; or only inputs of
  batch size one, and every chunk has the same part; or one that is cut, and its part
  of a chunk is the part of the whole update that starts at the chunk's offset
  (`OutputKinds`, from `CutUpdate`: slicing commutes with broadcasting when the dynamic
  dimensions line up).  `CatConstant`, `CatOne` and `CatCut` put the parts together:
  the place of a part in the concatenation is the offset of its chunk (`CutStart`).
  `ChunkAccepted` is why aligned chunks are accepted exactly when the batch is.
- `AssemblyProofs`: `GuessInColumns`, for any variables with different names, any tree of
  subaxes and any shapes without an empty dimension (`AssemblyAssumption`).  The
  invariant `GInv` says that an unknown's guess is its part of the solution; the rest is
  about the operators.  `AxisEnumerates`: the recursion over subaxes visits each variable
  once, because the variables it descends with agree in their names so far
  (`Siblings`).  `SlotsAre`: each entry of an assembled vector is at the offset of one
  variable plus a position in it.  `PositionIndexAt` and `IndexAtPosition`: row major
  positions and indices are inverse to each other, whatever the number of dimensions.
  `ToAssemblyOne` and `FromAssemblyOne` are the conversions of one variable in these
  terms.  Folds and the library's `FlattenSeq` are reached by the values they go
  through (`FoldSteps`, `FlattenIs`), shown to exist by a well-founded induction up to a
  number, `UpTo`.
- `ModelConstructionProofs`: `ModelsSeparate`, `ParametersAreInHost` and
  `InputsAreLinked`, for any input file (`FilesAssumption`: a model has finitely many
  variables), any depth of composition, and any order of requests, exceptions and
  clearings of the cache.  The inductive invariant `CInv` says that
  - an object and its host agree: the host of every object on the stack is the one at
    the bottom, and a child that is complete has the host of its parent
    (`ObjectsInv`, `ChildrenInv`, `StackInv`, `GotInv`).  So everything that is reached
    from a model lies in that model's host (`ModelsInv`), and two models share nothing;
  - what is in the cache is complete (`CacheInv`), also after an exception;
  - a slot of a store is named by the object and the parameter below its host, and has
    the value of the parameter that its name says (`StoreInv`), so two submodels of one
    name, which share it, have the same value;
  - references end in a root and stay inside the model (`RefsInv`), and every pair that
    has been linked has one root (`LinksInv`).  `Refer` gives a variable a reference
    when it has none, or one with the same root.  A variable that had a
    reference keeps its root, so linking a pair unlinks none that came before; this
    is what `ReferAgain`, the mutant, breaks.
  Every step but the end of a constructor, a setup and the return of a model leaves
  complete objects, references and models as they are (`Quiet`), and `QuietKeeps`
  carries most of the invariant over it once.  Addresses are
  those of `Addresses`: two living objects never share one, a destroyed one's may be used
  again.  The cache compares hosts by address, so what the invariant can say of an object in a
  model is that its host lies, or has lain, where the model does.  `ParametersInHost` is
  stated with that exception (`LeftOver`): a part either has its parameters in the model's
  store, or its host was destroyed by an exception at the address where the model is now.  That
  the exception happens is the divergence at `Factory.cxx:48`.

Not proved, and checked by TLC only:

- liveness (`CallsEnd`, `RunEnds`, `CallEnds`) and with it anything about ENABLED;
- what the runs `results_race`, `models_race` and `ad_second` refute;
- `DerivativeEntries`, `JacobianOfResidual` and `ImplicitDerivatives` (`Assembly`): they take the permutations
  of dimensions of several variables at once, of `broadcast_intmd_dims` and of the
  conversions, entry by entry.  What their proofs need about positions, indices and axes is
  there.

## 5. Plan

Written, in this order, the most important behaviour first: dispatch, nonlinear
solves, transient driver, chunking, composition, model evaluation, axes and
assemblers, construction.  Next:

1. Proofs: `JacobianOfResidual`, `DerivativeEntries` and `ImplicitDerivatives`, as said above.
2. Scaling in `NonlinearSystem`, kept across calls of other batch shapes.
3. `ModelEvaluation` within `ComposedModel`: caches of every submodel at once.
4. Parameters named by a variable, for which the factory is given an input model
   that is not in the file.

## 6. Not modelled

The tensor library and the material models are numerical functions without state
of their own; the models here take an evaluation as a function.  Parsing, option
conversion and output are text processing.  `SimpleMPIScheduler` differs from
`SimpleScheduler` by an MPI split in its setup.  Event tracing writes a file
under a lock and is off by default.  The Python bindings wrap the same calls.
