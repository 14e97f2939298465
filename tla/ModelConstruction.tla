-------------------------- MODULE ModelConstruction --------------------------
(***************************************************************************)
(* From an input file to a model: the objects a factory makes and shares,  *)
(* the host each of them belongs to, the parameters they declare in its    *)
(* store, and the references that link their variables.                    *)
(*                                                                         *)
(* A constructor asks the factory for other objects before it ends.  The   *)
(* stack holds the constructors that have begun, each with what it has     *)
(* left to register and to declare.  An exception ends all of them and     *)
(* leaves what has been done so far.                                       *)
(***************************************************************************)
EXTENDS Integers, SequencesExt, FiniteSetsExt

CONSTANTS
  Files,     \* input files: what is said of each model, by its name
  Value,     \* a parameter that is given as a number or a tensor
  MaxGets    \* bounds the requests

ASSUME FilesAssumption ==
  \A f \in Files : \A n \in DOMAIN f : IsFiniteSet(f[n].in) /\ IsFiniteSet(f[n].out)

VARIABLES
  file,      \* _input_file
  objects,   \* every object that has been allocated
  cache,     \* _objects, in the order of insertion
  store,     \* _param_values of the hosts: <<host, name>> to who declared it
  refs,      \* _ref of variables: from <<object, "in" or "out", name>>
  models,    \* models that the caller has got
  gets,      \* how many requests there were
  stack,     \* constructors that have begun: the object, models and parameters left
  got,       \* the object that get_object has made or found, or None
  links      \* pairs of variables that its setup has left to link

vars == <<file, objects, cache, store, refs, models, gets, stack, got, links>>

None == 0

\* No host is given for a model that is asked for by the caller.
NoHost == 0

Constructing == stack # <<>> /\ got = None

Top == stack[Len(stack)]

\* A map with an entry that is new or replaces another
Put(f, x, y) == [z \in DOMAIN f \cup {x} |-> IF z = x THEN y ELSE f[z]]

-----------------------------------------------------------------------------
(* Objects and hosts *)

\* Where a new object may lie: nowhere an object lay before, or where one was that has
\* been destroyed
Addresses ==
  {Len(objects) + 1}
    \cup ({objects[o].address : o \in DOMAIN objects}
            \ {objects[o].address : o \in {o \in DOMAIN objects : objects[o].alive}})

\* The last four fields are what the recursive functions of the model return, which is
\* the same from the end of its constructor on: named_nonlinear_parameters, and what
\* link_output_variables and link_input_variables link, in their order.
New(name, host, address) ==
  [name |-> name, kind |-> file[name].kind, address |-> address, host |-> host,
   alive |-> TRUE, in |-> IF file[name].kind = "leaf" THEN file[name].in ELSE {}, out |-> {},
   submodels |-> <<>>, parameters |-> <<>>, nonlinear |-> {},
   named |-> {}, outLinks |-> <<>>, inLinks |-> <<>>]

\* host(): the object itself unless it has been given one
Host(o) == IF objects[o].host = NoHost THEN o ELSE objects[o].host

\* Mutation of Compatible: the host is not compared.
CompatibleAny(object, host) == TRUE

\* options_compatible with the additional option _host.  The option is a pointer, so it is
\* the address that is compared, also of a host that has been destroyed.
Compatible(object, host) ==
  object.host # NoHost /\ objects[object.host].address = objects[host].address

\* Objects whose constructors have begun are destroyed.
Throw ==
  /\ objects' = [o \in DOMAIN objects |->
                   IF \E i \in DOMAIN stack : stack[i].object = o
                   THEN [objects[o] EXCEPT !.alive = FALSE] ELSE objects[o]]
  /\ stack' = <<>>
  /\ got' = None
  /\ links' = <<>>
  /\ UNCHANGED <<cache, store, refs>>

\* create_object up to the body of the constructor
Create(name, host) ==
  /\ \E address \in Addresses : objects' = Append(objects, New(name, host, address))
  /\ stack' = Append(stack, [object |-> Len(objects) + 1, models |-> file[name].models,
                             parameters |-> file[name].parameters])
  /\ UNCHANGED <<cache, store, refs, got, links>>

\* get_object with force_create
CreateNamed(name, host) == IF name \in DOMAIN file THEN Create(name, host) ELSE Throw

-----------------------------------------------------------------------------
(* Parameters *)

\* Mutation of ParameterName: the name of the object is left out.
ParameterNameOnly(o, p) == <<p>>

\* A parameter in the store of its host
ParameterName(o, p) == IF Host(o) = o THEN <<p>> ELSE <<objects[o].name, p>>

\* The declaration is done with.
Declared == [stack EXCEPT ![Len(stack)].parameters = Tail(@)]

\* declare_parameter of a value: a parameter that exists is shared
DeclareValue(o, p) ==
  LET slot == <<Host(o), ParameterName(o, p)>>
  IN  /\ store' = IF slot \in DOMAIN store THEN store ELSE Put(store, slot, <<objects[o].name, p>>)
      /\ objects' = [objects EXCEPT ![o].parameters = Put(@, p, slot)]
      /\ stack' = Declared
      /\ UNCHANGED <<cache, refs, got, links>>

\* resolve_tensor_name: the model is looked for in the cache before it is made
ResolveName(o, name) ==
  LET found == {c \in DOMAIN cache : /\ objects[cache[c]].name = name
                                     /\ Compatible(objects[cache[c]], Host(o))}
  IN  IF found = {} THEN CreateNamed(name, Host(o))
      ELSE got' = cache[Min(found)] /\ UNCHANGED <<objects, cache, store, refs, stack, links>>

\* named_nonlinear_parameters of a provider or submodel
Prefixed(k) ==
  {[name |-> <<objects[k].name>> \o p.name, provider |-> p.provider, var |-> p.var] : p \in objects[k].named}

ProvidersOf(parameters) == {p.provider : p \in parameters}

-----------------------------------------------------------------------------
(* Dependencies of the submodels of a composed model *)

Providers(subs, k, v) == {j \in subs \ {k} : v \in objects[j].out}

Inbound(subs, k, v) == Providers(subs, k, v) = {}

Outbound(subs, k, v) == \A j \in subs \ {k} : v \notin objects[j].in

\* What the composed model consumes and provides
OpenInputs(subs) ==
  {v \in UNION {objects[k].in : k \in subs} : \E k \in subs : v \in objects[k].in /\ Inbound(subs, k, v)}

OpenOutputs(subs) ==
  {v \in UNION {objects[k].out : k \in subs} : \E k \in subs : v \in objects[k].out /\ Outbound(subs, k, v)}

Cyclic(subs) ==
  LET edge(j, k) == \E v \in objects[k].in : j \in Providers(subs, k, v)
  IN  \E S \in (SUBSET subs) \ {{}} : \A k \in S : \E j \in S : edge(j, k)

\* A variable with two providers, a cycle, or two outputs of one name
Unresolvable(subs) ==
  \/ \E k \in subs : \E v \in objects[k].in : Cardinality(Providers(subs, k, v)) > 1
  \/ Cyclic(subs)
  \/ \E j \in subs : \E k \in subs \ {j} : \E v \in objects[j].out \cap objects[k].out :
       Outbound(subs, j, v) /\ Outbound(subs, k, v)

\* The models that provide parameters become submodels.
WithProviders(subs) ==
  subs \o SetToSeq((UNION {ProvidersOf(objects[k].named) : k \in Range(subs)}) \ Range(subs))

\* What the dependency resolver finds: the order of pointers decides which of the orders
\* in which each submodel is behind its providers
Resolutions(subs) ==
  {s \in SetToSeqs(subs) : \A i, j \in DOMAIN s : \A v \in objects[s[j]].in :
                              s[i] \in Providers(subs, s[j], v) => i < j}

\* The submodels are sorted by a resolution s and looked up by name, so that a second
\* object of a name is replaced by the first that was registered.
Sorted(subs, s) ==
  [k \in DOMAIN s |->
     subs[Min({j \in DOMAIN subs : objects[subs[j]].name = objects[s[k]].name})]]

\* Parameters of the submodels that are left to be provided from outside
Inherited(k, in) == {p \in objects[k].named : p.var \in in}

\* The constructor of a composed model cannot register them under names of their own.
NameClash(subs, in) ==
  \E i, j \in DOMAIN subs : \E p \in Inherited(subs[i], in), q \in Inherited(subs[j], in) :
    <<i, p>> # <<j, q>> /\ p.name = q.name

-----------------------------------------------------------------------------
(* Links between variables *)

\* ref() of a variable, by the number of references that are followed
Following(r, x) ==
  LET after[n \in Nat] ==
        IF n = 0 THEN x
        ELSE LET y == after[n - 1] IN IF y \in DOMAIN r THEN r[y] ELSE y
  IN  after

Referred(x) == Following(refs, x)[Cardinality(DOMAIN refs)]

Linked(x, y) ==
  /\ refs' = Put(refs, x, Referred(y))
  /\ links' = Tail(links)
  /\ UNCHANGED <<objects, cache, store, stack, got>>

\* Mutation of Refer: a variable may be given another reference.
ReferAgain(x, y) == IF y = x \/ Referred(y) = x THEN Throw ELSE Linked(x, y)

\* Variable::ref; an object whose setup throws stays in the cache
Refer(x, y) ==
  IF \/ x \in DOMAIN refs /\ Referred(x) # Referred(y)
     \/ y = x \/ Referred(y) = x
  THEN Throw ELSE Linked(x, y)

\* What input v of submodel k stands for.  The links of one submodel bind variables of their
\* own, so their order among each other does not matter.
Source(o, kind, subs, k, v) ==
  IF kind = "composed" /\ ~Inbound(subs, k, v)
  THEN <<CHOOSE j \in Providers(subs, k, v) : TRUE, "out", v>> ELSE <<o, "in", v>>

\* link_input_variables with the submodel
InputLinks(o, kind, subs, k) ==
  {<<<<k, "in", v>>, Source(o, kind, subs, k, v)>> : v \in objects[k].in}

\* link_output_variables with the submodel
OutputLinks(o, kind, subs, k) ==
  {<<<<o, "out", v>>, <<k, "out", v>>>> : v \in {v \in objects[k].out : kind = "composed" /\ Outbound(subs, k, v)}}

\* The outputs of an implicit update are its unknowns.
ImplicitLinks(o, kind, out) ==
  {<<<<o, "out", v>>, <<o, "in", v>>>> : v \in {v \in out : kind = "implicit"}}

\* The object at the end of its constructor
Completed(o, subs, in, out, nonlinear, named) ==
  LET object == objects[o]
      inputs(k) == SetToSeq(InputLinks(o, object.kind, Range(subs), k)) \o objects[k].inLinks
      outputs(k) == SetToSeq(OutputLinks(o, object.kind, Range(subs), k)) \o objects[k].outLinks
  IN  [object EXCEPT
         !.submodels = subs, !.in = in, !.out = out, !.nonlinear = nonlinear, !.named = named,
         !.outLinks = FlattenSeq([k \in DOMAIN subs |-> outputs(subs[k])])
                        \o SetToSeq(ImplicitLinks(o, object.kind, out)),
         !.inLinks = FlattenSeq([k \in DOMAIN subs |-> inputs(subs[k])])]

\* The object enters the cache, and its setup begins if it is its own host.
Complete(o, object) ==
  /\ objects' = [objects EXCEPT ![o] = object]
  /\ cache' = Append(cache, o)
  /\ stack' = Front(stack)
  /\ got' = o
  /\ links' = IF Host(o) = o THEN object.outLinks \o object.inLinks ELSE <<>>
  /\ UNCHANGED <<store, refs>>

-----------------------------------------------------------------------------
(* Actions *)

Init ==
  /\ file \in Files
  /\ objects = <<>> /\ cache = <<>> /\ store = <<>> /\ refs = <<>>
  /\ models = <<>>
  /\ gets = 0
  /\ stack = <<>> /\ got = None /\ links = <<>>

\* get_model
GetModel(name) ==
  /\ stack = <<>> /\ got = None /\ gets < MaxGets
  /\ Create(name, NoHost)
  /\ gets' = gets + 1
  /\ UNCHANGED <<file, models>>

\* register_model up to the new model
RegisterModel ==
  /\ Constructing /\ Top.models # <<>>
  /\ IF Head(Top.models) = objects[Top.object].name THEN Throw
     ELSE CreateNamed(Head(Top.models), Host(Top.object))
  /\ UNCHANGED <<file, models, gets>>

\* and from there; a composed model takes over its inputs later
ModelRegistered ==
  LET o == Top.object
      in == IF objects[o].kind = "composed" THEN {} ELSE objects[got].in
  IN  /\ stack # <<>> /\ got # None /\ Top.models # <<>>
      /\ IF objects[o].in \cap in # {} THEN Throw
         ELSE /\ objects' = [objects EXCEPT ![o].submodels = Append(@, got), ![o].in = @ \cup in]
              /\ stack' = [stack EXCEPT ![Len(stack)].models = Tail(@)]
              /\ got' = None
              /\ UNCHANGED <<cache, store, refs, links>>
      /\ UNCHANGED <<file, models, gets>>

\* declare_parameter
DeclareParameter ==
  LET p == Head(Top.parameters)
  IN  /\ Constructing /\ Top.models = <<>> /\ Top.parameters # <<>>
      /\ IF p[2] = Value THEN DeclareValue(Top.object, p[1]) ELSE ResolveName(Top.object, p[2])
      /\ UNCHANGED <<file, models, gets>>

\* resolve_tensor_name from the provider on
ParameterProvided ==
  LET o == Top.object
      name == <<Head(Top.parameters)[1]>>
      var == CHOOSE v \in objects[got].out : TRUE
  IN  /\ stack # <<>> /\ got # None /\ Top.models = <<>>
      /\ IF Cardinality(objects[got].out) # 1 \/ \E q \in objects[o].nonlinear : q.name = name
         THEN Throw
         ELSE /\ objects' = [objects EXCEPT ![o].in = @ \cup {var},
                               ![o].nonlinear = @ \cup {[name |-> name, provider |-> got, var |-> var]}]
              /\ stack' = Declared
              /\ got' = None
              /\ UNCHANGED <<cache, store, refs, links>>
      /\ UNCHANGED <<file, models, gets>>

\* The rest of the constructor of a composed model
Compose(o) ==
  LET given == objects[o].submodels
      all == IF file[objects[o].name].auto THEN WithProviders(given) ELSE given
      subs == Range(all)
      in == OpenInputs(subs)
      nonlinear == UNION {Inherited(k, in) : k \in Range(given)}
  IN  IF Unresolvable(subs) \/ NameClash(given, in) THEN Throw
      ELSE \E s \in Resolutions(subs) :
             Complete(o, Completed(o, Sorted(all, s), in, OpenOutputs(subs), nonlinear, nonlinear))

\* The rest of any other constructor
CompleteModel(o) ==
  LET own == objects[o].nonlinear
      subs == objects[o].submodels
  IN  Complete(o, Completed(o, subs, objects[o].in, file[objects[o].name].out, own,
                            own \cup UNION {Prefixed(k) : k \in ProvidersOf(own) \cup Range(subs)}))

\* create_object from there
Construct ==
  LET o == Top.object
  IN  /\ Constructing /\ Top.models = <<>> /\ Top.parameters = <<>>
      /\ IF objects[o].kind = "composed" THEN Compose(o) ELSE CompleteModel(o)
      /\ UNCHANGED <<file, models, gets>>

\* setup links the next pair of variables.
Setup ==
  /\ links # <<>>
  /\ Refer(Head(links)[1], Head(links)[2])
  /\ UNCHANGED <<file, models, gets>>

\* The request ends.
ReturnModel ==
  /\ stack = <<>> /\ got # None /\ links = <<>>
  /\ models' = Append(models, got)
  /\ got' = None
  /\ UNCHANGED <<file, objects, cache, store, refs, gets, stack, links>>

\* clear; the caller keeps the models it has got
Clear ==
  /\ stack = <<>> /\ got = None /\ cache # <<>>
  /\ cache' = <<>>
  /\ UNCHANGED <<file, objects, store, refs, models, gets, stack, got, links>>

Ended == stack = <<>> /\ got = None /\ gets = MaxGets /\ UNCHANGED vars

Next ==
  \/ \E name \in DOMAIN file : GetModel(name)
  \/ RegisterModel \/ ModelRegistered
  \/ DeclareParameter \/ ParameterProvided
  \/ Construct \/ Setup \/ ReturnModel
  \/ Clear \/ Ended

Spec == Init /\ [][Next]_vars

-----------------------------------------------------------------------------
(* Properties *)

\* Objects that are reached from one through the children of each, by their distance
Within(children, o) ==
  LET within[n \in Nat] ==
        IF n = 0 THEN {o}
        ELSE LET near == within[n - 1] IN near \cup UNION {children[k] : k \in near}
  IN  within

Closure(children, o) == Within(children, o)[Cardinality(DOMAIN children)]

\* The objects that a model uses: submodels and models that provide parameters
Reach(o) ==
  Closure([k \in DOMAIN objects |-> Range(objects[k].submodels) \cup ProvidersOf(objects[k].nonlinear)], o)

\* The objects it is made of, which are linked and evaluated: a provider only if it is
\* a submodel of a composed model
Parts(o) == Closure([k \in DOMAIN objects |-> Range(objects[k].submodels)], o)

\* Two models that a caller has got share no object: they can be evaluated by two
\* threads, and sent to two devices.
ModelsAreSeparate ==
  \A i, j \in DOMAIN models : i # j => Reach(models[i]) \cap Reach(models[j]) = {}

\* An object whose host has been destroyed: the constructor of the model that it was made
\* for threw, and the object stays in the cache.
LeftOver(o) == ~objects[Host(o)].alive

\* What set_parameter of a model reaches is what the objects it is made of use, and each
\* has the value the input file gives it.  Only what has been left behind by a model whose
\* constructor threw, and that lay where this one lies now, has its parameters elsewhere.
ParametersInHost ==
  \A i \in DOMAIN models : \A o \in Reach(models[i]) :
    LET parameters == objects[o].parameters
    IN  IF LeftOver(o) THEN objects[Host(o)].address = objects[models[i]].address
        ELSE \A p \in DOMAIN parameters :
               /\ parameters[p][1] = models[i]
               /\ parameters[p] \in DOMAIN store /\ store[parameters[p]] = <<objects[o].name, p>>

\* A variable of a model that is used in more than one place stands for the same
\* variable in all of them: every input is that of the model around it, or the output
\* of the submodel beside it that provides it, and comes from an object of the model.
InputsLinked ==
  \A i \in DOMAIN models : \A o \in Parts(models[i]) : \A k \in Range(objects[o].submodels) :
    \A v \in objects[k].in :
      LET beside == {j \in Range(objects[o].submodels) \ {k} : v \in objects[j].out}
          source == IF objects[o].kind = "composed" /\ beside # {}
                    THEN <<CHOOSE j \in beside : TRUE, "out", v>> ELSE <<o, "in", v>>
          owner == Referred(<<k, "in", v>>)
      IN  owner = Referred(source) /\ owner[1] \in Parts(models[i])

=============================================================================
