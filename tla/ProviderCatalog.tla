---------------------------- MODULE ProviderCatalog ----------------------------
(***************************************************************************)
(* The catalog of providers and models that a release of the application    *)
(* brings (ai/AiProviderCatalog.cpp): whether it loads and what it says;    *)
(* and the connections that can be made from it (ai/AiModelConnection.cpp). *)
(* A release is the two documents it brings.  Numbers are small, a text is  *)
(* there or not.                                                           *)
(***************************************************************************)
EXTENDS Integers, SequencesExt

-----------------------------------------------------------------------------
(* The catalog.  A parameter is a number between bounds or one of its        *)
(* options, and may be for the models with a trait.                          *)
NoTrait == "any"

(* No model both samples and reasons.                                      *)
TraitSet(traits) == ~({"sampling", "reasoning"} \subseteq traits)
BoundedNumber(p) == p.least <= p.most /\ p.default \in p.least .. p.most
ParameterOptions(p) == p.options # {} /\ p.default \in p.options
Parameter(p) == IF p.numeric THEN BoundedNumber(p) ELSE ParameterOptions(p)

\* Mutant of ParameterSet: two parameters of one name for the same trait.
ParameterSetOfAny(ps) == Len(ps) > 0 /\ \A i \in DOMAIN ps : Parameter(ps[i])

ParameterSet(ps) ==
    /\ Len(ps) > 0
    /\ \A i \in DOMAIN ps : Parameter(ps[i])
    /\ \A i, j \in DOMAIN ps : i < j /\ ps[i].id = ps[j].id
         => ps[i].trait # ps[j].trait /\ NoTrait \notin {ps[i].trait, ps[j].trait}

CommandLine(d) == d.prompt /\ d.model

(* A provider is reached over a wire or is a program of the command line.    *)
Provider(d) ==
    /\ d.paid => d.variable
    /\ TraitSet(d.traits) /\ IsInjective(d.preferred)
    /\ IF d.wire THEN d.address /\ d.command = {} /\ "functions" \in d.traits /\ ParameterSet(d.parameters)
       ELSE ~d.paid /\ ~d.hosted /\ ~d.address /\ \E c \in d.command : CommandLine(c)

ImportedModels(ms, wire) ==
    \A i \in DOMAIN ms :
       /\ ms[i].window > 0 /\ ms[i].answer > 0
       /\ TraitSet(ms[i].traits) /\ (wire => "functions" \in ms[i].traits)

(* The models a provider opens with come first, in its order.               *)
Named(ms, id) == SelectSeq(ms, LAMBDA m : m.id = id)[1]
Merged(d, ms) ==
    [k \in DOMAIN d.preferred |-> Named(ms, d.preferred[k])]
      \o SelectSeq(ms, LAMBDA m : m.id \notin ToSet(d.preferred))

ModelsOf(r, d) == IF d.id \in DOMAIN r.models THEN r.models[d.id] ELSE <<>>

(* mergeImportedModels: models are of providers that are there, which open   *)
(* with models that are.                                                    *)
MergesModels(r) ==
    /\ DOMAIN r.models \subseteq {r.providers[i].id : i \in DOMAIN r.providers}
    /\ \A d \in ToSet(r.providers) : d.id \in DOMAIN r.models =>
         /\ ImportedModels(r.models[d.id], d.wire)
         /\ ToSet(d.preferred) \subseteq {m.id : m \in ToSet(r.models[d.id])}

(* loadAiCatalog: whether a release has a catalog, and which.               *)
Loads(r) ==
    /\ r.providers # <<>>
    /\ \A i \in DOMAIN r.providers : Provider(r.providers[i])
    /\ \A i, j \in DOMAIN r.providers : r.providers[i].id = r.providers[j].id => i = j
    /\ MergesModels(r)

Catalog(r) == {[d EXCEPT !.parameters = IF d.wire THEN @ ELSE <<>>] @@
               [offers |-> Merged(d, ModelsOf(r, d))] : d \in ToSet(r.providers)}

FindProvider(r, id) == {p \in Catalog(r) : p.id = id}
FindModel(p, id) == {m \in ToSet(p.offers) : m.id = id}

(* A model outside the catalog has the traits its provider says.            *)
ModelTraits(p, id) == IF FindModel(p, id) = {} THEN p.traits ELSE (CHOOSE m \in FindModel(p, id) : TRUE).traits

\* Mutant of Bounded: the default is left above what the model answers.
BoundedAbove(q, m) == [q EXCEPT !.most = m.answer]

Bounded(q, m) ==
    [q EXCEPT !.most = m.answer,
              !.default = IF @ = 0 THEN 0 ELSE IF @ < m.answer THEN @ ELSE m.answer]

ApplicableParameters(p, id) ==
    LET of == SelectSeq(p.parameters, LAMBDA q : q.trait = NoTrait \/ q.trait \in ModelTraits(p, id)) IN
    [k \in DOMAIN of |->
       IF of[k].budget /\ FindModel(p, id) # {} THEN Bounded(of[k], CHOOSE m \in FindModel(p, id) : TRUE)
       ELSE of[k]]

DefaultParameters(p, id) ==
    LET of == ToSet(ApplicableParameters(p, id)) IN
    [n \in {q.id : q \in of} |-> (CHOOSE q \in of : q.id = n).default]

OutputBudgetParameter(p, id) == SelectSeq(ApplicableParameters(p, id), LAMBDA q : q.budget)

-----------------------------------------------------------------------------
(* What can be connected to: validateConnection and what it asks.             *)
ValidateParameter(q, value) == value \in (IF q.numeric THEN q.least .. q.most ELSE q.options)

ValidateParameters(p, id, values) ==
    LET of == ToSet(ApplicableParameters(p, id)) IN
    /\ DOMAIN values = {q.id : q \in of}
    /\ \A q \in of : ValidateParameter(q, values[q.id])

(* All a model can answer: nobody knows it of an unknown model, and where    *)
(* it is the whole window it leaves the conversation none.                   *)
AsksForTheMaximum(p, c) ==
    LET budget == OutputBudgetParameter(p, c.model) IN
    budget # <<>> /\ budget[1].whole /\ c.values[budget[1].id] = 0

ValidateConnection(r, c) ==
    \E p \in FindProvider(r, c.provider) :
       /\ c.model # ""
       /\ p.paid => c.secret
       /\ c.address = p.hosted
       /\ ValidateParameters(p, c.model, c.values)
       /\ AsksForTheMaximum(p, c) => \E m \in FindModel(p, c.model) : m.answer < m.window

DeclaredConnection(p, id) ==
    [provider |-> p.id, model |-> id, secret |-> p.variable, address |-> p.hosted,
     values |-> DefaultParameters(p, id)]

(* What the answer of a connection may take, and a connection with another   *)
(* budget, for a summary or a server that borrows it.                        *)
OutputBudget(p, c) ==
    LET budget == OutputBudgetParameter(p, c.model)
        declared == IF budget = <<>> THEN 0 ELSE c.values[budget[1].id] IN
    IF declared > 0 THEN declared
    ELSE IF FindModel(p, c.model) = {} THEN 0 ELSE (CHOOSE m \in FindModel(p, c.model) : TRUE).answer

Clamped(n, q) == IF n < q.least THEN q.least ELSE IF n > q.most THEN q.most ELSE n

SetOutputBudget(p, c, tokens) ==
    LET budget == OutputBudgetParameter(p, c.model) IN
    IF budget = <<>> THEN c
    ELSE [c EXCEPT !.values[budget[1].id] = Clamped(tokens, budget[1])]

-----------------------------------------------------------------------------
(* Every model of a catalog that loads, and one that is not in it, can be used  *)
(* as its provider declares it, has one value for each parameter, and stays      *)
(* valid with a budget that is borrowed, which is no more than it answers.        *)
ModelsCanBeUsed(r) ==
    Loads(r) => \A p \in Catalog(r) : \A id \in {"?"} \cup {m.id : m \in ToSet(p.offers)} :
       LET c == DeclaredConnection(p, id)
           of == ApplicableParameters(p, id) IN
       /\ ValidateConnection(r, c)
       /\ \A i, j \in DOMAIN of : of[i].id = of[j].id => i = j
       /\ \A tokens \in 1..4 :
            /\ ValidateConnection(r, SetOutputBudget(p, c, tokens))
            /\ \A m \in FindModel(p, id) : OutputBudget(p, SetOutputBudget(p, c, tokens)) <= m.answer
=============================================================================
