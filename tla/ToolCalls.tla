------------------------------- MODULE ToolCalls -------------------------------
(***************************************************************************)
(* The tool call aggregator: what a completion knows of the tool calls     *)
(* whose fragments have come, and what it passes on of a fragment.         *)
(*                                                                         *)
(*   src/src/lib/tool-call-aggregator.js                                   *)
(*                                                                         *)
(* An aggregator is a record of the calls in the order of their creation   *)
(* and of the names a fragment may know a call by: an id, the id of a      *)
(* backend item, or an index.  Texts are sequences of tokens.  A call's    *)
(* type and name travel with its id.                                       *)
(***************************************************************************)
EXTENDS Naturals, Sequences, FiniteSets, SequencesExt

CONSTANT Names  \* the ids and item ids a backend uses

ASSUME ToolCallsAssumption == IsFiniteSet(Names)

\* What a call is known by: an id of the backend, an id defaultIdFactory makes
\* for the k-th call, or an index (plus one).
Id(n) == <<"id", n, 0>>
Synthetic(k) == <<"tool", "", k>>
Index(k) == <<"index", "", k>>
NoName == <<"none", "", 0>>

NoArgs == <<"none">>   \* a fragment without arguments

\* A fragment, as collectFragments finds it in a payload: an entry of tool_calls
\* (an id or none, an index), or an item event (the item's id).  It replaces the
\* arguments when it is of a message or an arguments.done event.
Fragment(backend, id, index, args, replace) ==
  [backend |-> backend, id |-> id, index |-> index, args |-> args, replace |-> replace]

EmptyAggregator ==
  [calls |-> <<>>, alias |-> [a \in {} |-> 0]]

\* createCallState.
NewCall(id) == [id |-> id, args |-> <<>>, last |-> NoArgs, told |-> <<>>,
                toldId |-> FALSE, emitted |-> FALSE]

Alias(agg, name) == IF name \in DOMAIN agg.alias THEN agg.alias[name] ELSE 0
IndexAlias(agg, index) == Alias(agg, Index(index))

\* resolveKey: the number of the fragment's call, which is a new one when it is
\* not in use.  A known id decides, an unknown one opens a call, then the index
\* decides; without any of them it is the only call there is.
Resolve(agg, f) ==
  LET known == {Alias(agg, f.backend), Alias(agg, f.id)} \ {0}
      new == Len(agg.calls) + 1
  IN CASE Alias(agg, f.backend) # 0 -> Alias(agg, f.backend)
       [] Alias(agg, f.backend) = 0 /\ Alias(agg, f.id) # 0 -> Alias(agg, f.id)
       [] known = {} /\ (f.backend # NoName \/ f.id # NoName) -> new
       [] f.backend = NoName /\ f.id = NoName /\ f.index # 0 ->
            IF IndexAlias(agg, f.index) # 0 THEN IndexAlias(agg, f.index) ELSE new
       [] OTHER -> IF Len(agg.calls) = 1 THEN 1 ELSE new

\* appendArgument: a fragment that extends the text, or that the text begins
\* with, stands for all of it; one that repeats the last fragment is dropped.
AppendArgument(call, f) ==
  LET whole == f.args # <<>> /\ call.args # <<>>
               /\ (IsPrefix(call.args, f.args) \/ IsPrefix(f.args, call.args))
  IN CASE f.args = NoArgs \/ (~f.replace /\ f.args = call.last) -> call
       [] f.args # NoArgs /\ (f.replace \/ (whole /\ f.args # call.last)) ->
            [call EXCEPT !.args = f.args, !.last = f.args]
       [] OTHER -> [call EXCEPT !.args = @ \o f.args, !.last = f.args]

\* buildDelta: the id once, the arguments so far when they have changed.
Delta(call, ordinal) ==
  [index |-> ordinal,
   id |-> IF call.toldId THEN NoName ELSE call.id,
   args |-> IF call.args # <<>> /\ call.args # call.told THEN call.args ELSE NoArgs]

\* applyFragmentToCall, in the order of its steps: the call, known or new, which
\* takes an id it did not have;
OldCall(agg, f, k) ==
  IF k \in DOMAIN agg.calls THEN agg.calls[k]
  ELSE NewCall(IF f.id # NoName THEN f.id ELSE Synthetic(k))

Named(call, f) ==
  IF f.id \in {NoName, call.id} THEN call
  ELSE [call EXCEPT !.id = f.id, !.toldId = FALSE]

\* what it is known by from now on;
NamesOf(f) ==
  ({f.backend, f.id} \ {NoName}) \cup {i \in {Index(f.index)} : f.index # 0}

Known(alias, f, k) ==
  [a \in DOMAIN alias \cup NamesOf(f) |-> IF a \in NamesOf(f) THEN k ELSE alias[a]]

\* the delta, which a message brings only for a call of which nothing was passed on;
Tells(call, delta, message) ==
  (~message \/ ~call.emitted) /\ (delta.id # NoName \/ delta.args # NoArgs)

Kept(call, delta) ==
  [call EXCEPT !.toldId = TRUE, !.emitted = TRUE,
               !.told = IF delta.args # NoArgs THEN delta.args ELSE @]

\* and the aggregator, with the deltas it has passed on.
PassOn(r, f, k, call, delta, tells) ==
  [agg |-> [calls |-> [i \in 1 .. (IF k > Len(r.agg.calls) THEN k ELSE Len(r.agg.calls)) |->
                         IF i # k THEN r.agg.calls[i]
                         ELSE IF tells THEN Kept(call, delta) ELSE call],
            alias |-> Known(r.agg.alias, f, k)],
   deltas |-> IF tells THEN Append(r.deltas, delta) ELSE r.deltas]

WithCall(r, f, message, k, call) ==
  PassOn(r, f, k, call, Delta(call, k), Tells(call, Delta(call, k), message))

WithKey(r, f, message, k) ==
  WithCall(r, f, message, k, AppendArgument(Named(OldCall(r.agg, f, k), f), f))

Apply(r, f, message) == WithKey(r, f, message, Resolve(r.agg, f))

\* ingestInternal, for a list of fragments.
Ingest(agg, fragments, message) ==
  LET after[i \in 0 .. Len(fragments)] ==
        IF i = 0 THEN [agg |-> agg, deltas |-> <<>>]
        ELSE Apply(after[i - 1], fragments[i], message)
  IN after[Len(fragments)]

\* What the deltas of one aggregator are to the next one.
AsFragments(deltas) ==
  [i \in DOMAIN deltas |->
     Fragment(NoName, deltas[i].id, deltas[i].index, deltas[i].args, FALSE)]
=============================================================================
