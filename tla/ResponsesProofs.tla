--------------------------- MODULE ResponsesProofs ---------------------------
(***************************************************************************)
(* Theorems about ResponsesStream, for any set of calls and any arguments: *)
(* the grammar of the events that reach the client, and, when no fragment  *)
(* of a call's arguments looks like what came before, that what it reads   *)
(* of them adds up.                                                        *)
(*                                                                         *)
(* An event waits in the adapter's chain, then in the queue, then it is on *)
(* the wire, so the invariant is about all three in a row; a call is known *)
(* to the chat handler's aggregator, to the adapter's and to its items, in *)
(* the same order and by the same name.                                    *)
(***************************************************************************)
EXTENDS ResponsesStream, Induction, SequenceTheorems, FiniteSetTheorems

USE ToolCallsAssumption, ResponsesAssumption

-----------------------------------------------------------------------------
(* Types.                                                                   *)

Args == Seq(Tokens)

Ids == {Id(n) : n \in Names}

\* What a call may be called, and what a fragment may know it by.
Ident == Ids \cup {Synthetic(k) : k \in Nat}
Called == Ident \cup {Index(k) : k \in Nat}

Call == [id : Ident, args : Args, last : Args \cup {NoArgs}, told : Args,
         toldId : BOOLEAN, emitted : BOOLEAN]

Frag == [backend : Ids \cup {NoName}, id : Ident \cup {NoName}, index : Nat,
         args : Args \cup {NoArgs}, replace : BOOLEAN]

Dlt == [index : Nat, id : Ident \cup {NoName}, args : Args \cup {NoArgs}]

Item == [id : Ident, last : Args]

Kinds == {"created", "text", "added", "args", "textDone", "argsDone", "itemDone", "completed",
          "done", "end", "error", "DONE"}

Ev == [kind : Kinds, id : Ident \cup {NoName}, args : Args]

-----------------------------------------------------------------------------
(* The aggregators and the items.                                           *)

\* The names of a sequence of calls or items.
IdsOf(s) == [i \in DOMAIN s |-> s[i].id]

\* Every call has been told, and every name stands for a call.
Formed(agg) ==
  /\ agg.calls \in Seq(Call)
  /\ DOMAIN agg.alias \subseteq Called
  /\ \A a \in DOMAIN agg.alias : agg.alias[a] \in DOMAIN agg.calls
  /\ \A k \in DOMAIN agg.calls : agg.calls[k].toldId /\ agg.calls[k].emitted

\* In the chat handler a call has the backend's id, by which it is known, or
\* one of its own.
Chatted(agg) ==
  /\ Formed(agg)
  /\ \A k \in Nat : Synthetic(k) \notin DOMAIN agg.alias
  /\ \A k \in DOMAIN agg.calls :
       \/ agg.calls[k].id = Synthetic(k)
       \/ agg.calls[k].id \in DOMAIN agg.alias /\ agg.alias[agg.calls[k].id] = k
          /\ agg.calls[k].id \in Ids

\* An id stands for the call that has it.
Faithful(agg) == \A a \in DOMAIN agg.alias \cap Ids : agg.calls[agg.alias[a]].id = a

\* In the adapter a call is known by its id and by its place.
Mirrors(agg, ids) ==
  /\ Formed(agg)
  /\ IdsOf(agg.calls) = ids
  /\ DOMAIN agg.alias = UNION {{ids[k], Index(k)} : k \in DOMAIN ids}
  /\ \A k \in DOMAIN ids : agg.alias[ids[k]] = k /\ agg.alias[Index(k)] = k

-----------------------------------------------------------------------------
(* What the client is told.                                                 *)

Typed(e) == e.kind \notin {"error", "DONE"}

\* One of the first n events.
Has(z, n, kind, id) == \E j \in 1 .. n : z[j].kind = kind /\ z[j].id = id

\* What may follow on the first n events; those that wait count.
May(z, n, e) ==
  /\ e.kind = "added" => ~Has(z, n, "added", e.id)
  /\ e.kind \in {"args", "argsDone", "itemDone"} =>
       Has(z, n, "added", e.id) /\ ~Has(z, n, "itemDone", e.id)
  /\ e.kind \in {"args", "argsDone"} => ~Has(z, n, "argsDone", e.id)
  /\ e.kind = "itemDone" => Has(z, n, "argsDone", e.id)
  /\ e.kind = "completed" => \A j \in 1 .. n :
       z[j].kind # "completed" /\ (z[j].kind = "added" => Has(z, n, "itemDone", z[j].id))
  /\ \A j \in 1 .. n : z[j].kind # "end" /\ (z[j].kind = "done" => e.kind = "end")
  /\ e.kind = "end" => \E j \in 1 .. n : z[j].kind = "done"

\* The grammar of the typed events.
Story(z) ==
  /\ z # <<>> /\ z[1].kind = "created"
  /\ \A i \in 1 .. Len(z) : May(z, i - 1, z[i])

\* Until the adapter has finished, the items that were added are those it has.
Telling(z, ids) ==
  /\ \A i \in DOMAIN z : z[i].kind \in {"created", "text", "added", "args", "error", "DONE"}
  /\ \A i \in DOMAIN z : z[i].kind = "added" => \E k \in DOMAIN ids : ids[k] = z[i].id
  /\ \A k \in DOMAIN ids : Has(z, Len(z), "added", ids[k])

Given == out.wire \o out.queue

ToldIds == IdsOf(chat.agg.calls)

\* The event the chain waits for is the only typed one in the queue; an error and
\* [DONE] come after it, and at most one event after them.
QueueOK(wire, queue, flying, waiting, ending, responded) ==
  LET given == wire \o queue
      n == Len(given)
  IN /\ \A i \in 1 .. Len(queue) : Typed(queue[i]) =>
          /\ flying /\ waiting \in {"none", "error", "DONE"}
          /\ \A j \in 1 .. Len(queue) : Typed(queue[j]) => i = j
     /\ flying => given # <<>>
     /\ \A i \in 1 .. n : ~Typed(given[i]) => responded
     /\ \A i \in 1 .. n : given[i].kind = "DONE" =>
          \/ i = n
          \/ i = n - 1 /\ Typed(given[n]) /\ (flying \/ ending)
     /\ waiting \in {"none", "error", "DONE"} \/ flying
     /\ \A i \in 1 .. Len(wire) : wire[i].kind = "DONE" => ending \/ waiting = "DONE"
     /\ ending \/ waiting = "DONE" => \E i \in 1 .. Len(wire) : wire[i].kind = "DONE"

QueueInv ==
  QueueOK(out.wire, out.queue, out.flying, out.waiting, out.ending, chat.responded)

OutOK ==
  /\ out.chain \in Seq(Ev) /\ out.queue \in Seq(Ev) /\ out.wire \in Seq(Ev)
  /\ out.flying \in BOOLEAN /\ out.ending \in BOOLEAN /\ out.ended \in BOOLEAN
  /\ out.waiting \in Kinds \cup {"none"}
  /\ \A i \in DOMAIN out.chain : Typed(out.chain[i])
  /\ \A i \in DOMAIN Given : Given[i].kind # "end"

Open ==
  /\ QueueInv
  /\ Story(Given \o out.chain)
  /\ ~adapter.finished => Telling(Given \o out.chain, ToldIds)

\* A response that has ended.
Over ==
  /\ Story(out.wire)
  /\ \A i \in DOMAIN out.wire : out.wire[i].kind = "DONE" => i >= Len(out.wire) - 1
  /\ out.wire[Len(out.wire)].kind = "done" \/ \E i \in DOMAIN out.wire : out.wire[i].kind = "DONE"

CallsInv ==
  /\ Chatted(chat.agg)
  /\ backend.style = "chunks" => Faithful(chat.agg)
  /\ Mirrors(adapter.agg, ToldIds)
  /\ adapter.items \in Seq(Item) /\ IdsOf(adapter.items) = ToldIds

BackendOK ==
  /\ backend \in [style : {"chunks", "items"}, truth : [Names -> Truths], sent : [Names -> Nat],
                  child : {"running", "exiting", "closed"}]
  /\ \A n \in Names : backend.sent[n] \in 0 .. Len(backend.truth[n])

StateOK ==
  /\ BackendOK
  /\ DOMAIN chat = {"agg", "texts", "any", "drop", "responded", "finalized"}
  /\ DOMAIN adapter = {"agg", "items", "finished"}
  /\ DOMAIN out = {"chain", "flying", "queue", "waiting", "ending", "ended", "conn", "wire"}
  /\ chat.finalized = adapter.finished
  /\ chat.finalized => chat.responded
  /\ chat.responded => backend.child # "running"
  /\ out.ended => chat.responded
  /\ chat.finalized \in BOOLEAN /\ chat.responded \in BOOLEAN

Inv == /\ StateOK /\ CallsInv /\ OutOK
       /\ IF out.ended THEN Over ELSE Open
-----------------------------------------------------------------------------
(* Names.                                                                   *)

LEMMA NamesDiffer ==
  /\ NoName \notin Called
  /\ \A n, m \in Names : Id(n) = Id(m) => n = m
  /\ \A n \in Names, k \in Nat : Id(n) # Synthetic(k) /\ Id(n) # Index(k)
  /\ \A j, k \in Nat : Synthetic(j) # Index(k)
  /\ \A j, k \in Nat : (Synthetic(j) = Synthetic(k) => j = k) /\ (Index(j) = Index(k) => j = k)
<1>1. ASSUME NEW a \in Called PROVE a # NoName
  <2>1. ASSUME NEW n \in Names PROVE Id(n) # NoName
    BY DEF Id, NoName
  <2>2. ASSUME NEW k \in Nat PROVE Synthetic(k) # NoName /\ Index(k) # NoName
    BY DEF Synthetic, Index, NoName
  <2> QED BY <2>1, <2>2 DEF Called, Ident, Ids
<1> QED BY <1>1 DEF Id, Synthetic, Index

LEMMA Idents ==
  /\ Ids \subseteq Ident /\ Ident \subseteq Called
  /\ \A k \in Nat : Synthetic(k) \in Ident /\ Synthetic(k) \notin Ids /\ Index(k) \in Called /\ Index(k) \notin Ident
  /\ \A n \in Names : Id(n) \in Ids
BY NamesDiffer DEF Ids, Ident, Called

LEMMA ArgsAreNot == NoArgs \notin Args /\ <<>> \in Args
<1>1. ASSUME NoArgs \in Args PROVE FALSE
  <2>1. NoArgs[1] = "none" /\ 1 \in DOMAIN NoArgs
    BY DEF NoArgs
  <2>2. NoArgs[1] \in Tokens
    BY <1>1, <2>1, ElementOfSeq DEF Args
  <2> QED BY <2>1, <2>2
<1> QED BY <1>1 DEF Args

-----------------------------------------------------------------------------
(* One fragment.                                                            *)

LEMMA AppendArgumentIs ==
  ASSUME NEW call \in Call, NEW f \in Frag
  PROVE  /\ AppendArgument(call, f) \in Call
         /\ AppendArgument(call, f).id = call.id
         /\ AppendArgument(call, f).told = call.told
         /\ AppendArgument(call, f).toldId = call.toldId
         /\ AppendArgument(call, f).emitted = call.emitted
<1> DEFINE whole == f.args # <<>> /\ call.args # <<>>
                    /\ (IsPrefix(call.args, f.args) \/ IsPrefix(f.args, call.args))
<1>1. CASE f.args = NoArgs \/ (~f.replace /\ f.args = call.last)
  <2>1. AppendArgument(call, f) = call
    BY <1>1 DEF AppendArgument
  <2> QED BY <2>1
<1>2. CASE ~(f.args = NoArgs \/ (~f.replace /\ f.args = call.last)) /\ (f.replace \/ whole)
  <2>0. f.args # NoArgs /\ (f.replace \/ (whole /\ f.args # call.last))
    BY <1>2
  <2>1. AppendArgument(call, f) = [call EXCEPT !.args = f.args, !.last = f.args]
    BY <1>2, <2>0 DEF AppendArgument
  <2>2. f.args \in Args
    BY <1>2 DEF Frag
  <2> QED BY <2>1, <2>2 DEF Call
<1>3. CASE ~(f.args = NoArgs \/ (~f.replace /\ f.args = call.last)) /\ ~(f.replace \/ whole)
  <2>1. AppendArgument(call, f) = [call EXCEPT !.args = @ \o f.args, !.last = f.args]
    BY <1>3 DEF AppendArgument
  <2>2. f.args \in Args /\ call.args \in Args
    BY <1>3 DEF Frag, Call
  <2>3. call.args \o f.args \in Args
    BY <2>2 DEF Args
  <2> QED BY <2>1, <2>2, <2>3 DEF Call
<1> QED BY <1>1, <1>2, <1>3

\* The calls with the k-th one set.
Put(calls, k, call) ==
  [i \in 1 .. (IF k > Len(calls) THEN k ELSE Len(calls)) |-> IF i # k THEN calls[i] ELSE call]

HasPut(p, S, s, k, x) ==
  /\ p \in Seq(S)
  /\ Len(p) = IF k > Len(s) THEN k ELSE Len(s)
  /\ p[k] = x
  /\ \A i \in DOMAIN s : i \in DOMAIN p /\ (i # k => p[i] = s[i])

LEMMA PutOf ==
  ASSUME NEW S, NEW s \in Seq(S), NEW k \in 1 .. Len(s) + 1, NEW x \in S
  PROVE  HasPut(Put(s, k, x), S, s, k, x)
<1>1. Len(s) \in Nat /\ DOMAIN s = 1 .. Len(s) /\ \A i \in 1 .. Len(s) : s[i] \in S
  BY LenProperties, ElementOfSeq
<1> DEFINE n == IF k > Len(s) THEN k ELSE Len(s)
<1>2. n \in Nat /\ k \in 1 .. n
  BY <1>1
<1>3. \A i \in 1 .. n : i # k => i \in 1 .. Len(s)
  BY <1>1
<1>4. Put(s, k, x) = [i \in 1 .. n |-> IF i # k THEN s[i] ELSE x]
  BY DEF Put
<1>5. \A i \in 1 .. Len(s) : i \in 1 .. n
  BY <1>1
<1> HIDE DEF n
<1>6. \A i \in 1 .. n : (IF i # k THEN s[i] ELSE x) \in S
  BY <1>1, <1>3
<1>7. Put(s, k, x) \in [1 .. n -> S]
  BY <1>4, <1>6
<1>8. Put(s, k, x) \in Seq(S) /\ Len(Put(s, k, x)) = n
  BY <1>2, <1>7
<1> QED BY <1>1, <1>2, <1>4, <1>5, <1>8 DEF n, HasPut

LEMMA PutIs ==
  ASSUME NEW s \in Seq(Call), NEW k \in 1 .. Len(s) + 1, NEW x \in Call
  PROVE  /\ Put(s, k, x) \in Seq(Call)
         /\ Len(Put(s, k, x)) = IF k > Len(s) THEN k ELSE Len(s)
         /\ Put(s, k, x)[k] = x
         /\ \A i \in DOMAIN s : i \in DOMAIN Put(s, k, x) /\ (i # k => Put(s, k, x)[i] = s[i])
<1>1. HasPut(Put(s, k, x), Call, s, k, x)
  BY PutOf
<1> QED BY <1>1 DEF HasPut

LEMMA PutItemIs ==
  ASSUME NEW s \in Seq(Item), NEW k \in 1 .. Len(s) + 1, NEW x \in Item
  PROVE  /\ Put(s, k, x) \in Seq(Item)
         /\ Len(Put(s, k, x)) = IF k > Len(s) THEN k ELSE Len(s)
         /\ Put(s, k, x)[k] = x
         /\ \A i \in DOMAIN s : i \in DOMAIN Put(s, k, x) /\ (i # k => Put(s, k, x)[i] = s[i])
<1>1. HasPut(Put(s, k, x), Item, s, k, x)
  BY PutOf
<1> QED BY <1>1 DEF HasPut

\* A call before a fragment and behind it, with what is passed on.
Heard(agg, f, k) == AppendArgument(OldCall(agg, f, k), f)

LEMMA ApplyIs ==
  ASSUME NEW r, r.agg.calls \in Seq(Call), r.deltas \in Seq(Dlt), NEW f \in Frag, NEW message \in BOOLEAN,
         NEW k \in 1 .. Len(r.agg.calls) + 1, Resolve(r.agg, f) = k,
         OldCall(r.agg, f, k) \in Call, f.id \in {NoName, OldCall(r.agg, f, k).id}
  PROVE  LET s == Apply(r, f, message)
             call == Heard(r.agg, f, k)
             tells == Tells(call, Delta(call, k), message)
         IN /\ s.agg.alias = Known(r.agg.alias, f, k)
            /\ s.agg.calls = Put(r.agg.calls, k, IF tells THEN Kept(call, Delta(call, k)) ELSE call)
            /\ s.deltas = IF tells THEN Append(r.deltas, Delta(call, k)) ELSE r.deltas
            /\ call \in Call /\ Delta(call, k) \in Dlt /\ Kept(call, Delta(call, k)) \in Call
<1> DEFINE old == OldCall(r.agg, f, k)
           call == Heard(r.agg, f, k)
           d == Delta(call, k)
<1>1. Named(old, f) = old
  BY DEF Named
<1>2. Apply(r, f, message) = WithCall(r, f, message, k, call)
  BY <1>1 DEF Apply, WithKey, Heard
<1>3. call \in Call
  BY AppendArgumentIs DEF Heard
<1>4. d \in Dlt /\ d.args \in Args \cup {NoArgs}
  BY <1>3, LenProperties DEF Delta, Dlt, Call
<1>5. Kept(call, d) \in Call
  BY <1>3, <1>4 DEF Kept, Call
<1> HIDE DEF call, d
<1>6. WithCall(r, f, message, k, call) = PassOn(r, f, k, call, d, Tells(call, d, message))
  BY DEF WithCall, d
<1>7. /\ PassOn(r, f, k, call, d, Tells(call, d, message)).agg.alias = Known(r.agg.alias, f, k)
      /\ PassOn(r, f, k, call, d, Tells(call, d, message)).agg.calls
           = Put(r.agg.calls, k, IF Tells(call, d, message) THEN Kept(call, d) ELSE call)
      /\ PassOn(r, f, k, call, d, Tells(call, d, message)).deltas
           = IF Tells(call, d, message) THEN Append(r.deltas, d) ELSE r.deltas
  BY DEF PassOn, Put
<1> QED BY <1>2, <1>3, <1>4, <1>5, <1>6, <1>7 DEF call, d

\* A sequence of any elements with one more.
LEMMA Appended ==
  ASSUME NEW S, NEW s \in Seq(S), NEW e \in S
  PROVE  /\ Append(s, e) \in Seq(S) /\ Len(Append(s, e)) = Len(s) + 1 /\ Len(s) \in Nat
         /\ \A i \in 1 .. Len(s) : Append(s, e)[i] = s[i]
         /\ Append(s, e)[Len(s) + 1] = e
         /\ \A i \in 0 .. Len(s) : SubSeq(Append(s, e), 1, i) = SubSeq(s, 1, i)
BY LenProperties, AppendProperties

-----------------------------------------------------------------------------
(* The recursive functions have the values they say they have.              *)

\* ingestInternal goes from fragment to fragment.
IngestsBy(g, agg, fragments, message, n) ==
  g = [i \in 0 .. n |-> IF i = 0 THEN [agg |-> agg, deltas |-> <<>>] ELSE Apply(g[i - 1], fragments[i], message)]

IngestRun(after, agg, fragments, message) ==
  /\ after[0] = [agg |-> agg, deltas |-> <<>>]
  /\ \A i \in 1 .. Len(fragments) : after[i] = Apply(after[i - 1], fragments[i], message)
  /\ Ingest(agg, fragments, message) = after[Len(fragments)]

LEMMA IngestSteps ==
  ASSUME NEW agg, NEW fragments, NEW message, Len(fragments) \in Nat
  PROVE  \E after : IngestRun(after, agg, fragments, message)
<1> DEFINE n == Len(fragments)
           S == {m \in Nat : \E g : IngestsBy(g, agg, fragments, message, m)}
<1>1. 0 \in S
  <2> DEFINE g == [i \in 0 .. 0 |-> [agg |-> agg, deltas |-> <<>>]]
  <2>1. IngestsBy(g, agg, fragments, message, 0)
    BY DEF IngestsBy
  <2> QED BY <2>1
<1>2. ASSUME NEW m \in Nat, m \in S PROVE m + 1 \in S
  <2>1. PICK g : IngestsBy(g, agg, fragments, message, m)
    BY <1>2
  <2> DEFINE h == [i \in 0 .. m + 1 |-> IF i <= m THEN g[i] ELSE Apply(g[m], fragments[m + 1], message)]
  <2>2. \A i \in 0 .. m : g[i] = IF i = 0 THEN [agg |-> agg, deltas |-> <<>>] ELSE Apply(g[i - 1], fragments[i], message)
    BY <2>1 DEF IngestsBy
  <2>3. (\A i \in 0 .. m : h[i] = g[i]) /\ h[m + 1] = Apply(g[m], fragments[m + 1], message)
    OBVIOUS
  <2>4. h = [i \in 0 .. m + 1 |-> h[i]]
    OBVIOUS
  <2> HIDE DEF h
  <2>5. ASSUME NEW i \in 0 .. m + 1
        PROVE h[i] = IF i = 0 THEN [agg |-> agg, deltas |-> <<>>] ELSE Apply(h[i - 1], fragments[i], message)
    <3>1. CASE i = 0
      BY <2>2, <2>3, <3>1
    <3>2. CASE i \in 1 .. m
      <4>1. i \in 0 .. m /\ i - 1 \in 0 .. m /\ i # 0
        BY <3>2
      <4> QED BY <2>2, <2>3, <4>1
    <3>3. CASE i = m + 1
      <4>1. m \in 0 .. m /\ i # 0 /\ i - 1 = m
        BY <3>3
      <4> QED BY <2>3, <3>3, <4>1
    <3> QED BY <3>1, <3>2, <3>3
  <2>6. [i \in 0 .. m + 1 |-> h[i]] = [i \in 0 .. m + 1 |-> IF i = 0 THEN [agg |-> agg, deltas |-> <<>>] ELSE Apply(h[i - 1], fragments[i], message)]
    BY <2>5
  <2>7. IngestsBy(h, agg, fragments, message, m + 1)
    BY <2>4, <2>6 DEF IngestsBy
  <2> QED BY <2>7
<1> HIDE DEF S
<1>3. \E g : IngestsBy(g, agg, fragments, message, n)
  BY <1>1, <1>2, SetInduction DEF S
<1> DEFINE after == CHOOSE g : IngestsBy(g, agg, fragments, message, n)
<1>4. IngestsBy(after, agg, fragments, message, n)
  BY <1>3
<1>5. Ingest(agg, fragments, message) = after[n]
  BY DEF Ingest, IngestsBy
<1> HIDE DEF after
<1>6. \A i \in 0 .. n : after[i] = IF i = 0 THEN [agg |-> agg, deltas |-> <<>>] ELSE Apply(after[i - 1], fragments[i], message)
  BY <1>4 DEF IngestsBy
<1>7. after[0] = [agg |-> agg, deltas |-> <<>>]
  BY <1>6
<1>8. ASSUME NEW i \in 1 .. n PROVE after[i] = Apply(after[i - 1], fragments[i], message)
  <2>1. i \in 0 .. n /\ i # 0
    OBVIOUS
  <2> HIDE DEF n
  <2> QED BY <1>6, <2>1
<1> QED BY <1>5, <1>7, <1>8 DEF IngestRun

\* emitToolCallDeltas goes from delta to delta.
EmitsBy(g, items, deltas, n) ==
  g = [i \in 0 .. n |-> IF i = 0 THEN [items |-> items, events |-> <<>>] ELSE EmitDelta(g[i - 1], deltas[i])]

EmitRun(after, items, deltas) ==
  /\ after[0] = [items |-> items, events |-> <<>>]
  /\ \A i \in 1 .. Len(deltas) : after[i] = EmitDelta(after[i - 1], deltas[i])
  /\ EmitDeltas(items, deltas) = after[Len(deltas)]

LEMMA EmitSteps ==
  ASSUME NEW items, NEW deltas, Len(deltas) \in Nat
  PROVE  \E after : EmitRun(after, items, deltas)
<1> DEFINE n == Len(deltas)
           S == {m \in Nat : \E g : EmitsBy(g, items, deltas, m)}
<1>1. 0 \in S
  <2> DEFINE g == [i \in 0 .. 0 |-> [items |-> items, events |-> <<>>]]
  <2>1. EmitsBy(g, items, deltas, 0)
    BY DEF EmitsBy
  <2> QED BY <2>1
<1>2. ASSUME NEW m \in Nat, m \in S PROVE m + 1 \in S
  <2>1. PICK g : EmitsBy(g, items, deltas, m)
    BY <1>2
  <2> DEFINE h == [i \in 0 .. m + 1 |-> IF i <= m THEN g[i] ELSE EmitDelta(g[m], deltas[m + 1])]
  <2>2. \A i \in 0 .. m : g[i] = IF i = 0 THEN [items |-> items, events |-> <<>>] ELSE EmitDelta(g[i - 1], deltas[i])
    BY <2>1 DEF EmitsBy
  <2>3. (\A i \in 0 .. m : h[i] = g[i]) /\ h[m + 1] = EmitDelta(g[m], deltas[m + 1])
    OBVIOUS
  <2>4. h = [i \in 0 .. m + 1 |-> h[i]]
    OBVIOUS
  <2> HIDE DEF h
  <2>5. ASSUME NEW i \in 0 .. m + 1
        PROVE h[i] = IF i = 0 THEN [items |-> items, events |-> <<>>] ELSE EmitDelta(h[i - 1], deltas[i])
    <3>1. CASE i = 0
      BY <2>2, <2>3, <3>1
    <3>2. CASE i \in 1 .. m
      <4>1. i \in 0 .. m /\ i - 1 \in 0 .. m /\ i # 0
        BY <3>2
      <4> QED BY <2>2, <2>3, <4>1
    <3>3. CASE i = m + 1
      <4>1. m \in 0 .. m /\ i # 0 /\ i - 1 = m
        BY <3>3
      <4> QED BY <2>3, <3>3, <4>1
    <3> QED BY <3>1, <3>2, <3>3
  <2>6. [i \in 0 .. m + 1 |-> h[i]] = [i \in 0 .. m + 1 |-> IF i = 0 THEN [items |-> items, events |-> <<>>] ELSE EmitDelta(h[i - 1], deltas[i])]
    BY <2>5
  <2>7. EmitsBy(h, items, deltas, m + 1)
    BY <2>4, <2>6 DEF EmitsBy
  <2> QED BY <2>7
<1> HIDE DEF S
<1>3. \E g : EmitsBy(g, items, deltas, n)
  BY <1>1, <1>2, SetInduction DEF S
<1> DEFINE after == CHOOSE g : EmitsBy(g, items, deltas, n)
<1>4. EmitsBy(after, items, deltas, n)
  BY <1>3
<1>5. EmitDeltas(items, deltas) = after[n]
  BY DEF EmitDeltas, EmitsBy
<1> HIDE DEF after
<1>6. \A i \in 0 .. n : after[i] = IF i = 0 THEN [items |-> items, events |-> <<>>] ELSE EmitDelta(after[i - 1], deltas[i])
  BY <1>4 DEF EmitsBy
<1>7. after[0] = [items |-> items, events |-> <<>>]
  BY <1>6
<1>8. ASSUME NEW i \in 1 .. n PROVE after[i] = EmitDelta(after[i - 1], deltas[i])
  <2>1. i \in 0 .. n /\ i # 0
    OBVIOUS
  <2> HIDE DEF n
  <2> QED BY <1>6, <2>1
<1> QED BY <1>5, <1>7, <1>8 DEF EmitRun

\* finalizeToolCalls goes from call to call.
FinalsBy(g, n) ==
  g = [i \in 0 .. n |-> IF i = 0 THEN <<>> ELSE g[i - 1] \o CallEvents(i)]

FinalRun(after) ==
  /\ after[0] = <<>>
  /\ \A i \in 1 .. Len(adapter.agg.calls) : after[i] = after[i - 1] \o CallEvents(i)
  /\ FinalEvents = after[Len(adapter.agg.calls)]

LEMMA FinalSteps ==
  ASSUME Len(adapter.agg.calls) \in Nat
  PROVE  \E after : FinalRun(after)
<1> DEFINE n == Len(adapter.agg.calls)
           S == {m \in Nat : \E g : FinalsBy(g, m)}
<1>1. 0 \in S
  <2> DEFINE g == [i \in 0 .. 0 |-> <<>>]
  <2>1. FinalsBy(g, 0)
    BY DEF FinalsBy
  <2> QED BY <2>1
<1>2. ASSUME NEW m \in Nat, m \in S PROVE m + 1 \in S
  <2>1. PICK g : FinalsBy(g, m)
    BY <1>2
  <2> DEFINE h == [i \in 0 .. m + 1 |-> IF i <= m THEN g[i] ELSE g[m] \o CallEvents(m + 1)]
  <2>2. \A i \in 0 .. m : g[i] = IF i = 0 THEN <<>> ELSE g[i - 1] \o CallEvents(i)
    BY <2>1 DEF FinalsBy
  <2>3. (\A i \in 0 .. m : h[i] = g[i]) /\ h[m + 1] = g[m] \o CallEvents(m + 1)
    OBVIOUS
  <2>4. h = [i \in 0 .. m + 1 |-> h[i]]
    OBVIOUS
  <2> HIDE DEF h
  <2>5. ASSUME NEW i \in 0 .. m + 1
        PROVE h[i] = IF i = 0 THEN <<>> ELSE h[i - 1] \o CallEvents(i)
    <3>1. CASE i = 0
      BY <2>2, <2>3, <3>1
    <3>2. CASE i \in 1 .. m
      <4>1. i \in 0 .. m /\ i - 1 \in 0 .. m /\ i # 0
        BY <3>2
      <4> QED BY <2>2, <2>3, <4>1
    <3>3. CASE i = m + 1
      <4>1. m \in 0 .. m /\ i # 0 /\ i - 1 = m
        BY <3>3
      <4> QED BY <2>3, <3>3, <4>1
    <3> QED BY <3>1, <3>2, <3>3
  <2>6. [i \in 0 .. m + 1 |-> h[i]] = [i \in 0 .. m + 1 |-> IF i = 0 THEN <<>> ELSE h[i - 1] \o CallEvents(i)]
    BY <2>5
  <2>7. FinalsBy(h, m + 1)
    BY <2>4, <2>6 DEF FinalsBy
  <2> QED BY <2>7
<1> HIDE DEF S
<1>3. \E g : FinalsBy(g, n)
  BY <1>1, <1>2, SetInduction DEF S
<1> DEFINE after == CHOOSE g : FinalsBy(g, n)
<1>4. FinalsBy(after, n)
  BY <1>3
<1>5. FinalEvents = after[n]
  BY DEF FinalEvents, FinalsBy
<1> HIDE DEF after
<1>6. \A i \in 0 .. n : after[i] = IF i = 0 THEN <<>> ELSE after[i - 1] \o CallEvents(i)
  BY <1>4 DEF FinalsBy
<1>7. after[0] = <<>>
  BY <1>6
<1>8. ASSUME NEW i \in 1 .. n PROVE after[i] = after[i - 1] \o CallEvents(i)
  <2>1. i \in 0 .. n /\ i # 0
    OBVIOUS
  <2> HIDE DEF n
  <2> QED BY <1>6, <2>1
<1> QED BY <1>5, <1>7, <1>8 DEF FinalRun
-----------------------------------------------------------------------------
(* The chat handler's aggregator.                                           *)

\* The fragments of a backend: entries of tool_calls or item events.
Fitting(style, f) ==
  IF style = "chunks" THEN f.backend = NoName /\ f.id \in Ids \cup {NoName}
                      ELSE f.id = NoName /\ f.backend \in Ids

LEMMA FormedIs ==
  ASSUME NEW agg, Formed(agg)
  PROVE  /\ Len(agg.calls) \in Nat /\ DOMAIN agg.calls = 1 .. Len(agg.calls)
         /\ \A k \in DOMAIN agg.calls : agg.calls[k] \in Call
         /\ NoName \notin DOMAIN agg.alias /\ Index(0) \in Called
         /\ \A name : Alias(agg, name) # 0 => name \in DOMAIN agg.alias
         /\ \A name \in DOMAIN agg.alias : Alias(agg, name) = agg.alias[name] /\ Alias(agg, name) # 0
         /\ \A name : Alias(agg, name) \in 0 .. Len(agg.calls)
<1>1. /\ Len(agg.calls) \in Nat /\ DOMAIN agg.calls = 1 .. Len(agg.calls)
      /\ \A k \in DOMAIN agg.calls : agg.calls[k] \in Call
  BY LenProperties, ElementOfSeq DEF Formed
<1>2. NoName \notin DOMAIN agg.alias
  BY NamesDiffer DEF Formed
<1>3. \A name \in DOMAIN agg.alias : agg.alias[name] \in 1 .. Len(agg.calls)
  BY <1>1 DEF Formed
<1> QED BY <1>1, <1>2, <1>3, Idents DEF Alias

\* resolveKey, for the fragments there are.
LEMMA ResolveIs ==
  ASSUME NEW agg, Formed(agg), NEW f \in Frag, f.backend = NoName \/ f.id = NoName
  PROVE  /\ Resolve(agg, f) \in 1 .. Len(agg.calls) + 1
         /\ f.backend = NoName /\ f.id # NoName =>
              Resolve(agg, f) = IF f.id \in DOMAIN agg.alias THEN agg.alias[f.id] ELSE Len(agg.calls) + 1
         /\ f.backend # NoName =>
              Resolve(agg, f) = IF f.backend \in DOMAIN agg.alias THEN agg.alias[f.backend]
                                ELSE Len(agg.calls) + 1
         /\ f.backend = NoName /\ f.id = NoName /\ f.index # 0 =>
              Resolve(agg, f) = IF Index(f.index) \in DOMAIN agg.alias THEN agg.alias[Index(f.index)]
                                ELSE Len(agg.calls) + 1
<1> DEFINE b == Alias(agg, f.backend)
           i == Alias(agg, f.id)
           x == Alias(agg, Index(f.index))
           n == Len(agg.calls)
           known == {b, i} \ {0}
<1>1. b \in 0 .. n /\ i \in 0 .. n /\ x \in 0 .. n /\ n \in Nat
  BY FormedIs
<1>2. (f.backend = NoName => b = 0) /\ (f.id = NoName => i = 0)
  BY FormedIs
<1>3. Resolve(agg, f) =
        CASE b # 0 -> b
          [] b = 0 /\ i # 0 -> i
          [] known = {} /\ (f.backend # NoName \/ f.id # NoName) -> n + 1
          [] f.backend = NoName /\ f.id = NoName /\ f.index # 0 -> IF x # 0 THEN x ELSE n + 1
          [] OTHER -> IF n = 1 THEN 1 ELSE n + 1
  BY DEF Resolve, IndexAlias
<1>4. known = {} <=> b = 0 /\ i = 0
  OBVIOUS
<1>5. /\ b = (IF f.backend \in DOMAIN agg.alias THEN agg.alias[f.backend] ELSE 0)
      /\ i = (IF f.id \in DOMAIN agg.alias THEN agg.alias[f.id] ELSE 0)
      /\ x = (IF Index(f.index) \in DOMAIN agg.alias THEN agg.alias[Index(f.index)] ELSE 0)
      /\ (f.backend \in DOMAIN agg.alias => b # 0) /\ (f.id \in DOMAIN agg.alias => i # 0)
      /\ (Index(f.index) \in DOMAIN agg.alias => x # 0)
  BY FormedIs DEF Alias
<1> HIDE DEF b, i, x, n, known
<1>6. CASE b # 0
  <2>1. Resolve(agg, f) = b
    BY <1>2, <1>3, <1>4, <1>6
  <2> QED BY <1>1, <1>2, <1>5, <1>6, <2>1 DEF n
<1>7. CASE b = 0 /\ i # 0
  <2>1. Resolve(agg, f) = i
    BY <1>2, <1>3, <1>4, <1>7
  <2> QED BY <1>1, <1>2, <1>5, <1>7, <2>1 DEF n
<1>8. CASE b = 0 /\ i = 0 /\ (f.backend # NoName \/ f.id # NoName)
  <2>1. Resolve(agg, f) = n + 1
    BY <1>3, <1>4, <1>8
  <2> QED BY <1>1, <1>5, <1>8, <2>1 DEF n
<1>9. CASE f.backend = NoName /\ f.id = NoName /\ f.index # 0
  <2>1. Resolve(agg, f) = IF x # 0 THEN x ELSE n + 1
    BY <1>2, <1>3, <1>4, <1>9
  <2> QED BY <1>1, <1>5, <1>9, <2>1 DEF n
<1>10. CASE f.backend = NoName /\ f.id = NoName /\ f.index = 0
  <2>1. Resolve(agg, f) = IF n = 1 THEN 1 ELSE n + 1
    BY <1>2, <1>3, <1>4, <1>10
  <2> QED BY <1>1, <1>10, <2>1 DEF n
<1> QED BY <1>6, <1>7, <1>8, <1>9, <1>10

\* A fragment's call before it: one that is there, or a new one.
LEMMA OldCallIs ==
  ASSUME NEW agg, Formed(agg), NEW f \in Frag, NEW k \in 1 .. Len(agg.calls) + 1
  PROVE  /\ OldCall(agg, f, k) \in Call
         /\ k \in DOMAIN agg.calls => OldCall(agg, f, k) = agg.calls[k]
         /\ k = Len(agg.calls) + 1 =>
              /\ k \notin DOMAIN agg.calls
              /\ OldCall(agg, f, k) = NewCall(IF f.id # NoName THEN f.id ELSE Synthetic(k))
<1>1. k \in DOMAIN agg.calls <=> k # Len(agg.calls) + 1
  BY FormedIs
<1>2. CASE k \in DOMAIN agg.calls
  BY <1>1, <1>2, FormedIs DEF OldCall
<1>3. CASE k \notin DOMAIN agg.calls
  <2> DEFINE id == IF f.id # NoName THEN f.id ELSE Synthetic(k)
  <2>1. OldCall(agg, f, k) = NewCall(id)
    BY <1>3 DEF OldCall
  <2>2. k \in Nat
    BY FormedIs
  <2>3. id \in Ident
    BY <2>2, Idents DEF Frag
  <2> HIDE DEF id
  <2>4. NewCall(id) \in Call
    BY <2>3, ArgsAreNot DEF NewCall, Call
  <2> QED BY <1>1, <1>3, <2>1, <2>4 DEF id
<1> QED BY <1>2, <1>3

LEMMA KnownIs ==
  ASSUME NEW agg, Formed(agg), NEW f \in Frag, NEW k, NEW n \in Nat, Len(agg.calls) <= n, k \in 1 .. n
  PROVE  /\ DOMAIN Known(agg.alias, f, k) = DOMAIN agg.alias \cup NamesOf(f)
         /\ NamesOf(f) \subseteq Called
         /\ \A a \in DOMAIN agg.alias \cup NamesOf(f) :
              /\ Known(agg.alias, f, k)[a] \in 1 .. n
              /\ Known(agg.alias, f, k)[a] = IF a \in NamesOf(f) THEN k ELSE agg.alias[a]
<1>1. NamesOf(f) \subseteq Called
  BY Idents DEF NamesOf, Frag
<1>2. \A a \in DOMAIN agg.alias : agg.alias[a] \in 1 .. n
  BY FormedIs DEF Formed
<1> QED BY <1>1, <1>2 DEF Known

\* What a fragment makes of an aggregator: a known call changes, or there is one
\* more; the delta has the id only then.
LEMMA StepIs ==
  ASSUME NEW r, Formed(r.agg), r.deltas \in Seq(Dlt), NEW f \in Frag, NEW message \in BOOLEAN,
         f.backend = NoName \/ f.id = NoName,
         f.id \in {NoName, OldCall(r.agg, f, Resolve(r.agg, f)).id}
  PROVE  LET k == Resolve(r.agg, f)
             old == OldCall(r.agg, f, k)
             s == Apply(r, f, message)
         IN /\ Formed(s.agg)
            /\ s.agg.alias = Known(r.agg.alias, f, k)
            /\ s.deltas \in Seq(Dlt)
            /\ k \in DOMAIN r.agg.calls =>
                 /\ IdsOf(s.agg.calls) = IdsOf(r.agg.calls)
                 /\ \/ s.deltas = r.deltas
                    \/ \E d \in Dlt : s.deltas = Append(r.deltas, d) /\ d.index = k /\ d.id = NoName
            /\ k \notin DOMAIN r.agg.calls =>
                 /\ k = Len(r.agg.calls) + 1
                 /\ IdsOf(s.agg.calls) = Append(IdsOf(r.agg.calls), old.id)
                 /\ \E d \in Dlt : s.deltas = Append(r.deltas, d) /\ d.index = k /\ d.id = old.id
<1> DEFINE k == Resolve(r.agg, f)
           n == Len(r.agg.calls)
           old == OldCall(r.agg, f, k)
           s == Apply(r, f, message)
           call == Heard(r.agg, f, k)
           d == Delta(call, k)
           tells == Tells(call, d, message)
           new == IF tells THEN Kept(call, d) ELSE call
<1>1. k \in 1 .. n + 1
  BY ResolveIs
<1>2. /\ n \in Nat /\ DOMAIN r.agg.calls = 1 .. n /\ r.agg.calls \in Seq(Call)
      /\ \A i \in 1 .. n : r.agg.calls[i] \in Call /\ r.agg.calls[i].toldId /\ r.agg.calls[i].emitted
  BY FormedIs DEF Formed
<1>3. old \in Call /\ (k \in DOMAIN r.agg.calls => old = r.agg.calls[k])
      /\ (k \notin DOMAIN r.agg.calls => k = n + 1 /\ ~old.toldId /\ ~old.emitted)
  <2> DEFINE id == IF f.id # NoName THEN f.id ELSE Synthetic(k)
  <2> HIDE DEF k
  <2>1. /\ old \in Call
        /\ k \in DOMAIN r.agg.calls => old = r.agg.calls[k]
        /\ k = n + 1 => k \notin DOMAIN r.agg.calls /\ old = NewCall(id)
    BY <1>1, OldCallIs
  <2>2. k \notin DOMAIN r.agg.calls => k = n + 1
    BY <1>1, <1>2
  <2>3. ~NewCall(id).toldId /\ ~NewCall(id).emitted
    BY DEF NewCall
  <2> HIDE DEF old, id
  <2> QED BY <2>1, <2>2, <2>3
<1> HIDE DEF k, n, old
<1>4. /\ s.agg.alias = Known(r.agg.alias, f, k)
      /\ s.agg.calls = Put(r.agg.calls, k, new)
      /\ s.deltas = IF tells THEN Append(r.deltas, d) ELSE r.deltas
      /\ call \in Call /\ d \in Dlt /\ Kept(call, d) \in Call
  BY <1>1, <1>2, <1>3, ApplyIs DEF k, n, old
<1>5. call.id = old.id /\ call.toldId = old.toldId /\ call.emitted = old.emitted
  BY <1>3, AppendArgumentIs DEF Heard, old
<1>6. /\ d.index = k /\ d.id = (IF call.toldId THEN NoName ELSE call.id)
      /\ Kept(call, d).id = call.id /\ Kept(call, d).toldId /\ Kept(call, d).emitted
  BY <1>4 DEF Delta, Kept, Call
<1>7. tells <=> (~message \/ ~call.emitted) /\ (d.id # NoName \/ d.args # NoArgs)
  BY DEF Tells
<1>8. old.id # NoName
  BY <1>3, NamesDiffer, Idents DEF Call
<1> HIDE DEF call, d, s
<1>9. new \in Call /\ new.id = old.id
  BY <1>4, <1>5, <1>6
<1> DEFINE m == IF k > n THEN k ELSE n
<1>10. /\ s.agg.calls \in Seq(Call) /\ Len(s.agg.calls) = m /\ s.agg.calls[k] = new
       /\ \A i \in 1 .. n : i \in DOMAIN s.agg.calls /\ (i # k => s.agg.calls[i] = r.agg.calls[i])
  <2>1. s.agg.calls = Put(r.agg.calls, k, new)
    BY <1>4
  <2>2. r.agg.calls \in Seq(Call) /\ k \in 1 .. Len(r.agg.calls) + 1 /\ new \in Call
    BY <1>1, <1>2, <1>9 DEF n
  <2> HIDE DEF new
  <2>3. DOMAIN r.agg.calls = 1 .. n /\ n = Len(r.agg.calls)
    BY <1>2 DEF n
  <2>4. /\ Put(r.agg.calls, k, new) \in Seq(Call)
        /\ Len(Put(r.agg.calls, k, new)) = IF k > Len(r.agg.calls) THEN k ELSE Len(r.agg.calls)
        /\ Put(r.agg.calls, k, new)[k] = new
        /\ \A i \in DOMAIN r.agg.calls : i \in DOMAIN Put(r.agg.calls, k, new)
                                      /\ (i # k => Put(r.agg.calls, k, new)[i] = r.agg.calls[i])
    <3>1. HasPut(Put(r.agg.calls, k, new), Call, r.agg.calls, k, new)
      BY <2>2, PutOf
    <3> QED BY <3>1 DEF HasPut
  <2> QED BY <2>1, <2>3, <2>4
<1>11. new.toldId /\ new.emitted
  BY <1>2, <1>3, <1>5, <1>6, <1>7, <1>8
<1> HIDE DEF new
<1>12. DOMAIN s.agg.calls = 1 .. m /\ m \in Nat /\ k \in 1 .. m
  BY <1>1, <1>2, <1>10
<1>13. s.deltas \in Seq(Dlt)
  BY <1>4, AppendProperties
<1>14. ASSUME NEW i \in 1 .. m PROVE s.agg.calls[i].toldId /\ s.agg.calls[i].emitted
  <2>1. i = k \/ i \in 1 .. n
    BY <1>1, <1>2
  <2> QED BY <1>2, <1>10, <1>11, <2>1
<1>15. n <= m
  BY <1>1, <1>2
<1> HIDE DEF m
<1>16. /\ DOMAIN s.agg.alias \subseteq Called
       /\ \A a \in DOMAIN s.agg.alias : s.agg.alias[a] \in 1 .. m
  <2>1. Len(r.agg.calls) <= m
    BY <1>15 DEF n
  <2>2. /\ DOMAIN s.agg.alias = DOMAIN r.agg.alias \cup NamesOf(f) /\ NamesOf(f) \subseteq Called
        /\ \A a \in DOMAIN r.agg.alias \cup NamesOf(f) : s.agg.alias[a] \in 1 .. m
    <3>1. /\ DOMAIN Known(r.agg.alias, f, k) = DOMAIN r.agg.alias \cup NamesOf(f)
          /\ NamesOf(f) \subseteq Called
          /\ \A a \in DOMAIN r.agg.alias \cup NamesOf(f) : Known(r.agg.alias, f, k)[a] \in 1 .. m
      BY <1>12, <2>1, KnownIs
    <3> QED BY <1>4, <3>1
  <2>3. DOMAIN r.agg.alias \subseteq Called
    BY DEF Formed
  <2> QED BY <2>2, <2>3
<1>17. Formed(s.agg)
  BY <1>10, <1>12, <1>14, <1>16 DEF Formed
<1>18. ASSUME k \in DOMAIN r.agg.calls
       PROVE  /\ IdsOf(s.agg.calls) = IdsOf(r.agg.calls)
              /\ s.deltas = r.deltas \/ (s.deltas = Append(r.deltas, d) /\ d.id = NoName)
  <2>1. m = n
    BY <1>1, <1>2, <1>18 DEF m
  <2>2. \A i \in 1 .. n : s.agg.calls[i].id = r.agg.calls[i].id
    BY <1>3, <1>9, <1>10, <1>18
  <2>3. IdsOf(s.agg.calls) = IdsOf(r.agg.calls)
    BY <1>2, <1>12, <2>1, <2>2 DEF IdsOf
  <2>4. call.toldId
    BY <1>2, <1>3, <1>5, <1>18
  <2> QED BY <1>4, <1>6, <2>3, <2>4
<1>19. ASSUME k \notin DOMAIN r.agg.calls
       PROVE  /\ IdsOf(s.agg.calls) = Append(IdsOf(r.agg.calls), old.id)
              /\ s.deltas = Append(r.deltas, d) /\ d.id = old.id
  <2>1. k = n + 1 /\ m = n + 1
    BY <1>2, <1>3, <1>19 DEF m
  <2>2. \A i \in 1 .. n : s.agg.calls[i].id = r.agg.calls[i].id
    BY <1>10, <2>1, <1>2
  <2> DEFINE ids == IdsOf(r.agg.calls)
  <2>3. ids \in Seq(Ident) /\ Len(ids) = n /\ \A i \in 1 .. n : ids[i] = r.agg.calls[i].id
    <3>1. ids = [i \in 1 .. n |-> r.agg.calls[i].id]
      BY <1>2 DEF IdsOf
    <3>2. \A i \in 1 .. n : r.agg.calls[i].id \in Ident
      BY <1>2 DEF Call
    <3> HIDE DEF ids
    <3> QED BY <1>2, <3>1, <3>2
  <2> HIDE DEF ids
  <2>4. IdsOf(s.agg.calls) = [i \in 1 .. n + 1 |-> s.agg.calls[i].id]
    BY <1>12, <2>1 DEF IdsOf
  <2>5. Append(ids, old.id) = [i \in 1 .. n + 1 |-> IF i \in 1 .. n THEN ids[i] ELSE old.id]
    BY <1>2, <2>3
  <2>6. ASSUME NEW i \in 1 .. n + 1 PROVE s.agg.calls[i].id = IF i \in 1 .. n THEN ids[i] ELSE old.id
    BY <1>2, <1>9, <1>10, <2>1, <2>2, <2>3
  <2>7. IdsOf(s.agg.calls) = Append(ids, old.id)
    BY <2>4, <2>5, <2>6
  <2>8. ~call.toldId /\ ~call.emitted
    BY <1>3, <1>5, <1>19
  <2> QED BY <1>4, <1>5, <1>6, <1>7, <1>8, <2>7, <2>8 DEF ids
<1> QED BY <1>3, <1>4, <1>6, <1>13, <1>17, <1>18, <1>19 DEF k, old, s, n

LEMMA IdsAre ==
  ASSUME NEW s \in Seq(Call)
  PROVE  /\ IdsOf(s) \in Seq(Ident) /\ Len(IdsOf(s)) = Len(s) /\ DOMAIN IdsOf(s) = 1 .. Len(s)
         /\ \A i \in 1 .. Len(s) : IdsOf(s)[i] = s[i].id /\ s[i] \in Call
<1>1. Len(s) \in Nat /\ DOMAIN s = 1 .. Len(s) /\ \A i \in 1 .. Len(s) : s[i] \in Call
  BY LenProperties, ElementOfSeq
<1>2. IdsOf(s) = [i \in 1 .. Len(s) |-> s[i].id]
  BY <1>1 DEF IdsOf
<1>3. \A i \in 1 .. Len(s) : s[i].id \in Ident
  BY <1>1 DEF Call
<1> QED BY <1>1, <1>2, <1>3

ChatOf(style, agg) == Chatted(agg) /\ (style = "chunks" => Faithful(agg))

\* A fragment does not rename its call.
LEMMA ChatKeepsName ==
  ASSUME NEW agg, NEW style, ChatOf(style, agg), NEW f \in Frag, Fitting(style, f)
  PROVE  /\ f.backend = NoName \/ f.id = NoName
         /\ f.id \in Ids \cup {NoName}
         /\ f.id \in {NoName, OldCall(agg, f, Resolve(agg, f)).id}
<1>1. (f.backend = NoName \/ f.id = NoName) /\ f.id \in Ids \cup {NoName} /\ Formed(agg)
  BY DEF Fitting, ChatOf, Chatted
<1>2. CASE f.id = NoName
  BY <1>1, <1>2
<1>3. CASE f.id # NoName
  <2>1. style = "chunks" /\ f.backend = NoName /\ f.id \in Ids /\ Faithful(agg)
    BY <1>3 DEF Fitting, ChatOf
  <2> DEFINE k == Resolve(agg, f)
  <2>2. k \in 1 .. Len(agg.calls) + 1
        /\ k = IF f.id \in DOMAIN agg.alias THEN agg.alias[f.id] ELSE Len(agg.calls) + 1
    BY <1>1, <1>3, <2>1, ResolveIs
  <2> HIDE DEF k
  <2>3. CASE f.id \in DOMAIN agg.alias
    <3>1. k \in DOMAIN agg.calls /\ agg.calls[k].id = f.id
      BY <1>1, <2>1, <2>2, <2>3 DEF Formed, Faithful
    <3>2. OldCall(agg, f, k) = agg.calls[k]
      BY <1>1, <2>2, <3>1, OldCallIs
    <3> QED BY <1>1, <3>1, <3>2 DEF k
  <2>4. CASE f.id \notin DOMAIN agg.alias
    <3>1. OldCall(agg, f, k) = NewCall(f.id)
      BY <1>1, <1>3, <2>2, <2>4, OldCallIs
    <3> QED BY <1>1, <3>1 DEF k, NewCall
  <2> QED BY <2>3, <2>4
<1> QED BY <1>2, <1>3

LEMMA ChatStep ==
  ASSUME NEW r, NEW style, ChatOf(style, r.agg), r.deltas \in Seq(Dlt), NEW f \in Frag,
         Fitting(style, f), NEW message \in BOOLEAN
  PROVE  ChatOf(style, Apply(r, f, message).agg)
<1> DEFINE agg == r.agg
           k == Resolve(agg, f)
           old == OldCall(agg, f, k)
           s == Apply(r, f, message)
           n == Len(agg.calls)
<1>1. /\ f.backend = NoName \/ f.id = NoName
      /\ f.id \in Ids \cup {NoName} /\ f.id \in {NoName, old.id} /\ Formed(agg)
  BY ChatKeepsName DEF ChatOf, Chatted
<1>2. /\ Formed(s.agg) /\ s.agg.alias = Known(agg.alias, f, k)
      /\ k \in DOMAIN agg.calls => IdsOf(s.agg.calls) = IdsOf(agg.calls)
      /\ k \notin DOMAIN agg.calls => k = n + 1 /\ IdsOf(s.agg.calls) = Append(IdsOf(agg.calls), old.id)
  BY <1>1, StepIs
<1>3. k \in 1 .. n + 1 /\ n \in Nat /\ DOMAIN agg.calls = 1 .. n /\ agg.calls \in Seq(Call)
  BY <1>1, ResolveIs, FormedIs DEF Formed
<1>3a. /\ old \in Call /\ (k \in DOMAIN agg.calls => old = agg.calls[k])
       /\ k = n + 1 => old.id = IF f.id # NoName THEN f.id ELSE Synthetic(k)
  BY <1>1, <1>3, OldCallIs DEF NewCall
<1> DEFINE ids == IdsOf(agg.calls)
           jds == IdsOf(s.agg.calls)
<1>4. ids \in Seq(Ident) /\ Len(ids) = n /\ \A i \in 1 .. n : ids[i] = agg.calls[i].id
  BY <1>3, IdsAre
<1>5. s.agg.calls \in Seq(Call) /\ DOMAIN s.agg.calls = 1 .. Len(s.agg.calls)
      /\ Len(jds) = Len(s.agg.calls) /\ \A i \in 1 .. Len(jds) : jds[i] = s.agg.calls[i].id
  BY <1>2, IdsAre, FormedIs DEF Formed
<1>6. DOMAIN s.agg.alias = DOMAIN agg.alias \cup NamesOf(f)
      /\ \A a \in DOMAIN s.agg.alias : s.agg.alias[a] = IF a \in NamesOf(f) THEN k ELSE agg.alias[a]
  <2>1. n + 1 \in Nat /\ n <= n + 1
    BY <1>3
  <2>2. Len(agg.calls) <= n + 1 /\ k \in 1 .. n + 1
    BY <1>3, <2>1
  <2> DEFINE m == n + 1
  <2> HIDE DEF k
  <2>3. m \in Nat /\ Len(agg.calls) <= m /\ k \in 1 .. m /\ Formed(agg)
    BY <1>1, <2>1, <2>2
  <2> HIDE DEF n, m
  <2>4. /\ DOMAIN Known(agg.alias, f, k) = DOMAIN agg.alias \cup NamesOf(f)
        /\ \A a \in DOMAIN agg.alias \cup NamesOf(f) :
             Known(agg.alias, f, k)[a] = IF a \in NamesOf(f) THEN k ELSE agg.alias[a]
    BY <2>3, KnownIs, ZenonT(40)
  <2> DEFINE g == Known(agg.alias, f, k)
  <2>5. s.agg.alias = g
    BY <1>2
  <2> QED BY <2>4, <2>5
<1> HIDE DEF k, old, s, n, agg, ids, jds
<1>7. /\ k \in 1 .. n => jds = ids
      /\ k = n + 1 => jds = Append(ids, old.id)
      /\ old.id \in Ident /\ (k \in 1 .. n => old.id = ids[k])
  BY <1>2, <1>3, <1>3a, <1>4 DEF ids, jds, Call
<1>8. /\ \A i \in 1 .. n : jds[i] = ids[i]
      /\ jds[k] = old.id
      /\ Len(jds) = IF k > n THEN k ELSE n
  <2>1. n \in Nat /\ k \in 1 .. n + 1 /\ ids \in Seq(Ident) /\ Len(ids) = n /\ old.id \in Ident
    BY <1>3, <1>4, <1>7
  <2>2. CASE k \in 1 .. n
    BY <1>7, <2>1, <2>2
  <2>3. CASE k = n + 1
    <3> DEFINE x == old.id
    <3>1. ids \in Seq(Ident) /\ x \in Ident
      BY <2>1
    <3> HIDE DEF x
    <3>2. /\ Len(Append(ids, x)) = Len(ids) + 1 /\ Append(ids, x)[Len(ids) + 1] = x
          /\ \A i \in 1 .. Len(ids) : Append(ids, x)[i] = ids[i]
      BY <3>1, Appended
    <3>3. jds = Append(ids, x) /\ Len(ids) = n /\ k = n + 1 /\ k > n
      BY <1>7, <2>1, <2>3 DEF x
    <3> QED BY <3>2, <3>3 DEF x
  <2> QED BY <2>1, <2>2, <2>3
<1>9. \A j \in Nat : Synthetic(j) \notin NamesOf(f)
  BY <1>1, Idents, NamesDiffer DEF NamesOf, Ids, Frag
<1>10. /\ \A j \in Nat : Synthetic(j) \notin DOMAIN agg.alias
       /\ \A i \in 1 .. n :
            \/ ids[i] = Synthetic(i)
            \/ ids[i] \in DOMAIN agg.alias /\ agg.alias[ids[i]] = i /\ ids[i] \in Ids
  <2>1. Chatted(agg)
    BY DEF ChatOf, agg
  <2>2. DOMAIN agg.calls = 1 .. n /\ \A i \in 1 .. n : ids[i] = agg.calls[i].id
    BY <1>3, <1>4
  <2>3. /\ \A j \in Nat : Synthetic(j) \notin DOMAIN agg.alias
        /\ \A i \in 1 .. n :
             \/ agg.calls[i].id = Synthetic(i)
             \/ agg.calls[i].id \in DOMAIN agg.alias /\ agg.alias[agg.calls[i].id] = i /\ agg.calls[i].id \in Ids
    BY <2>1, <2>2 DEF Chatted
  <2> QED BY <2>2, <2>3
<1>11. f.id # NoName => f.id \in NamesOf(f) /\ f.id = old.id
  BY <1>1 DEF NamesOf
<1>12. \A a \in Ids : a \in NamesOf(f) => a = f.id \/ a = f.backend
  BY NamesDiffer DEF NamesOf, Ids, Frag
<1>12a. k \in Nat /\ k \in DOMAIN s.agg.calls
  BY <1>3, <1>5, <1>8
\* Every call has the backend's id or its own.
<1>13. ASSUME NEW i \in 1 .. Len(jds)
       PROVE  \/ jds[i] = Synthetic(i)
              \/ jds[i] \in DOMAIN s.agg.alias /\ s.agg.alias[jds[i]] = i /\ jds[i] \in Ids
  <2>1. CASE i = k /\ f.id # NoName
    BY <1>1, <1>6, <1>8, <1>11, <2>1
  <2>2. CASE i = k /\ f.id = NoName /\ k = n + 1
    BY <1>3, <1>3a, <1>8, <2>2
  <2>3. CASE i \in 1 .. n /\ (i # k \/ f.id = NoName)
    <3>1. jds[i] = ids[i]
      BY <1>8, <2>3
    <3>2. CASE ids[i] = Synthetic(i)
      BY <3>1, <3>2
    <3>3. CASE ids[i] \in DOMAIN agg.alias /\ agg.alias[ids[i]] = i /\ ids[i] \in Ids
      <4>1. CASE ids[i] \notin NamesOf(f)
        BY <1>6, <3>1, <3>3, <4>1
      <4>2. CASE ids[i] \in NamesOf(f)
        <5>1. ids[i] = f.id \/ ids[i] = f.backend
          BY <1>12, <3>3, <4>2
        <5>2. CASE ids[i] = f.id
          <6>1. f.id # NoName /\ f.backend = NoName
            BY <1>1, <3>3, <5>2, FormedIs, Idents, NamesDiffer
          <6>2. k = agg.alias[f.id]
            BY <1>1, <3>3, <5>2, <6>1, ResolveIs DEF k
          <6> QED BY <1>6, <3>1, <3>3, <4>2, <5>2, <6>2
        <5>3. CASE ids[i] = f.backend
          <6>1. f.backend # NoName
            BY <3>3, <5>3, Idents, NamesDiffer
          <6>2. k = agg.alias[f.backend]
            BY <1>1, <3>3, <5>3, <6>1, ResolveIs DEF k
          <6> QED BY <1>6, <3>1, <3>3, <4>2, <5>3, <6>2
        <5> QED BY <5>1, <5>2, <5>3
      <4> QED BY <4>1, <4>2
    <3> QED BY <1>10, <2>3, <3>2, <3>3
  <2> QED BY <1>3, <1>8, <2>1, <2>2, <2>3
<1>14. Chatted(s.agg)
  BY <1>2, <1>5, <1>6, <1>9, <1>10, <1>13 DEF Chatted
<1>15. ASSUME style = "chunks" PROVE Faithful(s.agg)
  <2>1. Faithful(agg) /\ f.backend = NoName
    BY <1>15 DEF ChatOf, Fitting, agg
  <2>2. ASSUME NEW a \in DOMAIN s.agg.alias, a \in Ids PROVE s.agg.calls[s.agg.alias[a]].id = a
    <3>1. CASE a \in NamesOf(f)
      <4>1. a = f.id /\ f.id # NoName
        BY <1>12, <2>1, <2>2, <3>1, Idents, NamesDiffer
      <4>2. s.agg.alias[a] = k /\ jds[k] = a
        BY <1>6, <1>8, <1>11, <3>1, <4>1
      <4> QED BY <1>5, <1>12a, <4>2
    <3>2. CASE a \notin NamesOf(f)
      <4>1. a \in DOMAIN agg.alias /\ s.agg.alias[a] = agg.alias[a]
        BY <1>6, <2>2, <3>2
      <4>2. agg.alias[a] \in 1 .. n /\ ids[agg.alias[a]] = a
        BY <1>1, <1>3, <1>4, <2>1, <2>2, <4>1 DEF Formed, Faithful
      <4>3. agg.alias[a] \in 1 .. Len(jds)
        BY <1>3, <1>8, <4>2
      <4> QED BY <1>5, <1>8, <4>1, <4>2, <4>3
    <3> QED BY <3>1, <3>2
  <2> QED BY <2>2 DEF Faithful
<1> QED BY <1>14, <1>15 DEF ChatOf, s

-----------------------------------------------------------------------------
(* What one aggregator passes on to the next.                               *)

\* The deltas lead to the calls ids: m of them after each delta, which is of a
\* call that is there, without its id, or of the next one, with it.
Passes(m, ds, ids) ==
  /\ m \in [0 .. Len(ds) -> 0 .. Len(ids)] /\ m[Len(ds)] = Len(ids)
  /\ \A j \in 1 .. Len(ds) :
       \/ m[j] = m[j - 1] /\ ds[j].id = NoName /\ ds[j].index \in 1 .. m[j]
       \/ m[j] = m[j - 1] + 1 /\ ds[j].id = ids[m[j]] /\ ds[j].index = m[j]

LeadsTo(ids0, ds, ids) == \E m : Passes(m, ds, ids) /\ ids0 = SubSeq(ids, 1, m[0])

LEMMA LeadsNowhere ==
  ASSUME NEW ids \in Seq(Ident)
  PROVE  LeadsTo(ids, <<>>, ids)
<1> DEFINE m == [j \in 0 .. 0 |-> Len(ids)]
<1>1. Len(ids) \in Nat /\ SubSeq(ids, 1, Len(ids)) = ids
  BY LenProperties
<1>2. Passes(m, <<>>, ids) /\ m[0] = Len(ids)
  BY <1>1 DEF Passes
<1> HIDE DEF m
<1> QED BY <1>1, <1>2 DEF LeadsTo

\* The same, for sequences as they are appended to.
LEMMA LeadsOn ==
  ASSUME NEW ids0, NEW ds \in Seq(Dlt), NEW ids \in Seq(Ident), LeadsTo(ids0, ds, ids), NEW d \in Dlt
  PROVE  /\ d.id = NoName /\ d.index \in 1 .. Len(ids) => LeadsTo(ids0, Append(ds, d), ids)
         /\ d.id \in Ident /\ d.index = Len(ids) + 1 => LeadsTo(ids0, Append(ds, d), Append(ids, d.id))
<1>1. PICK m : Passes(m, ds, ids) /\ ids0 = SubSeq(ids, 1, m[0])
  BY DEF LeadsTo
<1> DEFINE n == Len(ds)
           es == Append(ds, d)
<1>2. /\ n \in Nat /\ Len(es) = n + 1 /\ es[n + 1] = d
      /\ \A j \in 1 .. n : es[j] = ds[j]
  BY Appended
<1>3. Len(ids) \in Nat
  BY LenProperties
<1>4. /\ m \in [0 .. n -> 0 .. Len(ids)] /\ m[n] = Len(ids)
      /\ \A j \in 1 .. n :
           \/ m[j] = m[j - 1] /\ es[j].id = NoName /\ es[j].index \in 1 .. m[j]
           \/ m[j] = m[j - 1] + 1 /\ es[j].id = ids[m[j]] /\ es[j].index = m[j]
  BY <1>1, <1>2 DEF Passes
<1> HIDE DEF n, es
<1>5. ASSUME d.id = NoName, d.index \in 1 .. Len(ids) PROVE LeadsTo(ids0, es, ids)
  <2> DEFINE h == [j \in 0 .. n + 1 |-> IF j <= n THEN m[j] ELSE Len(ids)]
  <2>1. h \in [0 .. Len(es) -> 0 .. Len(ids)] /\ h[Len(es)] = Len(ids) /\ h[0] = m[0]
        /\ (\A j \in 0 .. n : h[j] = m[j]) /\ h[n + 1] = Len(ids)
    BY <1>2, <1>3, <1>4
  <2> HIDE DEF h
  <2>2. ASSUME NEW j \in 1 .. Len(es)
        PROVE  \/ h[j] = h[j - 1] /\ es[j].id = NoName /\ es[j].index \in 1 .. h[j]
               \/ h[j] = h[j - 1] + 1 /\ es[j].id = ids[h[j]] /\ es[j].index = h[j]
    <3>1. CASE j \in 1 .. n
      <4>1. h[j] = m[j] /\ h[j - 1] = m[j - 1]
        <5>1. j \in 0 .. n /\ j - 1 \in 0 .. n
          BY <1>2, <3>1
        <5> QED BY <2>1, <5>1
      <4> QED BY <1>4, <3>1, <4>1
    <3>2. CASE j = n + 1
      <4>1. h[j] = Len(ids) /\ h[j - 1] = Len(ids) /\ es[j] = d
        BY <1>2, <1>4, <2>1, <3>2
      <4> QED BY <1>5, <4>1
    <3> QED BY <1>2, <3>1, <3>2
  <2>3. Passes(h, es, ids)
    BY <2>1, <2>2 DEF Passes
  <2> QED BY <1>1, <2>1, <2>3 DEF LeadsTo
<1>6. ASSUME d.id \in Ident, d.index = Len(ids) + 1 PROVE LeadsTo(ids0, es, Append(ids, d.id))
  <2> DEFINE jds == Append(ids, d.id)
             h == [j \in 0 .. n + 1 |-> IF j <= n THEN m[j] ELSE Len(ids) + 1]
  <2>0. /\ Len(jds) = Len(ids) + 1 /\ jds[Len(ids) + 1] = d.id
        /\ \A i \in 1 .. Len(ids) : jds[i] = ids[i]
        /\ \A i \in 0 .. Len(ids) : SubSeq(jds, 1, i) = SubSeq(ids, 1, i)
    BY <1>6, Appended
  <2> HIDE DEF jds
  <2>1. h \in [0 .. Len(es) -> 0 .. Len(jds)] /\ h[Len(es)] = Len(jds) /\ h[0] = m[0] /\ m[0] \in 0 .. Len(ids)
        /\ (\A j \in 0 .. n : h[j] = m[j]) /\ h[n + 1] = Len(ids) + 1
    BY <1>2, <1>3, <1>4, <2>0
  <2> HIDE DEF h
  <2>2. ASSUME NEW j \in 1 .. Len(es)
        PROVE  \/ h[j] = h[j - 1] /\ es[j].id = NoName /\ es[j].index \in 1 .. h[j]
               \/ h[j] = h[j - 1] + 1 /\ es[j].id = jds[h[j]] /\ es[j].index = h[j]
    <3>1. CASE j \in 1 .. n
      <4>1. h[j] = m[j] /\ h[j - 1] = m[j - 1]
        <5>1. j \in 0 .. n /\ j - 1 \in 0 .. n
          BY <1>2, <3>1
        <5> QED BY <2>1, <5>1
      <4>2. m[j] = m[j - 1] + 1 => m[j] \in 1 .. Len(ids)
        <5>1. m[j] \in 0 .. Len(ids) /\ m[j - 1] \in 0 .. Len(ids)
          BY <1>2, <1>4, <3>1
        <5> QED BY <1>3, <5>1
      <4> QED BY <1>4, <2>0, <3>1, <4>1, <4>2, SMTT(30)
    <3>2. CASE j = n + 1
      <4>1. h[j] = Len(ids) + 1 /\ h[j - 1] = Len(ids) /\ es[j] = d
        BY <1>2, <1>4, <2>1, <3>2
      <4> QED BY <1>6, <2>0, <4>1
    <3> QED BY <1>2, <3>1, <3>2
  <2>3. Passes(h, es, jds)
    BY <2>1, <2>2 DEF Passes
  <2> QED BY <1>1, <2>0, <2>1, <2>3 DEF LeadsTo, jds
<1> QED BY <1>5, <1>6 DEF es

\* What StepIs says, for the deltas so far.
LEMMA StepLeads ==
  ASSUME NEW ids0, NEW r, Formed(r.agg), r.deltas \in Seq(Dlt), NEW f \in Frag, NEW message \in BOOLEAN,
         f.backend = NoName \/ f.id = NoName,
         f.id \in {NoName, OldCall(r.agg, f, Resolve(r.agg, f)).id},
         LeadsTo(ids0, r.deltas, IdsOf(r.agg.calls))
  PROVE  /\ Apply(r, f, message).deltas \in Seq(Dlt)
         /\ LeadsTo(ids0, Apply(r, f, message).deltas, IdsOf(Apply(r, f, message).agg.calls))
<1> DEFINE k == Resolve(r.agg, f)
           old == OldCall(r.agg, f, k)
           s == Apply(r, f, message)
           ids == IdsOf(r.agg.calls)
<1>1. /\ s.deltas \in Seq(Dlt)
      /\ k \in DOMAIN r.agg.calls =>
           /\ IdsOf(s.agg.calls) = ids
           /\ \/ s.deltas = r.deltas
              \/ \E d \in Dlt : s.deltas = Append(r.deltas, d) /\ d.index = k /\ d.id = NoName
      /\ k \notin DOMAIN r.agg.calls =>
           /\ k = Len(r.agg.calls) + 1
           /\ IdsOf(s.agg.calls) = Append(ids, old.id)
           /\ \E d \in Dlt : s.deltas = Append(r.deltas, d) /\ d.index = k /\ d.id = old.id
  BY StepIs
<1>2. r.agg.calls \in Seq(Call) /\ DOMAIN r.agg.calls = 1 .. Len(r.agg.calls) /\ k \in 1 .. Len(r.agg.calls) + 1
  BY ResolveIs, FormedIs DEF Formed
<1>3. ids \in Seq(Ident) /\ Len(ids) = Len(r.agg.calls)
  BY <1>2, IdsAre
<1>4. old.id \in Ident
  BY <1>2, OldCallIs DEF Call
<1> HIDE DEF k, old, s, ids
<1>5. CASE k \in DOMAIN r.agg.calls /\ s.deltas = r.deltas
  BY <1>1, <1>5 DEF ids, s
<1>6. CASE k \in DOMAIN r.agg.calls /\ s.deltas # r.deltas
  <2>1. PICK d \in Dlt : s.deltas = Append(r.deltas, d) /\ d.index = k /\ d.id = NoName
    BY <1>1, <1>6
  <2>2. LeadsTo(ids0, Append(r.deltas, d), ids)
    BY <1>2, <1>3, <1>6, <2>1, LeadsOn DEF ids
  <2> QED BY <1>1, <1>6, <2>1, <2>2 DEF s
<1>7. CASE k \notin DOMAIN r.agg.calls
  <2>1. PICK d \in Dlt : s.deltas = Append(r.deltas, d) /\ d.index = k /\ d.id = old.id
    BY <1>1, <1>7
  <2>2. LeadsTo(ids0, Append(r.deltas, d), Append(ids, d.id))
    BY <1>1, <1>3, <1>4, <1>7, <2>1, LeadsOn DEF ids
  <2> QED BY <1>1, <1>7, <2>1, <2>2 DEF s
<1> QED BY <1>5, <1>6, <1>7

\* What the backend says, in the chat handler's aggregator.
LEMMA ChatIngest ==
  ASSUME NEW agg, NEW style, ChatOf(style, agg), NEW fs \in Seq(Frag), NEW message \in BOOLEAN,
         \A i \in DOMAIN fs : Fitting(style, fs[i])
  PROVE  LET r == Ingest(agg, fs, message)
         IN /\ ChatOf(style, r.agg) /\ r.deltas \in Seq(Dlt)
            /\ LeadsTo(IdsOf(agg.calls), r.deltas, IdsOf(r.agg.calls))
<1>1. Len(fs) \in Nat /\ DOMAIN fs = 1 .. Len(fs) /\ \A i \in 1 .. Len(fs) : fs[i] \in Frag
  BY LenProperties, ElementOfSeq
<1>2a. PICK after : IngestRun(after, agg, fs, message)
  BY <1>1, IngestSteps
<1>2. /\ after[0] = [agg |-> agg, deltas |-> <<>>]
      /\ \A i \in 1 .. Len(fs) : after[i] = Apply(after[i - 1], fs[i], message)
      /\ Ingest(agg, fs, message) = after[Len(fs)]
  BY <1>2a DEF IngestRun
<1> DEFINE ids0 == IdsOf(agg.calls)
           Good(r) == /\ ChatOf(style, r.agg) /\ r.deltas \in Seq(Dlt)
                      /\ LeadsTo(ids0, r.deltas, IdsOf(r.agg.calls))
           S == {i \in Nat : i <= Len(fs) => Good(after[i])}
<1>3. 0 \in S
  <2>1. ids0 \in Seq(Ident)
    BY IdsAre DEF ChatOf, Chatted, Formed
  <2>2. LeadsTo(ids0, <<>>, ids0)
    BY <2>1, LeadsNowhere
  <2>3. after[0].agg = agg /\ after[0].deltas = <<>>
    BY <1>2
  <2> HIDE DEF ids0
  <2>4. Good(after[0])
    BY <2>2, <2>3 DEF ids0
  <2> QED BY <2>4
<1>4. ASSUME NEW i \in Nat, i \in S PROVE i + 1 \in S
  <2> SUFFICES ASSUME i + 1 <= Len(fs) PROVE Good(after[i + 1])
    OBVIOUS
  <2>1. i + 1 \in 1 .. Len(fs) /\ i <= Len(fs)
    BY <1>1
  <2>2. Good(after[i])
    BY <1>4, <2>1
  <2>3. after[i + 1] = Apply(after[i], fs[i + 1], message)
    BY <1>2, <2>1
  <2>4. fs[i + 1] \in Frag /\ Fitting(style, fs[i + 1])
    BY <1>1, <2>1
  <2> DEFINE r == after[i]
             f == fs[i + 1]
  <2> HIDE DEF r, f, Good
  <2>5. ChatOf(style, r.agg) /\ r.deltas \in Seq(Dlt) /\ LeadsTo(ids0, r.deltas, IdsOf(r.agg.calls))
    BY <2>2 DEF r, Good
  <2>6. f \in Frag /\ Fitting(style, f)
    BY <2>4 DEF f
  <2> HIDE DEF ids0
  <2>7. ChatOf(style, Apply(r, f, message).agg)
    BY <2>5, <2>6, ChatStep
  <2>8. /\ f.backend = NoName \/ f.id = NoName
        /\ f.id \in {NoName, OldCall(r.agg, f, Resolve(r.agg, f)).id}
        /\ Formed(r.agg)
    BY <2>5, <2>6, ChatKeepsName DEF ChatOf, Chatted
  <2>9. /\ Apply(r, f, message).deltas \in Seq(Dlt)
        /\ LeadsTo(ids0, Apply(r, f, message).deltas, IdsOf(Apply(r, f, message).agg.calls))
    BY <2>5, <2>6, <2>8, StepLeads
  <2>10. Good(Apply(r, f, message))
    BY <2>7, <2>9 DEF Good
  <2> QED BY <2>3, <2>10 DEF r, f
<1> HIDE DEF S, Good
<1>5. Len(fs) \in S
  BY <1>1, <1>3, <1>4, SetInduction DEF S
<1>6. Good(after[Len(fs)])
  BY <1>1, <1>5 DEF S
<1> QED BY <1>2, <1>6 DEF Good

-----------------------------------------------------------------------------
(* The adapter's aggregator.                                                *)

Distinct(ids) == \A i, j \in DOMAIN ids : ids[i] = ids[j] => i = j

LEMMA ChatDistinct ==
  ASSUME NEW agg, Chatted(agg)
  PROVE  IdsOf(agg.calls) \in Seq(Ident) /\ Distinct(IdsOf(agg.calls))
<1>1. agg.calls \in Seq(Call) /\ DOMAIN agg.calls = 1 .. Len(agg.calls) /\ Len(agg.calls) \in Nat
  BY FormedIs DEF Chatted, Formed
<1> DEFINE ids == IdsOf(agg.calls)
<1>2. /\ ids \in Seq(Ident) /\ DOMAIN ids = 1 .. Len(agg.calls)
      /\ \A i \in 1 .. Len(agg.calls) : ids[i] = agg.calls[i].id
  BY <1>1, IdsAre
<1>3. \A i \in 1 .. Len(agg.calls) :
        \/ ids[i] = Synthetic(i)
        \/ ids[i] \in DOMAIN agg.alias /\ agg.alias[ids[i]] = i /\ ids[i] \in Ids
  BY <1>1, <1>2 DEF Chatted
<1> HIDE DEF ids
<1>4. ASSUME NEW i \in 1 .. Len(agg.calls), NEW j \in 1 .. Len(agg.calls), ids[i] = ids[j] PROVE i = j
  <2>1. i \in Nat /\ j \in Nat
    OBVIOUS
  <2>2. CASE ids[i] = Synthetic(i)
    <3>1. ids[j] \notin Ids
      BY <1>4, <2>1, <2>2, Idents
    <3>2. ids[j] = Synthetic(j)
      BY <1>3, <3>1
    <3> QED BY <1>4, <2>1, <2>2, <3>2, NamesDiffer
  <2>3. CASE ids[i] \in DOMAIN agg.alias /\ agg.alias[ids[i]] = i /\ ids[i] \in Ids
    <3>1. ids[j] # Synthetic(j)
      BY <1>4, <2>1, <2>3, Idents
    <3>2. agg.alias[ids[j]] = j
      BY <1>3, <3>1
    <3> QED BY <1>4, <2>3, <3>2
  <2> QED BY <1>3, <2>2, <2>3
<1>5. ids \in Seq(Ident) /\ Distinct(ids)
  BY <1>2, <1>4 DEF Distinct
<1> QED BY <1>5 DEF ids

AsFragment(d) == Fragment(NoName, d.id, d.index, d.args, FALSE)

LEMMA AsFragmentIs ==
  ASSUME NEW d \in Dlt
  PROVE  /\ AsFragment(d) \in Frag /\ AsFragment(d).backend = NoName
         /\ AsFragment(d).id = d.id /\ AsFragment(d).index = d.index
         /\ NamesOf(AsFragment(d)) = (IF d.id = NoName THEN {} ELSE {d.id})
                                     \cup (IF d.index = 0 THEN {} ELSE {Index(d.index)})
<1>1. /\ AsFragment(d) \in Frag /\ AsFragment(d).backend = NoName
      /\ AsFragment(d).id = d.id /\ AsFragment(d).index = d.index
  BY DEF AsFragment, Fragment, Frag, Dlt
<1> QED BY <1>1 DEF NamesOf

\* A delta of a call that is there.
LEMMA MirrorsOld ==
  ASSUME NEW r, NEW ids \in Seq(Ident), Mirrors(r.agg, ids), r.deltas \in Seq(Dlt),
         NEW d \in Dlt, d.id = NoName, d.index \in 1 .. Len(ids)
  PROVE  /\ Mirrors(Apply(r, AsFragment(d), FALSE).agg, ids)
         /\ NoName = AsFragment(d).id
<1> DEFINE f == AsFragment(d)
           k == d.index
           s == Apply(r, f, FALSE)
<1>1. /\ f \in Frag /\ f.backend = NoName /\ f.id = NoName /\ f.index = k
      /\ NamesOf(f) = {Index(k)}
  BY AsFragmentIs
<1>2. /\ Formed(r.agg) /\ IdsOf(r.agg.calls) = ids
      /\ Index(k) \in DOMAIN r.agg.alias /\ r.agg.alias[Index(k)] = k
      /\ DOMAIN ids = 1 .. Len(ids)
  BY LenProperties DEF Mirrors
<1> HIDE DEF f
<1>3. Resolve(r.agg, f) = k
  BY <1>1, <1>2, ResolveIs
<1>4. k \in DOMAIN r.agg.calls
  BY <1>2 DEF IdsOf
<1>5. Formed(s.agg) /\ s.agg.alias = Known(r.agg.alias, f, k) /\ IdsOf(s.agg.calls) = ids
  <2>1. Resolve(r.agg, f) \in DOMAIN r.agg.calls /\ f.id \in {NoName, OldCall(r.agg, f, Resolve(r.agg, f)).id}
    BY <1>1, <1>3, <1>4
  <2>2. FALSE \in BOOLEAN
    OBVIOUS
  <2>3. /\ Formed(Apply(r, f, FALSE).agg)
        /\ Apply(r, f, FALSE).agg.alias = Known(r.agg.alias, f, Resolve(r.agg, f))
        /\ IdsOf(Apply(r, f, FALSE).agg.calls) = IdsOf(r.agg.calls)
    BY <1>1, <1>2, <2>1, <2>2, StepIs
  <2> QED BY <1>2, <1>3, <2>3
<1>6. /\ DOMAIN s.agg.alias = DOMAIN r.agg.alias
      /\ \A a \in DOMAIN r.agg.alias : s.agg.alias[a] = r.agg.alias[a]
  BY <1>1, <1>2, <1>5 DEF Known
<1> HIDE DEF s
<1>7. Mirrors(s.agg, ids)
  <2>1. /\ DOMAIN r.agg.alias = UNION {{ids[j], Index(j)} : j \in DOMAIN ids}
        /\ \A j \in DOMAIN ids : r.agg.alias[ids[j]] = j /\ r.agg.alias[Index(j)] = j
    BY DEF Mirrors
  <2>2. ASSUME NEW j \in DOMAIN ids PROVE s.agg.alias[ids[j]] = j /\ s.agg.alias[Index(j)] = j
    <3>1. ids[j] \in DOMAIN r.agg.alias /\ Index(j) \in DOMAIN r.agg.alias
      BY <2>1
    <3> QED BY <1>6, <2>1, <3>1
  <2> QED BY <1>5, <1>6, <2>1, <2>2 DEF Mirrors
<1> QED BY <1>1, <1>7 DEF s, f

\* A delta of the next call.
LEMMA MirrorsNew ==
  ASSUME NEW r, NEW ids \in Seq(Ident), Mirrors(r.agg, ids), r.deltas \in Seq(Dlt),
         NEW d \in Dlt, d.id \in Ident, \A i \in DOMAIN ids : ids[i] # d.id, d.index = Len(ids) + 1
  PROVE  /\ Mirrors(Apply(r, AsFragment(d), FALSE).agg, Append(ids, d.id))
         /\ AsFragment(d).id = OldCall(r.agg, AsFragment(d), Resolve(r.agg, AsFragment(d))).id
<1> DEFINE f == AsFragment(d)
           n == Len(ids)
           k == n + 1
           x == d.id
           s == Apply(r, f, FALSE)
           jds == Append(ids, x)
<1>1. /\ f \in Frag /\ f.backend = NoName /\ f.id = x /\ f.index = k /\ x # NoName
      /\ NamesOf(f) = {x, Index(k)} /\ k # 0
  <2>1. x # NoName
    BY NamesDiffer, Idents
  <2>2. k # 0
    BY LenProperties
  <2> QED BY <2>1, <2>2, AsFragmentIs
<1>2. /\ Formed(r.agg) /\ IdsOf(r.agg.calls) = ids /\ DOMAIN ids = 1 .. n /\ n \in Nat
      /\ DOMAIN r.agg.alias = UNION {{ids[i], Index(i)} : i \in 1 .. n}
      /\ \A i \in 1 .. n : r.agg.alias[ids[i]] = i /\ r.agg.alias[Index(i)] = i
  BY LenProperties DEF Mirrors
<1> HIDE DEF f
<1>3. x \notin DOMAIN r.agg.alias /\ Index(k) \notin DOMAIN r.agg.alias
  <2>1. ASSUME NEW i \in 1 .. n PROVE x # ids[i] /\ x # Index(i) /\ Index(k) # ids[i] /\ Index(k) # Index(i)
    <3>1. i \in Nat /\ k \in Nat /\ ids[i] \in Ident
      BY <1>2, ElementOfSeq
    <3>2. Index(i) \notin Ident /\ Index(k) \notin Ident /\ (Index(i) = Index(k) => i = k)
      BY <3>1, Idents, NamesDiffer
    <3> QED BY <1>2, <3>1, <3>2
  <2> QED BY <1>2, <2>1
<1>4. Len(r.agg.calls) = n /\ DOMAIN r.agg.calls = 1 .. n
  BY <1>2, FormedIs, IdsAre DEF Formed
<1>5. Resolve(r.agg, f) = k
  BY <1>1, <1>2, <1>3, <1>4, ResolveIs
<1>6. OldCall(r.agg, f, k).id = x
  <2>1. OldCall(r.agg, f, k) = NewCall(x)
    BY <1>1, <1>2, <1>4, OldCallIs
  <2> QED BY <2>1 DEF NewCall
<1>7. k \notin DOMAIN r.agg.calls
  BY <1>2, <1>4
<1> HIDE DEF k
<1>8. /\ Formed(s.agg) /\ s.agg.alias = Known(r.agg.alias, f, k)
      /\ IdsOf(s.agg.calls) = Append(IdsOf(r.agg.calls), OldCall(r.agg, f, k).id)
  <2>1. Resolve(r.agg, f) \notin DOMAIN r.agg.calls /\ f.id \in {NoName, OldCall(r.agg, f, Resolve(r.agg, f)).id}
    BY <1>1, <1>5, <1>6, <1>7
  <2>2. FALSE \in BOOLEAN
    OBVIOUS
  <2>3. /\ Formed(Apply(r, f, FALSE).agg)
        /\ Apply(r, f, FALSE).agg.alias = Known(r.agg.alias, f, Resolve(r.agg, f))
        /\ IdsOf(Apply(r, f, FALSE).agg.calls)
             = Append(IdsOf(r.agg.calls), OldCall(r.agg, f, Resolve(r.agg, f)).id)
    BY <1>1, <1>2, <2>1, <2>2, StepIs, ZenonT(40)
  <2> QED BY <1>5, <2>3
<1>9. IdsOf(s.agg.calls) = jds
  BY <1>2, <1>6, <1>8
<1>10. /\ DOMAIN s.agg.alias = DOMAIN r.agg.alias \cup {x, Index(k)}
       /\ s.agg.alias[x] = k /\ s.agg.alias[Index(k)] = k
       /\ \A a \in DOMAIN r.agg.alias : s.agg.alias[a] = r.agg.alias[a]
  BY <1>1, <1>3, <1>8 DEF Known
<1>11. /\ DOMAIN jds = 1 .. k /\ jds[k] = x /\ k = n + 1
       /\ \A i \in 1 .. n : jds[i] = ids[i]
  BY <1>2, Appended, LenProperties DEF k
<1> HIDE DEF s, jds, x
<1>12. DOMAIN s.agg.alias = UNION {{jds[i], Index(i)} : i \in 1 .. k}
  <2>1. \A i \in 1 .. k : i \in 1 .. n \/ i = k
    BY <1>2, <1>11
  <2>2. \A i \in 1 .. n : i \in 1 .. k
    BY <1>2, <1>11
  <2>3. k \in 1 .. k
    BY <1>2, <1>11
  <2> HIDE DEF n
  <2>4. ASSUME NEW a \in DOMAIN s.agg.alias PROVE \E i \in 1 .. k : a \in {jds[i], Index(i)}
    <3>1. CASE a \in DOMAIN r.agg.alias
      <4>1. PICK i \in 1 .. n : a \in {ids[i], Index(i)}
        BY <1>2, <3>1
      <4> QED BY <1>11, <2>2, <4>1
    <3>2. CASE a \in {x, Index(k)}
      BY <1>11, <2>3, <3>2
    <3> QED BY <1>10, <3>1, <3>2
  <2>5. ASSUME NEW i \in 1 .. k PROVE jds[i] \in DOMAIN s.agg.alias /\ Index(i) \in DOMAIN s.agg.alias
    BY <1>2, <1>10, <1>11, <2>1
  <2> DEFINE A == DOMAIN s.agg.alias
             B == UNION {{jds[i], Index(i)} : i \in 1 .. k}
  <2>6. \A a \in A : a \in B
    BY <2>4
  <2>7. \A a \in B : a \in A
    BY <2>5
  <2> HIDE DEF A, B
  <2>8. A = B
    BY <2>6, <2>7
  <2> QED BY <2>8 DEF A, B
<1>13. ASSUME NEW i \in 1 .. k PROVE s.agg.alias[jds[i]] = i /\ s.agg.alias[Index(i)] = i
  <2>1. CASE i = k
    BY <1>10, <1>11, <2>1
  <2>2. CASE i \in 1 .. n
    <3>1. ids[i] \in DOMAIN r.agg.alias /\ Index(i) \in DOMAIN r.agg.alias
      BY <1>2, <2>2
    <3>2. r.agg.alias[ids[i]] = i /\ r.agg.alias[Index(i)] = i /\ jds[i] = ids[i]
      BY <1>2, <1>11, <2>2
    <3> QED BY <1>10, <3>1, <3>2
  <2> QED BY <1>2, <1>11, <2>1, <2>2
<1>14. Mirrors(s.agg, jds)
  BY <1>8, <1>9, <1>11, <1>12, <1>13 DEF Mirrors
<1> QED BY <1>1, <1>5, <1>6, <1>14 DEF s, f, jds, x

LEMMA PassesStep ==
  ASSUME NEW m, NEW ds \in Seq(Dlt), NEW ids \in Seq(Ident), Passes(m, ds, ids), Distinct(ids),
         NEW j \in 1 .. Len(ds)
  PROVE  LET p == SubSeq(ids, 1, m[j - 1])
             q == SubSeq(ids, 1, m[j])
             d == ds[j]
         IN /\ d \in Dlt /\ p \in Seq(Ident) /\ Distinct(p)
            /\ \/ d.id = NoName /\ d.index \in 1 .. Len(p) /\ q = p
               \/ d.id \in Ident /\ (\A i \in DOMAIN p : p[i] # d.id) /\ d.index = Len(p) + 1 /\ q = Append(p, d.id)
<1> DEFINE a == m[j - 1]
           b == m[j]
           d == ds[j]
           n == Len(ids)
           p == SubSeq(ids, 1, a)
           q == SubSeq(ids, 1, b)
<1>1. n \in Nat /\ Len(ds) \in Nat /\ DOMAIN ids = 1 .. n /\ d \in Dlt /\ \A i \in 1 .. n : ids[i] \in Ident
  BY LenProperties, ElementOfSeq
<1>2. a \in 0 .. n /\ b \in 0 .. n
  <2>1. j \in 0 .. Len(ds) /\ j - 1 \in 0 .. Len(ds)
    BY <1>1
  <2> QED BY <2>1 DEF Passes
<1>3. \/ b = a /\ d.id = NoName /\ d.index \in 1 .. b
      \/ b = a + 1 /\ d.id = ids[b] /\ d.index = b
  BY DEF Passes
<1> HIDE DEF a, b, d
<1>4. p \in Seq(Ident) /\ Len(p) = a /\ DOMAIN p = 1 .. a /\ \A i \in 1 .. a : p[i] = ids[i]
  BY <1>1, <1>2
<1>4a. q \in Seq(Ident) /\ Len(q) = b /\ DOMAIN q = 1 .. b /\ \A i \in 1 .. b : q[i] = ids[i]
  BY <1>1, <1>2
<1>5. Distinct(p)
  <2>1. \A i \in 1 .. a : i \in 1 .. n
    BY <1>1, <1>2
  <2> HIDE DEF p
  <2> QED BY <1>1, <1>4, <2>1 DEF Distinct
<1>6. CASE b = a /\ d.id = NoName /\ d.index \in 1 .. b
  <2>1. p = q
    BY <1>6
  <2> QED BY <1>1, <1>4, <1>5, <1>6, <2>1 DEF a, b, d
<1>7. CASE b = a + 1 /\ d.id = ids[b] /\ d.index = b
  <2>1. b \in 1 .. n /\ \A i \in 1 .. a : i \in 1 .. n /\ i # b
    BY <1>1, <1>2, <1>7
  <2>2. d.id \in Ident
    BY <1>1, <1>7, <2>1
  <2>3. ASSUME NEW i \in 1 .. a PROVE p[i] # d.id
    BY <1>1, <1>4, <1>7, <2>1 DEF Distinct
  <2> HIDE DEF p, q
  <2>4. /\ Append(p, d.id) \in Seq(Ident) /\ Len(Append(p, d.id)) = a + 1
        /\ \A i \in 1 .. a : Append(p, d.id)[i] = p[i]
        /\ Append(p, d.id)[a + 1] = d.id
    BY <1>4, <2>2, Appended
  <2>4a. a \in Nat /\ b = a + 1
    BY <1>1, <1>2, <1>7
  <2>5. \A i \in 1 .. b : q[i] = Append(p, d.id)[i]
    <3>1. ASSUME NEW i \in 1 .. b PROVE q[i] = Append(p, d.id)[i]
      <4>1. CASE i \in 1 .. a
        BY <1>4, <1>4a, <2>4, <4>1
      <4>2. CASE i = b
        BY <1>4a, <1>7, <2>4, <4>2
      <4>3. i \in 1 .. a \/ i = b
        BY <2>4a
      <4> QED BY <4>1, <4>2, <4>3
    <3> QED BY <3>1
  <2>6. q = Append(p, d.id)
    BY <1>4a, <1>7, <2>4, <2>5, SeqEqual
  <2> QED BY <1>1, <1>4, <1>5, <1>7, <2>2, <2>3, <2>6 DEF a, b, d, p, q
<1> QED BY <1>3, <1>6, <1>7

\* A delta of a call or an item that is there, or of the next one.
Fits(ids, d) ==
  \/ d.id = NoName /\ d.index \in 1 .. Len(ids)
  \/ d.id \in Ident /\ (\A i \in DOMAIN ids : ids[i] # d.id) /\ d.index = Len(ids) + 1

With(ids, d) == IF d.id = NoName THEN ids ELSE Append(ids, d.id)

LEMMA PassesNext ==
  ASSUME NEW m, NEW ds \in Seq(Dlt), NEW ids \in Seq(Ident), Passes(m, ds, ids), Distinct(ids),
         NEW i \in Nat, i + 1 <= Len(ds)
  PROVE  /\ ds[i + 1] \in Dlt /\ SubSeq(ids, 1, m[i]) \in Seq(Ident)
         /\ Fits(SubSeq(ids, 1, m[i]), ds[i + 1])
         /\ SubSeq(ids, 1, m[i + 1]) = With(SubSeq(ids, 1, m[i]), ds[i + 1])
<1> DEFINE j == i + 1
           p == SubSeq(ids, 1, m[j - 1])
           q == SubSeq(ids, 1, m[j])
           d == ds[j]
<1>1. j \in 1 .. Len(ds) /\ j - 1 = i
  BY LenProperties
<1> HIDE DEF j
<1>2. /\ d \in Dlt /\ p \in Seq(Ident)
      /\ \/ d.id = NoName /\ d.index \in 1 .. Len(p) /\ q = p
         \/ d.id \in Ident /\ (\A k \in DOMAIN p : p[k] # d.id) /\ d.index = Len(p) + 1 /\ q = Append(p, d.id)
  BY <1>1, PassesStep, ZenonT(40)
<1> HIDE DEF p, q, d
<1>3. Fits(p, d) /\ q = With(p, d)
  BY <1>2, NamesDiffer, Idents DEF Fits, With
<1>4. j = i + 1
  BY DEF j
<1> QED BY <1>1, <1>2, <1>3, <1>4 DEF p, q, d

\* What the chat handler passes on, in the adapter's aggregator.
LEMMA AdapterIngest ==
  ASSUME NEW agg, NEW ids0, NEW ids \in Seq(Ident), Distinct(ids), Mirrors(agg, ids0),
         NEW ds \in Seq(Dlt), LeadsTo(ids0, ds, ids)
  PROVE  LET r == Ingest(agg, AsFragments(ds), FALSE)
         IN Mirrors(r.agg, ids) /\ r.deltas \in Seq(Dlt) /\ LeadsTo(ids0, r.deltas, ids)
<1> DEFINE n == Len(ds)
<1>1. n \in Nat /\ DOMAIN ds = 1 .. n /\ \A j \in 1 .. n : ds[j] \in Dlt
  BY LenProperties, ElementOfSeq
<1>2. PICK fs, message : fs = AsFragments(ds) /\ message = FALSE
  OBVIOUS
<1>2a. Len(fs) = n /\ \A j \in 1 .. n : fs[j] = AsFragment(ds[j])
  <2>1. fs = [j \in 1 .. n |-> AsFragment(ds[j])]
    BY <1>1, <1>2 DEF AsFragments, AsFragment
  <2>2. fs \in Seq(Frag)
    BY <1>1, <2>1, AsFragmentIs
  <2> QED BY <1>1, <2>1, <2>2
<1>2b. Len(fs) \in Nat
  BY <1>1, <1>2a
<1>2c. PICK after : IngestRun(after, agg, fs, message)
  BY <1>2b, IngestSteps
<1>3. /\ after[0] = [agg |-> agg, deltas |-> <<>>]
      /\ \A i \in 1 .. Len(fs) : after[i] = Apply(after[i - 1], fs[i], message)
      /\ Ingest(agg, fs, message) = after[Len(fs)]
  BY <1>2c DEF IngestRun
<1>4. PICK m : Passes(m, ds, ids) /\ ids0 = SubSeq(ids, 1, m[0])
  BY DEF LeadsTo
<1> DEFINE Pre(j) == SubSeq(ids, 1, m[j])
           Good(r, p) == Mirrors(r.agg, p) /\ r.deltas \in Seq(Dlt) /\ LeadsTo(ids0, r.deltas, p)
           S == {j \in Nat : j <= n => Good(after[j], Pre(j))}
<1>5. 0 \in S
  <2>1. ids0 \in Seq(Ident)
    BY IdsAre DEF Mirrors, Formed
  <2>2. LeadsTo(ids0, <<>>, ids0)
    BY <2>1, LeadsNowhere
  <2>3. after[0].agg = agg /\ after[0].deltas = <<>> /\ Pre(0) = ids0
    BY <1>3, <1>4
  <2> HIDE DEF Pre
  <2>4. Good(after[0], Pre(0))
    BY <2>2, <2>3
  <2> QED BY <2>4
<1>6. ASSUME NEW i \in Nat, i \in S PROVE i + 1 \in S
  <2> SUFFICES ASSUME i + 1 <= n PROVE Good(after[i + 1], Pre(i + 1))
    OBVIOUS
  <2> DEFINE j == i + 1
             p == Pre(i)
             q == Pre(j)
             d == ds[j]
             r == after[i]
  <2>1. j \in 1 .. n /\ i <= n /\ j - 1 = i
    BY <1>1
  <2>2. Good(r, p)
    BY <1>6, <2>1
  <2>3. after[j] = Apply(r, AsFragment(d), FALSE)
    BY <1>2, <1>2a, <1>3, <2>1
  <2>4. d \in Dlt /\ p \in Seq(Ident) /\ Fits(p, d) /\ q = With(p, d)
    BY <1>4, PassesNext
  <2> HIDE DEF j, p, q, d, r, Good, Pre
  <2>5. Mirrors(r.agg, p) /\ r.deltas \in Seq(Dlt) /\ LeadsTo(ids0, r.deltas, p)
    BY <2>2 DEF Good
  <2>6. /\ Mirrors(Apply(r, AsFragment(d), FALSE).agg, q)
        /\ AsFragment(d).id \in {NoName, OldCall(r.agg, AsFragment(d), Resolve(r.agg, AsFragment(d))).id}
    <3>0. NoName \notin Ident
      BY NamesDiffer, Idents
    <3>1. CASE d.id = NoName /\ d.index \in 1 .. Len(p)
      <4>1. q = p
        BY <2>4, <3>1 DEF With
      <4> QED BY <2>4, <2>5, <3>1, <4>1, MirrorsOld
    <3>2. CASE d.id \in Ident /\ (\A k \in DOMAIN p : p[k] # d.id) /\ d.index = Len(p) + 1
      <4>1. q = Append(p, d.id)
        BY <2>4, <3>0, <3>2 DEF With
      <4> QED BY <2>4, <2>5, <3>2, <4>1, MirrorsNew
    <3> QED BY <2>4, <3>1, <3>2 DEF Fits
  <2>7. /\ Formed(r.agg) /\ IdsOf(r.agg.calls) = p
        /\ IdsOf(Apply(r, AsFragment(d), FALSE).agg.calls) = q
        /\ AsFragment(d) \in Frag /\ AsFragment(d).backend = NoName
    BY <2>4, <2>5, <2>6, AsFragmentIs DEF Mirrors
  <2>8. /\ Apply(r, AsFragment(d), FALSE).deltas \in Seq(Dlt)
        /\ LeadsTo(ids0, Apply(r, AsFragment(d), FALSE).deltas, q)
    <3>1. FALSE \in BOOLEAN /\ LeadsTo(ids0, r.deltas, IdsOf(r.agg.calls))
      BY <2>5, <2>7
    <3>2. /\ Apply(r, AsFragment(d), FALSE).deltas \in Seq(Dlt)
          /\ LeadsTo(ids0, Apply(r, AsFragment(d), FALSE).deltas,
                     IdsOf(Apply(r, AsFragment(d), FALSE).agg.calls))
      BY <2>5, <2>6, <2>7, <3>1, StepLeads
    <3> QED BY <2>7, <3>2
  <2>9. Good(Apply(r, AsFragment(d), FALSE), q)
    BY <2>6, <2>8 DEF Good
  <2> QED BY <2>3, <2>9 DEF j, q
<1> HIDE DEF S, Good
<1>7. n \in S
  BY <1>1, <1>5, <1>6, SetInduction
<1>8. Good(after[n], Pre(n))
  BY <1>1, <1>7 DEF S
<1>9. Pre(n) = ids
  BY <1>4, LenProperties DEF Passes
<1> QED BY <1>2, <1>2a, <1>3, <1>8, <1>9 DEF Good

-----------------------------------------------------------------------------
(* The adapter's items.                                                     *)

LEMMA ItemIdsAre ==
  ASSUME NEW s \in Seq(Item)
  PROVE  /\ IdsOf(s) \in Seq(Ident) /\ Len(IdsOf(s)) = Len(s) /\ DOMAIN IdsOf(s) = 1 .. Len(s)
         /\ Len(s) \in Nat /\ DOMAIN s = 1 .. Len(s)
         /\ \A i \in 1 .. Len(s) : IdsOf(s)[i] = s[i].id /\ s[i] \in Item
<1>1. Len(s) \in Nat /\ DOMAIN s = 1 .. Len(s) /\ \A i \in 1 .. Len(s) : s[i] \in Item
  BY LenProperties, ElementOfSeq
<1>2. IdsOf(s) = [i \in 1 .. Len(s) |-> s[i].id]
  BY <1>1 DEF IdsOf
<1>3. \A i \in 1 .. Len(s) : s[i].id \in Ident
  BY <1>1 DEF Item
<1> QED BY <1>1, <1>2, <1>3

LEMMA RemainderIs ==
  ASSUME NEW last \in Args, NEW args \in Args
  PROVE  Remainder(last, args) \in Args
<1>1. Len(last) \in Nat /\ Len(args) \in Nat
  BY LenProperties DEF Args
<1>2. SubSeq(args, Len(last) + 1, Len(args)) \in Args
  BY <1>1 DEF Args
<1> QED BY <1>2 DEF Remainder

LEMMA ItemOfIs ==
  ASSUME NEW items, NEW id, NEW k
  PROVE  /\ (\A i \in DOMAIN items : items[i].id # id) => ItemOf(items, id, k) = k
         /\ \A j \in DOMAIN items :
              (\A i \in DOMAIN items : items[i].id = id <=> i = j) => ItemOf(items, id, k) = j
<1> DEFINE known == {i \in DOMAIN items : items[i].id = id}
<1>1. ItemOf(items, id, k) = IF known # {} THEN CHOOSE i \in known : TRUE ELSE k
  BY DEF ItemOf
<1>2. ASSUME \A i \in DOMAIN items : items[i].id # id PROVE ItemOf(items, id, k) = k
  BY <1>1, <1>2
<1>3. ASSUME NEW j \in DOMAIN items, \A i \in DOMAIN items : items[i].id = id <=> i = j
      PROVE  ItemOf(items, id, k) = j
  <2>1. known = {j}
    BY <1>3, SMTT(30)
  <2> QED BY <1>1, <2>1
<1> QED BY <1>2, <1>3

\* The item of a delta, and the part of its arguments that is new.
ItemAt(items, d) == IF d.index > Len(items) THEN NewItem(d.id) ELSE items[d.index]

RestOf(items, d) == IF d.args = NoArgs THEN <<>> ELSE Remainder(ItemAt(items, d).last, d.args)

AddedOf(d, id) == IF d.id = NoName THEN <<>> ELSE <<Event("added", id, <<>>)>>

ArgsOf(id, rest) == IF rest = <<>> THEN <<>> ELSE <<Event("args", id, rest)>>

LEMMA EmitDeltaIs ==
  ASSUME NEW r, r.items \in Seq(Item), NEW d \in Dlt, Fits(IdsOf(r.items), d)
  PROVE  LET item == ItemAt(r.items, d)
             rest == RestOf(r.items, d)
             s == EmitDelta(r, d)
         IN /\ item \in Item /\ rest \in Args
            /\ s.items \in Seq(Item)
            /\ s.items = Put(r.items, d.index, IF rest = <<>> THEN item ELSE [item EXCEPT !.last = d.args])
            /\ IdsOf(s.items) = With(IdsOf(r.items), d)
            /\ d.index \in DOMAIN IdsOf(s.items) /\ item.id = IdsOf(s.items)[d.index]
            /\ s.events = (r.events \o AddedOf(d, item.id)) \o ArgsOf(item.id, rest)
<1> DEFINE items == r.items
           n == Len(items)
           k == d.index
           item == ItemAt(items, d)
           rest == RestOf(items, d)
           new == IF rest = <<>> THEN item ELSE [item EXCEPT !.last = d.args]
           s == EmitDelta(r, d)
           ids == IdsOf(items)
<1>1. /\ ids \in Seq(Ident) /\ Len(ids) = n /\ DOMAIN ids = 1 .. n /\ n \in Nat /\ DOMAIN items = 1 .. n
      /\ \A i \in 1 .. n : ids[i] = items[i].id /\ items[i] \in Item
  BY ItemIdsAre
<1>2. /\ d.id = NoName => k \in 1 .. n
      /\ d.id # NoName => d.id \in Ident /\ k = n + 1 /\ \A i \in 1 .. n : items[i].id # d.id
  <2>1. NoName \notin Ident
    BY NamesDiffer, Idents
  <2> QED BY <1>1, <2>1 DEF Fits
<1>3. k \in 1 .. n + 1 /\ (k > n <=> d.id # NoName)
  BY <1>1, <1>2
<1>4. item \in Item
  <2>1. CASE d.id = NoName
    <3>1. item = items[k]
      BY <1>3, <2>1 DEF ItemAt
    <3> QED BY <1>1, <1>2, <2>1, <3>1
  <2>2. CASE d.id # NoName
    <3>1. item = NewItem(d.id)
      BY <1>3, <2>2 DEF ItemAt
    <3> QED BY <1>2, <2>2, <3>1, ArgsAreNot DEF NewItem, Item
  <2> QED BY <2>1, <2>2
<1>4a. item.id = IF d.id = NoName THEN ids[k] ELSE d.id
  <2>1. CASE d.id = NoName
    BY <1>1, <1>2, <1>3, <2>1 DEF ItemAt
  <2>2. CASE d.id # NoName
    BY <1>3, <2>2 DEF ItemAt, NewItem
  <2> QED BY <2>1, <2>2
<1>5. rest \in Args /\ (rest # <<>> => d.args \in Args)
  <2>1. d.args \in Args \cup {NoArgs} /\ item.last \in Args
    BY <1>4 DEF Dlt, Item
  <2> QED BY <2>1, ArgsAreNot, RemainderIs DEF RestOf
<1>6. ItemOf(items, d.id, k) = k
  <2>1. \A i \in DOMAIN items : items[i].id # d.id
    <3>1. CASE d.id = NoName
      <4>1. \A i \in 1 .. n : items[i].id \in Ident
        BY <1>1 DEF Item
      <4> QED BY <1>1, <3>1, <4>1, NamesDiffer, Idents
    <3>2. CASE d.id # NoName
      BY <1>1, <1>2, <3>2
    <3> QED BY <3>1, <3>2
  <2> QED BY <2>1, ItemOfIs
<1>7. s = WithRest(r, d, k, item, rest)
  <2>1. s = AtItem(r, d, k)
    BY <1>6 DEF EmitDelta
  <2>2. item = IF k > Len(r.items) THEN NewItem(d.id)
               ELSE IF d.id = NoName THEN r.items[k] ELSE [r.items[k] EXCEPT !.id = d.id]
    BY <1>3 DEF ItemAt
  <2>3. AtItem(r, d, k) = WithItem(r, d, k, item)
    BY <2>2 DEF AtItem
  <2>4. WithItem(r, d, k, item) = WithRest(r, d, k, item, rest)
    BY DEF WithItem, RestOf
  <2> QED BY <2>1, <2>3, <2>4
<1> HIDE DEF item, rest, s, ids
<1>8. /\ s.items = Put(items, k, new)
      /\ s.events = r.events
           \o (IF k > n THEN <<Event("added", item.id, <<>>)>> ELSE <<>>)
           \o (IF rest = <<>> THEN <<>> ELSE <<Event("args", item.id, rest)>>)
  BY <1>7 DEF WithRest, Put
<1>9. new \in Item /\ new.id = item.id
  BY <1>4, <1>5 DEF Item
<1> DEFINE m == IF k > n THEN k ELSE n
<1>10. /\ s.items \in Seq(Item) /\ Len(s.items) = m
       /\ s.items[k] = new
       /\ \A i \in 1 .. n : i # k => s.items[i] = items[i]
  <2>1. items \in Seq(Item) /\ k \in 1 .. Len(items) + 1 /\ new \in Item
    BY <1>3, <1>9
  <2> HIDE DEF new, k, items, n, m
  <2>2. /\ Put(items, k, new) \in Seq(Item)
        /\ Len(Put(items, k, new)) = IF k > Len(items) THEN k ELSE Len(items)
        /\ Put(items, k, new)[k] = new
        /\ \A i \in DOMAIN items : i \in DOMAIN Put(items, k, new) /\ (i # k => Put(items, k, new)[i] = items[i])
    <3>1. HasPut(Put(items, k, new), Item, items, k, new)
      BY <2>1, PutOf
    <3> QED BY <3>1 DEF HasPut
  <2> QED BY <1>1, <1>8, <2>2 DEF k, items, n, m
<1> HIDE DEF new
<1> DEFINE jds == IdsOf(s.items)
<1>11. /\ jds \in Seq(Ident) /\ Len(jds) = m /\ DOMAIN jds = 1 .. m
       /\ \A i \in 1 .. m : jds[i] = s.items[i].id
  BY <1>10, ItemIdsAre
<1> HIDE DEF jds
<1>12. k \in 1 .. m /\ jds[k] = item.id
  BY <1>1, <1>3, <1>9, <1>10, <1>11
<1>13. jds = With(ids, d)
  <2>1. CASE d.id = NoName
    <3>1. m = n
      BY <1>1, <1>2, <2>1
    <3>2. \A i \in 1 .. n : jds[i] = ids[i]
      BY <1>1, <1>4a, <1>10, <1>11, <1>12, <2>1, <3>1
    <3> QED BY <1>1, <1>11, <2>1, <3>1, <3>2, SeqEqual DEF With
  <2>2. CASE d.id # NoName
    <3>1. m = n + 1 /\ k = n + 1 /\ d.id \in Ident
      BY <1>1, <1>2, <2>2
    <3>2. /\ Append(ids, d.id) \in Seq(Ident) /\ Len(Append(ids, d.id)) = n + 1
          /\ \A i \in 1 .. n : Append(ids, d.id)[i] = ids[i]
          /\ Append(ids, d.id)[n + 1] = d.id
      BY <1>1, <3>1, Appended
    <3>3. \A i \in 1 .. m : jds[i] = Append(ids, d.id)[i]
      <4>1. ASSUME NEW i \in 1 .. m PROVE jds[i] = Append(ids, d.id)[i]
        <5>1. CASE i = k
          BY <1>4a, <1>12, <2>2, <3>1, <3>2, <5>1
        <5>2. CASE i # k
          <6>1. i \in 1 .. n
            BY <1>1, <3>1, <5>2
          <6> QED BY <1>1, <1>10, <1>11, <3>2, <5>2, <6>1
        <5> QED BY <5>1, <5>2
      <4> QED BY <4>1
    <3> QED BY <1>1, <1>11, <2>2, <3>1, <3>2, <3>3, SeqEqual DEF With
  <2> QED BY <2>1, <2>2
<1>14. s.events = (r.events \o AddedOf(d, item.id)) \o ArgsOf(item.id, rest)
  <2>1. AddedOf(d, item.id) = IF k > n THEN <<Event("added", item.id, <<>>)>> ELSE <<>>
    BY <1>3 DEF AddedOf
  <2> QED BY <1>8, <2>1 DEF ArgsOf
<1>15. k \in DOMAIN jds /\ item.id = jds[k]
  BY <1>11, <1>12
<1> QED BY <1>4, <1>5, <1>8, <1>10, <1>13, <1>14, <1>15, Zenon DEF item, rest, s, ids, jds, new

-----------------------------------------------------------------------------
(* Stories.                                                                 *)

LEMMA EventIs ==
  /\ \A kind \in Kinds, id \in Ident \cup {NoName}, args \in Args :
       /\ Event(kind, id, args) \in Ev /\ Event(kind, id, args).kind = kind
       /\ Event(kind, id, args).id = id /\ Event(kind, id, args).args = args
  /\ \A kind \in Kinds : Plain(kind) \in Ev /\ Plain(kind).kind = kind /\ Plain(kind).id = NoName
BY ArgsAreNot DEF Event, Plain, Ev

\* May is about the first n events alone.
LEMMA MaySame ==
  ASSUME NEW z, NEW y, NEW n \in Nat, NEW e, \A i \in 1 .. n : z[i] = y[i], May(z, n, e)
  PROVE  May(y, n, e)
<1>1. \A kind, id : Has(z, n, kind, id) <=> Has(y, n, kind, id)
  BY DEF Has
<1> QED BY <1>1 DEF May

LEMMA StoryOn ==
  ASSUME NEW z \in Seq(Ev), Story(z), NEW e \in Ev, May(z, Len(z), e)
  PROVE  Append(z, e) \in Seq(Ev) /\ Story(Append(z, e))
<1> DEFINE n == Len(z)
           y == Append(z, e)
<1>1. /\ y \in Seq(Ev) /\ Len(y) = n + 1 /\ n \in Nat /\ y[n + 1] = e
      /\ \A i \in 1 .. n : y[i] = z[i]
  BY Appended
<1>2. n # 0 /\ y # <<>>
  BY <1>1 DEF Story
<1> HIDE DEF y
<1>3. y[1].kind = "created"
  BY <1>1, <1>2 DEF Story
<1>4. ASSUME NEW i \in 1 .. Len(y) PROVE May(y, i - 1, y[i])
  <2>1. i - 1 \in Nat /\ \A j \in 1 .. i - 1 : z[j] = y[j]
    BY <1>1
  <2>2. CASE i \in 1 .. n
    <3>1. May(z, i - 1, z[i])
      BY <2>2 DEF Story
    <3> QED BY <1>1, <2>1, <2>2, <3>1, MaySame
  <2>3. CASE i = n + 1
    <3>1. i - 1 = n /\ y[i] = e
      BY <1>1, <2>3
    <3> QED BY <1>1, <2>1, <3>1, MaySame
  <2> QED BY <1>1, <2>2, <2>3
<1> QED BY <1>1, <1>2, <1>3, <1>4 DEF Story, y

LEMMA Joined ==
  ASSUME NEW S, NEW s \in Seq(S), NEW t \in Seq(S)
  PROVE  /\ s \o t \in Seq(S) /\ Len(s) \in Nat /\ Len(t) \in Nat /\ Len(s \o t) = Len(s) + Len(t)
         /\ \A i \in 1 .. Len(s) : (s \o t)[i] = s[i]
         /\ \A i \in Len(s) + 1 .. Len(s) + Len(t) : (s \o t)[i] = t[i - Len(s)]
BY LenProperties, ConcatProperties

LEMMA StoryBegins ==
  ASSUME NEW z \in Seq(Ev), NEW w \in Seq(Ev), z # <<>>, Story(z \o w)
  PROVE  Story(z)
<1> DEFINE y == z \o w
<1>1. /\ Len(z) \in Nat /\ Len(z) # 0 /\ Len(y) = Len(z) + Len(w) /\ Len(w) \in Nat
      /\ \A i \in 1 .. Len(z) : y[i] = z[i]
  BY Joined
<1>2. Story(y)
  OBVIOUS
<1> HIDE DEF y
<1>3. ASSUME NEW i \in 1 .. Len(z) PROVE May(z, i - 1, z[i])
  <2>1. i \in 1 .. Len(y) /\ i - 1 \in Nat /\ \A j \in 1 .. i - 1 : y[j] = z[j]
    BY <1>1
  <2>2. May(y, i - 1, z[i])
    BY <1>1, <1>2, <2>1 DEF Story
  <2> QED BY <2>1, <2>2, MaySame
<1> QED BY <1>1, <1>2, <1>3 DEF Story

\* Sequences of events.
LEMMA JoinedOn ==
  ASSUME NEW z \in Seq(Ev), NEW e \in Ev
  PROVE  /\ z \o <<>> = z /\ z \o <<e>> = Append(z, e) /\ <<e>> \in Seq(Ev)
         /\ Append(<<>>, e) = <<e>>
         /\ \A y \in Seq(Ev) : y \o Append(z, e) = Append(y \o z, e)
OBVIOUS

Joins(x, y, z) == (x \o y) \o z = x \o (y \o z)

LEMMA JoinedThree ==
  ASSUME NEW x \in Seq(Ev), NEW y \in Seq(Ev), NEW z \in Seq(Ev)
  PROVE  Joins(x, y, z)
BY DEF Joins

\* Until the adapter has finished, an item may be added, arguments of one that
\* was, or text.
LEMMA TellMay ==
  ASSUME NEW z \in Seq(Ev), NEW ids, Telling(z, ids), NEW e \in Ev,
         e.kind \in {"created", "text", "added", "args", "error", "DONE"}
  PROVE  May(z, Len(z), e) <=>
           /\ e.kind = "added" => ~Has(z, Len(z), "added", e.id)
           /\ e.kind = "args" => Has(z, Len(z), "added", e.id)
<1>1. Len(z) \in Nat /\ DOMAIN z = 1 .. Len(z)
  BY LenProperties
<1>2. \A i \in 1 .. Len(z) : z[i].kind \in {"created", "text", "added", "args", "error", "DONE"}
  BY <1>1 DEF Telling
<1>3. /\ \A i \in 1 .. Len(z) : z[i].kind \notin {"argsDone", "itemDone", "done", "end"}
      /\ \A id : ~Has(z, Len(z), "argsDone", id) /\ ~Has(z, Len(z), "itemDone", id)
  BY <1>2 DEF Has
<1> QED BY <1>3 DEF May

LEMMA TellingOn ==
  ASSUME NEW z \in Seq(Ev), NEW ids \in Seq(Ident), NEW jds \in Seq(Ident), Telling(z, ids), Story(z),
         NEW e \in Ev, e.kind \in {"created", "text", "added", "args", "error", "DONE"},
         May(z, Len(z), e),
         \A k \in DOMAIN ids : k \in DOMAIN jds /\ jds[k] = ids[k],
         \A k \in DOMAIN jds : k \in DOMAIN ids \/ (e.kind = "added" /\ e.id = jds[k]),
         e.kind = "added" => \E k \in DOMAIN jds : jds[k] = e.id
  PROVE  /\ z \o <<e>> \in Seq(Ev) /\ Story(z \o <<e>>) /\ Telling(z \o <<e>>, jds)
<1> DEFINE y == z \o <<e>>
           n == Len(z)
<1>1. y = Append(z, e)
  BY JoinedOn
<1>2. y \in Seq(Ev) /\ Story(y)
  BY <1>1, StoryOn
<1>3. /\ n \in Nat /\ DOMAIN z = 1 .. n /\ DOMAIN y = 1 .. n + 1 /\ Len(y) = n + 1
      /\ y[n + 1] = e /\ \A i \in 1 .. n : y[i] = z[i]
  BY <1>1, Appended, LenProperties
<1> HIDE DEF y, n
<1>4. \A i \in 1 .. n + 1 : i \in 1 .. n \/ i = n + 1
  BY <1>3
<1>5. \A i \in DOMAIN y : y[i].kind \in {"created", "text", "added", "args", "error", "DONE"}
  BY <1>3, <1>4 DEF Telling
<1>6. ASSUME NEW i \in DOMAIN y, y[i].kind = "added" PROVE \E k \in DOMAIN jds : jds[k] = y[i].id
  <2>1. CASE i \in 1 .. n
    <3>1. PICK k \in DOMAIN ids : ids[k] = z[i].id
      BY <1>3, <1>6, <2>1 DEF Telling
    <3> QED BY <1>3, <2>1, <3>1
  <2>2. CASE i = n + 1
    BY <1>3, <1>6, <2>2
  <2> QED BY <1>3, <1>4, <2>1, <2>2
<1>7. ASSUME NEW k \in DOMAIN jds PROVE Has(y, Len(y), "added", jds[k])
  <2>1. CASE k \in DOMAIN ids
    <3>1. Has(z, n, "added", ids[k])
      BY <2>1 DEF Telling, n
    <3>2. PICK i \in 1 .. n : z[i].kind = "added" /\ z[i].id = ids[k]
      BY <3>1 DEF Has
    <3>3. i \in 1 .. n + 1 /\ y[i].kind = "added" /\ y[i].id = jds[k]
      BY <1>3, <2>1, <3>2
    <3> QED BY <1>3, <3>3 DEF Has
  <2>2. CASE e.kind = "added" /\ e.id = jds[k]
    <3>1. n + 1 \in 1 .. n + 1
      BY <1>3
    <3> QED BY <1>3, <2>2, <3>1 DEF Has
  <2> QED BY <2>1, <2>2
<1>8. Telling(y, jds)
  BY <1>5, <1>6, <1>7 DEF Telling
<1> QED BY <1>2, <1>8 DEF y

LEMMA TellText ==
  ASSUME NEW z \in Seq(Ev), NEW ids \in Seq(Ident), Telling(z, ids), Story(z)
  PROVE  LET y == z \o <<Plain("text")>> IN y \in Seq(Ev) /\ Story(y) /\ Telling(y, ids)
<1> DEFINE e == Plain("text")
<1>1. e \in Ev /\ e.kind = "text"
  BY EventIs DEF Kinds
<1> HIDE DEF e
<1>2. May(z, Len(z), e)
  BY <1>1, TellMay
<1>3. z \o <<e>> \in Seq(Ev) /\ Story(z \o <<e>>) /\ Telling(z \o <<e>>, ids)
  BY <1>1, <1>2, TellingOn
<1> QED BY <1>3 DEF e

LEMMA TellArgs ==
  ASSUME NEW z \in Seq(Ev), NEW ids \in Seq(Ident), Telling(z, ids), Story(z),
         NEW k \in DOMAIN ids, NEW args \in Args
  PROVE  LET y == z \o <<Event("args", ids[k], args)>> IN y \in Seq(Ev) /\ Story(y) /\ Telling(y, ids)
<1> DEFINE e == Event("args", ids[k], args)
<1>0. ids[k] \in Ident
  BY ElementOfSeq, LenProperties
<1>1. e \in Ev /\ e.kind = "args" /\ e.id = ids[k]
  BY <1>0, EventIs DEF Kinds
<1> HIDE DEF e
<1>2. May(z, Len(z), e)
  <2>1. Has(z, Len(z), "added", e.id)
    BY <1>1 DEF Telling
  <2> QED BY <1>1, <2>1, TellMay
<1>3. z \o <<e>> \in Seq(Ev) /\ Story(z \o <<e>>) /\ Telling(z \o <<e>>, ids)
  BY <1>1, <1>2, TellingOn
<1> QED BY <1>3 DEF e

LEMMA TellAdded ==
  ASSUME NEW z \in Seq(Ev), NEW ids \in Seq(Ident), Telling(z, ids), Story(z),
         NEW x \in Ident, \A i \in DOMAIN ids : ids[i] # x
  PROVE  LET y == z \o <<Event("added", x, <<>>)>>
         IN y \in Seq(Ev) /\ Story(y) /\ Telling(y, Append(ids, x))
<1> DEFINE e == Event("added", x, <<>>)
           jds == Append(ids, x)
           n == Len(ids)
<1>1. e \in Ev /\ e.kind = "added" /\ e.id = x
  BY EventIs, ArgsAreNot DEF Kinds
<1>2. /\ jds \in Seq(Ident) /\ n \in Nat /\ DOMAIN ids = 1 .. n /\ DOMAIN jds = 1 .. n + 1
      /\ (\A i \in 1 .. n : jds[i] = ids[i]) /\ jds[n + 1] = x
  BY Appended, LenProperties
<1> HIDE DEF e, jds, n
<1>3. ~Has(z, Len(z), "added", x)
  <2>1. DOMAIN z = 1 .. Len(z)
    BY LenProperties
  <2> QED BY <2>1 DEF Has, Telling
<1>4. May(z, Len(z), e)
  BY <1>1, <1>3, TellMay
<1>5. \A k \in DOMAIN ids : k \in DOMAIN jds /\ jds[k] = ids[k]
  BY <1>2
<1>6. \A k \in DOMAIN jds : k \in DOMAIN ids \/ (e.kind = "added" /\ e.id = jds[k])
  BY <1>1, <1>2
<1>7. n + 1 \in DOMAIN jds /\ jds[n + 1] = e.id
  BY <1>1, <1>2
<1>8. z \o <<e>> \in Seq(Ev) /\ Story(z \o <<e>>) /\ Telling(z \o <<e>>, jds)
  BY <1>1, <1>2, <1>4, <1>5, <1>6, <1>7, TellingOn
<1> QED BY <1>8 DEF e, jds

Sound(z, ids) == z \in Seq(Ev) /\ Story(z) /\ Telling(z, ids)

\* The events of one delta.
LEMMA DeltaEvents ==
  ASSUME NEW d \in Dlt, NEW x \in Ident, NEW rest \in Args
  PROVE  /\ AddedOf(d, x) \in Seq(Ev) /\ ArgsOf(x, rest) \in Seq(Ev)
         /\ \A k \in DOMAIN AddedOf(d, x) : AddedOf(d, x)[k].kind \in {"added", "args"}
         /\ \A k \in DOMAIN ArgsOf(x, rest) : ArgsOf(x, rest)[k].kind \in {"added", "args"}
<1>1. /\ Event("added", x, <<>>) \in Ev /\ Event("added", x, <<>>).kind = "added"
      /\ Event("args", x, rest) \in Ev /\ Event("args", x, rest).kind = "args"
  BY EventIs, ArgsAreNot DEF Kinds
<1> QED BY <1>1 DEF AddedOf, ArgsOf

LEMMA TellDelta ==
  ASSUME NEW z, NEW ids \in Seq(Ident), Sound(z, ids), NEW d \in Dlt, Fits(ids, d), NEW rest \in Args,
         d.index \in DOMAIN With(ids, d)
  PROVE  Sound((z \o AddedOf(d, With(ids, d)[d.index])) \o ArgsOf(With(ids, d)[d.index], rest), With(ids, d))
<1> DEFINE jds == With(ids, d)
           x == jds[d.index]
           z1 == z \o AddedOf(d, x)
           y == z1 \o ArgsOf(x, rest)
<1>0. z \in Seq(Ev) /\ Story(z) /\ Telling(z, ids)
  BY DEF Sound
<1>1. jds \in Seq(Ident) /\ (d.id # NoName => x = d.id /\ d.id \in Ident)
  <2>1. CASE d.id = NoName
    BY <2>1 DEF With
  <2>2. CASE d.id # NoName
    <3>1. d.id \in Ident /\ d.index = Len(ids) + 1
      BY <2>2 DEF Fits
    <3> QED BY <2>2, <3>1, Appended DEF With
  <2> QED BY <2>1, <2>2
<1>2. x \in Ident
  BY <1>1, ElementOfSeq, LenProperties
<1>4. z1 \in Seq(Ev) /\ Story(z1) /\ Telling(z1, jds)
  <2>1. CASE d.id = NoName
    BY <1>0, <2>1, JoinedOn DEF AddedOf, With
  <2>2. CASE d.id # NoName
    <3>1. \A i \in DOMAIN ids : ids[i] # x
      BY <1>1, <2>2 DEF Fits
    <3>2. LET w == z \o <<Event("added", x, <<>>)>>
          IN w \in Seq(Ev) /\ Story(w) /\ Telling(w, Append(ids, x))
      BY <1>0, <1>2, <3>1, TellAdded
    <3> QED BY <1>1, <2>2, <3>2 DEF AddedOf, With
  <2> QED BY <2>1, <2>2
<1> HIDE DEF z1, jds
<1>5. y \in Seq(Ev) /\ Story(y) /\ Telling(y, jds)
  <2>1. CASE rest = <<>>
    BY <1>4, <2>1 DEF ArgsOf
  <2>2. CASE rest # <<>>
    <3>0. d.index \in DOMAIN jds
      BY DEF jds
    <3>1. LET w == z1 \o <<Event("args", jds[d.index], rest)>>
          IN w \in Seq(Ev) /\ Story(w) /\ Telling(w, jds)
      BY <1>1, <1>4, <3>0, TellArgs
    <3> QED BY <2>2, <3>1 DEF ArgsOf
  <2> QED BY <2>1, <2>2
<1> QED BY <1>5 DEF z1, jds, Sound

\* The kinds of the events of two sequences.
OfKinds(s, K) == s \in Seq(Ev) /\ \A i \in DOMAIN s : s[i].kind \in K

LEMMA KindsJoin ==
  ASSUME NEW K, NEW s, NEW t, OfKinds(s, K), OfKinds(t, K)
  PROVE  OfKinds(s \o t, K)
<1>0. /\ s \in Seq(Ev) /\ t \in Seq(Ev)
      /\ \A i \in DOMAIN s : s[i].kind \in K
      /\ \A i \in DOMAIN t : t[i].kind \in K
  BY DEF OfKinds
<1>1. /\ s \o t \in Seq(Ev) /\ Len(s) \in Nat /\ Len(t) \in Nat /\ DOMAIN (s \o t) = 1 .. Len(s) + Len(t)
      /\ DOMAIN s = 1 .. Len(s) /\ DOMAIN t = 1 .. Len(t)
      /\ \A i \in 1 .. Len(s) : (s \o t)[i] = s[i]
      /\ \A i \in Len(s) + 1 .. Len(s) + Len(t) : (s \o t)[i] = t[i - Len(s)]
  BY <1>0, Joined, LenProperties
<1>2. ASSUME NEW i \in 1 .. Len(s) + Len(t) PROVE (s \o t)[i].kind \in K
  <2>1. CASE i \in 1 .. Len(s)
    BY <1>0, <1>1, <2>1
  <2>2. CASE i \in Len(s) + 1 .. Len(s) + Len(t)
    <3>1. i - Len(s) \in 1 .. Len(t)
      BY <1>1, <2>2
    <3> QED BY <1>0, <1>1, <2>2, <3>1
  <2> QED BY <1>1, <2>1, <2>2
<1> QED BY <1>1, <1>2 DEF OfKinds

\* The events of all the deltas of a chunk.
LEMMA EmitTells ==
  ASSUME NEW z \in Seq(Ev), NEW ids0, Telling(z, ids0), Story(z),
         NEW items \in Seq(Item), IdsOf(items) = ids0,
         NEW ids \in Seq(Ident), Distinct(ids), NEW ds \in Seq(Dlt), LeadsTo(ids0, ds, ids)
  PROVE  LET r == EmitDeltas(items, ds)
             y == z \o r.events
         IN /\ r.items \in Seq(Item) /\ IdsOf(r.items) = ids
            /\ r.events \in Seq(Ev) /\ (\A i \in DOMAIN r.events : r.events[i].kind \in {"added", "args"})
            /\ y \in Seq(Ev) /\ Story(y) /\ Telling(y, ids)
<1> DEFINE n == Len(ds)
<1>1. n \in Nat
  BY LenProperties
<1>2. PICK after : EmitRun(after, items, ds)
  BY <1>1, EmitSteps
<1>3. /\ after[0] = [items |-> items, events |-> <<>>]
      /\ \A i \in 1 .. n : after[i] = EmitDelta(after[i - 1], ds[i])
      /\ EmitDeltas(items, ds) = after[n]
  BY <1>2 DEF EmitRun
<1>4. PICK m : Passes(m, ds, ids) /\ ids0 = SubSeq(ids, 1, m[0])
  BY DEF LeadsTo
<1> DEFINE Pre(j) == SubSeq(ids, 1, m[j])
           Good(r, p) == /\ r.items \in Seq(Item) /\ IdsOf(r.items) = p
                         /\ r.events \in Seq(Ev)
                         /\ \A i \in DOMAIN r.events : r.events[i].kind \in {"added", "args"}
                         /\ Story(z \o r.events) /\ Telling(z \o r.events, p)
           S == {j \in Nat : j <= n => Good(after[j], Pre(j))}
<1>5. 0 \in S
  <2>1. after[0].items = items /\ after[0].events = <<>> /\ Pre(0) = ids0
    BY <1>3, <1>4
  <2>2. z \o <<>> = z
    OBVIOUS
  <2> HIDE DEF Pre
  <2>3. Good(after[0], Pre(0))
    BY <2>1, <2>2
  <2> QED BY <2>3
<1>6. ASSUME NEW i \in Nat, i \in S PROVE i + 1 \in S
  <2> SUFFICES ASSUME i + 1 <= n PROVE Good(after[i + 1], Pre(i + 1))
    OBVIOUS
  <2> DEFINE j == i + 1
             p == Pre(i)
             q == Pre(j)
             d == ds[j]
             r == after[i]
             item == ItemAt(r.items, d)
             rest == RestOf(r.items, d)
             added == AddedOf(d, item.id)
             args == ArgsOf(item.id, rest)
             s == EmitDelta(r, d)
  <2>1. j \in 1 .. n /\ i <= n /\ j - 1 = i
    BY <1>1
  <2>2. Good(r, p)
    BY <1>6, <2>1
  <2>3. after[j] = s
    BY <1>3, <2>1
  <2>4. d \in Dlt /\ p \in Seq(Ident) /\ Fits(p, d) /\ q = With(p, d)
    BY <1>4, PassesNext
  <2> HIDE DEF j, p, q, d, r, Good, Pre
  <2>5. /\ r.items \in Seq(Item) /\ IdsOf(r.items) = p /\ r.events \in Seq(Ev)
        /\ \A k \in DOMAIN r.events : r.events[k].kind \in {"added", "args"}
        /\ Story(z \o r.events) /\ Telling(z \o r.events, p)
    BY <2>2 DEF Good
  <2>6. /\ item \in Item /\ rest \in Args
        /\ s.items \in Seq(Item)
        /\ IdsOf(s.items) = q
        /\ d.index \in DOMAIN q /\ item.id = q[d.index]
        /\ s.events = (r.events \o added) \o args
    <3>1. Fits(IdsOf(r.items), d)
      BY <2>4, <2>5
    <3>2. /\ item \in Item /\ rest \in Args
          /\ s.items \in Seq(Item)
          /\ IdsOf(s.items) = With(IdsOf(r.items), d)
          /\ d.index \in DOMAIN IdsOf(s.items) /\ item.id = IdsOf(s.items)[d.index]
          /\ s.events = (r.events \o added) \o args
      BY <2>4, <2>5, <3>1, EmitDeltaIs
    <3>3. IdsOf(s.items) = q
      BY <2>4, <2>5, <3>2
    <3> HIDE DEF s, item, rest, added, args
    <3> QED BY <3>2, <3>3
  <2>7. z \o r.events \in Seq(Ev)
    BY <2>5
  <2> DEFINE w == z \o r.events
             x == item.id
  <2> HIDE DEF s, item, rest, w, x
  <2>8. /\ (w \o added) \o args \in Seq(Ev) /\ Story((w \o added) \o args) /\ Telling((w \o added) \o args, q)
        /\ added \in Seq(Ev) /\ args \in Seq(Ev)
        /\ \A k \in DOMAIN added : added[k].kind \in {"added", "args"}
        /\ \A k \in DOMAIN args : args[k].kind \in {"added", "args"}
    <3>1. Sound(w, p) /\ d.index \in DOMAIN With(p, d) /\ x = With(p, d)[d.index]
      BY <2>4, <2>5, <2>6, <2>7 DEF w, Sound, x
    <3>2. Sound((w \o AddedOf(d, With(p, d)[d.index])) \o ArgsOf(With(p, d)[d.index], rest), With(p, d))
      BY <2>4, <2>6, <3>1, TellDelta
    <3>3. Sound((w \o AddedOf(d, x)) \o ArgsOf(x, rest), q)
      BY <2>4, <3>1, <3>2
    <3>4. x \in Ident
      BY <2>6 DEF Item, x
    <3>5. /\ AddedOf(d, x) \in Seq(Ev) /\ ArgsOf(x, rest) \in Seq(Ev)
          /\ \A k \in DOMAIN AddedOf(d, x) : AddedOf(d, x)[k].kind \in {"added", "args"}
          /\ \A k \in DOMAIN ArgsOf(x, rest) : ArgsOf(x, rest)[k].kind \in {"added", "args"}
      BY <2>4, <2>6, <3>4, DeltaEvents
    <3> QED BY <3>3, <3>5 DEF x, Sound
  <2> HIDE DEF added, args
  <2>9. z \o s.events = (w \o added) \o args
    <3>1. Joins(z, r.events, added)
      BY <2>5, <2>8, JoinedThree
    <3>2. r.events \o added \in Seq(Ev)
      BY <2>5, <2>8
    <3>3. Joins(z, r.events \o added, args)
      BY <2>8, <3>2, JoinedThree
    <3> QED BY <2>6, <3>1, <3>3 DEF w, Joins
  <2>10. s.events \in Seq(Ev)
    BY <2>5, <2>6, <2>8
  <2>11. \A k \in DOMAIN s.events : s.events[k].kind \in {"added", "args"}
    <3> DEFINE K == {"added", "args"}
    <3>1. OfKinds(r.events, K) /\ OfKinds(added, K) /\ OfKinds(args, K)
      BY <2>5, <2>8 DEF OfKinds
    <3> HIDE DEF K
    <3>2. OfKinds(r.events \o added, K)
      BY <3>1, KindsJoin
    <3>3. OfKinds((r.events \o added) \o args, K)
      BY <3>1, <3>2, KindsJoin
    <3> QED BY <2>6, <3>3 DEF OfKinds, K
  <2>12. Good(s, q)
    BY <2>6, <2>8, <2>9, <2>10, <2>11 DEF Good
  <2> QED BY <2>3, <2>12 DEF j, q
<1> HIDE DEF S, Good
<1>7. n \in S
  BY <1>1, <1>5, <1>6, SetInduction
<1>8. Good(after[n], Pre(n))
  BY <1>1, <1>7 DEF S
<1>9. Pre(n) = ids
  BY <1>4, LenProperties DEF Passes
<1>10. Good(EmitDeltas(items, ds), ids)
  BY <1>3, <1>8, <1>9
<1> QED BY <1>10 DEF Good

-----------------------------------------------------------------------------
(* An error goes past the adapter.                                          *)

LEMMA MayIs ==
  ASSUME NEW z, NEW n \in Nat,
         \A i \in 1 .. n : z[i].kind \in {"created", "text", "added", "args", "error", "DONE"},
         NEW e, e.kind \in {"created", "text", "added", "args", "error", "DONE"}
  PROVE  May(z, n, e) <=>
           /\ e.kind = "added" => ~Has(z, n, "added", e.id)
           /\ e.kind = "args" => Has(z, n, "added", e.id)
<1>1. /\ \A i \in 1 .. n : z[i].kind \notin {"argsDone", "itemDone", "done", "end"}
      /\ \A id : ~Has(z, n, "argsDone", id) /\ ~Has(z, n, "itemDone", id)
  BY DEF Has
<1> QED BY <1>1 DEF May

LEMMA RawBetween ==
  ASSUME NEW g \in Seq(Ev), g # <<>>, NEW c \in Seq(Ev), NEW ids, Sound(g \o c, ids),
         NEW e \in Ev, e.kind \in {"error", "DONE"}
  PROVE  Sound(Append(g, e) \o c, ids)
<1> DEFINE z == g \o c
           h == Append(g, e)
           y == h \o c
           G == Len(g)
           n == Len(z)
           K == {"created", "text", "added", "args", "error", "DONE"}
<1>0. z \in Seq(Ev) /\ Story(z) /\ Telling(z, ids)
  BY DEF Sound
<1>1. /\ h \in Seq(Ev) /\ Len(h) = G + 1 /\ h[G + 1] = e /\ \A i \in 1 .. G : h[i] = g[i]
  BY Appended
<1>2. /\ G \in Nat /\ G # 0 /\ Len(c) \in Nat /\ n = G + Len(c)
      /\ \A i \in 1 .. G : z[i] = g[i]
      /\ \A i \in G + 1 .. n : z[i] = c[i - G]
  BY Joined
<1> HIDE DEF h, z
<1>3. /\ y \in Seq(Ev) /\ Len(y) = n + 1
      /\ \A i \in 1 .. G + 1 : y[i] = h[i]
      /\ \A i \in G + 2 .. n + 1 : y[i] = c[i - (G + 1)]
  <2>1. /\ h \o c \in Seq(Ev) /\ Len(h \o c) = Len(h) + Len(c)
        /\ \A i \in 1 .. Len(h) : (h \o c)[i] = h[i]
        /\ \A i \in Len(h) + 1 .. Len(h) + Len(c) : (h \o c)[i] = c[i - Len(h)]
    <3>1. h \in Seq(Ev) /\ c \in Seq(Ev)
      BY <1>1
    <3> QED BY <3>1, Joined
  <2>2. Len(h) = G + 1 /\ Len(h) + Len(c) = n + 1 /\ (G + 1) + 1 = G + 2
    BY <1>1, <1>2
  <2> HIDE DEF G, n
  <2> QED BY <2>1, <2>2
<1>4. DOMAIN y = 1 .. n + 1 /\ DOMAIN z = 1 .. n /\ n \in Nat
  BY <1>0, <1>2, <1>3, LenProperties
<1> HIDE DEF y, G, n
<1>5. /\ \A i \in 1 .. G : y[i] = z[i]
      /\ y[G + 1] = e
      /\ \A i \in G + 2 .. n + 1 : i - 1 \in G + 1 .. n /\ y[i] = z[i - 1]
  <2>1. ASSUME NEW i \in 1 .. G PROVE y[i] = z[i]
    BY <1>1, <1>2, <1>3
  <2>2. y[G + 1] = e
    BY <1>1, <1>2, <1>3
  <2>3. ASSUME NEW i \in G + 2 .. n + 1 PROVE i - 1 \in G + 1 .. n /\ y[i] = z[i - 1]
    <3>1. i - 1 \in G + 1 .. n /\ (i - 1) - G = i - (G + 1)
      BY <1>2, <1>4
    <3> QED BY <1>2, <1>3, <3>1
  <2> QED BY <2>1, <2>2, <2>3
<1>6. G \in 1 .. n /\ \A i \in 1 .. n + 1 : i \in 1 .. G \/ i = G + 1 \/ i \in G + 2 .. n + 1
  BY <1>2, <1>4
<1>7. \A i \in 1 .. n : z[i].kind \in K
  BY <1>0, <1>4 DEF Telling
<1>8. ASSUME NEW i \in 1 .. n + 1 PROVE y[i].kind \in K
  <2>1. CASE i \in 1 .. G
    BY <1>2, <1>4, <1>5, <1>6, <1>7, <2>1
  <2>2. CASE i = G + 1
    BY <1>5, <2>2
  <2>3. CASE i \in G + 2 .. n + 1
    <3>1. i - 1 \in 1 .. n
      BY <1>2, <1>4, <1>5, <2>3
    <3> QED BY <1>5, <1>7, <2>3, <3>1
  <2> QED BY <1>6, <2>1, <2>2, <2>3
\* The same items have been added.
<1>9. ASSUME NEW i \in 0 .. G, NEW id PROVE Has(y, i, "added", id) <=> Has(z, i, "added", id)
  <2>1. \A j \in 1 .. i : y[j] = z[j]
    BY <1>2, <1>5
  <2> QED BY <2>1 DEF Has
<1>10. ASSUME NEW i \in G + 1 .. n + 1, NEW id PROVE Has(y, i, "added", id) <=> Has(z, i - 1, "added", id)
  <2>1. ASSUME Has(y, i, "added", id) PROVE Has(z, i - 1, "added", id)
    <3>1. PICK j \in 1 .. i : y[j].kind = "added" /\ y[j].id = id
      BY <2>1 DEF Has
    <3>2. j # G + 1
      BY <1>5, <3>1
    <3>3. CASE j \in 1 .. G
      <4>1. j \in 1 .. i - 1 /\ z[j] = y[j]
        BY <1>2, <1>4, <1>5, <3>3
      <4> QED BY <3>1, <4>1 DEF Has
    <3>4. CASE j \in G + 2 .. n + 1
      <4>1. j - 1 \in 1 .. i - 1 /\ z[j - 1] = y[j]
        BY <1>2, <1>4, <1>5, <3>4
      <4> QED BY <3>1, <4>1 DEF Has
    <3>5. j \in 1 .. n + 1
      BY <1>2, <1>4
    <3> QED BY <1>6, <3>2, <3>3, <3>4, <3>5
  <2>2. ASSUME Has(z, i - 1, "added", id) PROVE Has(y, i, "added", id)
    <3>1. PICK j \in 1 .. i - 1 : z[j].kind = "added" /\ z[j].id = id
      BY <2>2 DEF Has
    <3>2. CASE j \in 1 .. G
      <4>1. j \in 1 .. i /\ y[j] = z[j]
        BY <1>2, <1>4, <1>5, <3>2
      <4> QED BY <3>1, <4>1 DEF Has
    <3>3. CASE j \notin 1 .. G
      <4>1. j + 1 \in 1 .. i /\ j + 1 \in G + 2 .. n + 1 /\ (j + 1) - 1 = j
        BY <1>2, <1>4, <3>3
      <4>2. y[j + 1] = z[j]
        BY <1>5, <4>1
      <4> QED BY <3>1, <4>1, <4>2 DEF Has
    <3> QED BY <3>2, <3>3
  <2> QED BY <2>1, <2>2
<1>11. ASSUME NEW i \in 1 .. n + 1 PROVE May(y, i - 1, y[i])
  <2>1. /\ i - 1 \in Nat /\ \A j \in 1 .. i - 1 : j \in 1 .. n + 1
    BY <1>4
  <2>2. May(y, i - 1, y[i]) <=>
          /\ y[i].kind = "added" => ~Has(y, i - 1, "added", y[i].id)
          /\ y[i].kind = "args" => Has(y, i - 1, "added", y[i].id)
    BY <1>8, <2>1, MayIs
  <2>3. CASE i \in 1 .. G
    <3>1. i \in 1 .. n /\ i - 1 \in 0 .. G /\ y[i] = z[i]
      BY <1>2, <1>4, <1>5, <1>6, <2>3
    <3>2. May(z, i - 1, z[i])
      BY <1>0, <3>1 DEF Story, n
    <3>3. \A j \in 1 .. i - 1 : z[j].kind \in K
      <4>1. \A j \in 1 .. i - 1 : j \in 1 .. n
        BY <1>4, <3>1
      <4> QED BY <1>7, <4>1
    <3>4. /\ z[i].kind = "added" => ~Has(z, i - 1, "added", z[i].id)
          /\ z[i].kind = "args" => Has(z, i - 1, "added", z[i].id)
      BY <1>7, <2>1, <3>1, <3>2, <3>3, MayIs
    <3> QED BY <1>9, <2>2, <3>1, <3>4
  <2>4. CASE i = G + 1
    BY <1>5, <2>2, <2>4
  <2>5. CASE i \in G + 2 .. n + 1
    <3>1. /\ i - 1 \in 1 .. n /\ (i - 1) - 1 \in Nat /\ i - 1 \in G + 1 .. n + 1 /\ y[i] = z[i - 1]
          /\ \A j \in 1 .. (i - 1) - 1 : j \in 1 .. n
      BY <1>2, <1>4, <1>5, <2>5
    <3>2. May(z, (i - 1) - 1, z[i - 1])
      BY <1>0, <3>1 DEF Story, n
    <3>4. /\ z[i - 1].kind = "added" => ~Has(z, (i - 1) - 1, "added", z[i - 1].id)
          /\ z[i - 1].kind = "args" => Has(z, (i - 1) - 1, "added", z[i - 1].id)
      BY <1>7, <3>1, <3>2, MayIs
    <3> QED BY <1>10, <2>2, <3>1, <3>4
  <2> QED BY <1>6, <2>3, <2>4, <2>5
<1>12. Story(y)
  <2>1. Len(y) # 0 /\ 1 \in 1 .. G
    BY <1>2, <1>3, <1>4
  <2>2. y[1].kind = "created"
    BY <1>0, <1>5, <2>1 DEF Story
  <2>3. y # <<>>
    BY <2>1
  <2> QED BY <1>3, <1>11, <2>2, <2>3 DEF Story
<1>13. Telling(y, ids)
  <2>1. ASSUME NEW i \in 1 .. n + 1, y[i].kind = "added" PROVE \E k \in DOMAIN ids : ids[k] = y[i].id
    <3>1. CASE i \in 1 .. G
      <4>1. i \in 1 .. n /\ y[i] = z[i]
        BY <1>2, <1>4, <1>5, <1>6, <3>1
      <4> QED BY <1>0, <1>4, <2>1, <4>1 DEF Telling
    <3>2. CASE i \in G + 2 .. n + 1
      <4>1. i - 1 \in 1 .. n /\ y[i] = z[i - 1]
        BY <1>2, <1>4, <1>5, <3>2
      <4> QED BY <1>0, <1>4, <2>1, <4>1 DEF Telling
    <3> QED BY <1>5, <1>6, <2>1, <3>1, <3>2
  <2>2. ASSUME NEW k \in DOMAIN ids PROVE Has(y, Len(y), "added", ids[k])
    <3>1. Has(z, n, "added", ids[k])
      BY <1>0 DEF Telling, n
    <3>2. n + 1 \in G + 1 .. n + 1 /\ (n + 1) - 1 = n
      BY <1>2, <1>4, <1>6
    <3> QED BY <1>3, <1>10, <3>1, <3>2
  <2> QED BY <1>4, <1>8, <2>1, <2>2 DEF Telling
<1> QED BY <1>3, <1>12, <1>13 DEF Sound, y, h

-----------------------------------------------------------------------------
(* The end of the stream.                                                   *)

\* What finalizeToolCalls has to send of a call, and the events of its end.
RestOfCall(k) ==
  SubSeq(adapter.agg.calls[k].args, Len(adapter.items[k].last) + 1, Len(adapter.agg.calls[k].args))

EndOf(id, args) == <<Event("argsDone", id, args), Event("itemDone", id, args)>>

LEMMA MirrorsDistinct ==
  ASSUME NEW agg, NEW ids, Mirrors(agg, ids)
  PROVE  /\ Distinct(ids) /\ ids \in Seq(Ident) /\ Len(agg.calls) = Len(ids) /\ agg.calls \in Seq(Call)
         /\ \A k \in 1 .. Len(ids) : agg.calls[k].id = ids[k] /\ agg.calls[k] \in Call
<1>1. /\ agg.calls \in Seq(Call) /\ IdsOf(agg.calls) = ids
      /\ \A k \in DOMAIN ids : agg.alias[ids[k]] = k
  BY DEF Mirrors, Formed
<1>2. Distinct(ids)
  BY <1>1 DEF Distinct
<1>3. /\ IdsOf(agg.calls) \in Seq(Ident) /\ Len(IdsOf(agg.calls)) = Len(agg.calls)
      /\ \A k \in 1 .. Len(agg.calls) : IdsOf(agg.calls)[k] = agg.calls[k].id /\ agg.calls[k] \in Call
  BY <1>1, IdsAre
<1> QED BY <1>1, <1>2, <1>3

LEMMA CallEventsAre ==
  ASSUME NEW ids, Mirrors(adapter.agg, ids), adapter.items \in Seq(Item), IdsOf(adapter.items) = ids,
         NEW k \in 1 .. Len(ids)
  PROVE  /\ adapter.agg.calls[k].args \in Args /\ RestOfCall(k) \in Args /\ ids[k] \in Ident
         /\ CallEvents(k) = ArgsOf(ids[k], RestOfCall(k)) \o EndOf(ids[k], adapter.agg.calls[k].args)
<1> DEFINE call == adapter.agg.calls[k]
           items == adapter.items
           i == ItemOf(items, call.id, k)
           last == items[k].last
           rest == SubSeq(call.args, Len(last) + 1, Len(call.args))
<1>1. call \in Call /\ call.id = ids[k] /\ Distinct(ids)
  BY MirrorsDistinct
<1>2. /\ DOMAIN items = 1 .. Len(ids) /\ DOMAIN ids = 1 .. Len(ids)
      /\ \A j \in 1 .. Len(ids) : items[j] \in Item /\ items[j].id = ids[j] /\ ids[j] \in Ident
  <2>1. /\ IdsOf(items) \in Seq(Ident) /\ Len(IdsOf(items)) = Len(items) /\ DOMAIN IdsOf(items) = 1 .. Len(items)
        /\ DOMAIN items = 1 .. Len(items)
        /\ \A j \in 1 .. Len(items) : IdsOf(items)[j] = items[j].id /\ items[j] \in Item
    BY ItemIdsAre
  <2>2. \A j \in 1 .. Len(items) : items[j].id \in Ident
    BY <2>1 DEF Item
  <2> QED BY <2>1, <2>2
<1>3. i = k
  <2>1. \A j \in DOMAIN items : items[j].id = call.id <=> j = k
    BY <1>1, <1>2 DEF Distinct
  <2>2. k \in DOMAIN items
    BY <1>2
  <2> HIDE DEF items, call
  <2> QED BY <2>1, <2>2, ItemOfIs
<1>4. last \in Args /\ call.args \in Args
  BY <1>1, <1>2 DEF Item, Call
<1>5. rest \in Args
  <2>1. Len(last) \in Nat /\ Len(call.args) \in Nat
    BY <1>4, LenProperties DEF Args
  <2> HIDE DEF last, call
  <2> QED BY <1>4, <2>1 DEF Args
<1>6. CallEvents(k) = (IF i \in DOMAIN items THEN <<>> ELSE <<Event("added", call.id, <<>>)>>)
        \o (IF SubSeq(call.args, Len(IF i \in DOMAIN items THEN items[i].last ELSE <<>>) + 1, Len(call.args)) = <<>> THEN <<>>
            ELSE <<Event("args", call.id, SubSeq(call.args, Len(IF i \in DOMAIN items THEN items[i].last ELSE <<>>) + 1, Len(call.args)))>>)
        \o EndOf(call.id, call.args)
  BY DEF CallEvents, EndOf
<1>7. i \in DOMAIN items
  BY <1>2, <1>3
<1>8. RestOfCall(k) = rest
  BY DEF RestOfCall
<1> HIDE DEF call, items, i, last, rest
<1>9. CallEvents(k) = (<<>> \o ArgsOf(ids[k], rest)) \o EndOf(ids[k], call.args)
  BY <1>1, <1>3, <1>6, <1>7 DEF ArgsOf, last, rest
<1>10. ArgsOf(ids[k], rest) \in Seq(Ev)
  <2>1. Event("args", ids[k], rest) \in Ev
    BY <1>2, <1>5, EventIs DEF Kinds
  <2> QED BY <2>1 DEF ArgsOf
<1>11. <<>> \o ArgsOf(ids[k], rest) = ArgsOf(ids[k], rest)
  BY <1>10
<1> QED BY <1>2, <1>4, <1>5, <1>8, <1>9, <1>11 DEF call

\* The stream is closing: the first k items are done, the arguments of the first
\* a of them are.
Closing(z, ids, k, a) ==
  /\ z \in Seq(Ev) /\ Story(z)
  /\ \A i \in 1 .. Len(z) : z[i].kind \in Kinds \ {"completed", "done", "end"}
  /\ \A i \in 1 .. Len(z) : z[i].kind = "added" => \E j \in 1 .. Len(ids) : ids[j] = z[i].id
  /\ \A j \in 1 .. Len(ids) : Has(z, Len(z), "added", ids[j])
  /\ \A j \in 1 .. Len(ids) : Has(z, Len(z), "itemDone", ids[j]) <=> j <= k
  /\ \A j \in 1 .. Len(ids) : Has(z, Len(z), "argsDone", ids[j]) <=> j <= a

LEMMA HasOn ==
  ASSUME NEW z \in Seq(Ev), NEW e \in Ev, NEW kind, NEW id
  PROVE  Has(Append(z, e), Len(Append(z, e)), kind, id) <=>
           Has(z, Len(z), kind, id) \/ (e.kind = kind /\ e.id = id)
<1>1. /\ Len(Append(z, e)) = Len(z) + 1 /\ Len(z) \in Nat /\ Append(z, e)[Len(z) + 1] = e
      /\ \A i \in 1 .. Len(z) : Append(z, e)[i] = z[i]
  BY Appended
<1>2. \A i \in 1 .. Len(z) + 1 : i \in 1 .. Len(z) \/ i = Len(z) + 1
  BY <1>1
<1>3. \A i \in 1 .. Len(z) : i \in 1 .. Len(z) + 1
  BY <1>1
<1>4. Len(z) + 1 \in 1 .. Len(z) + 1
  BY <1>1
<1> QED BY <1>1, <1>2, <1>3, <1>4 DEF Has

\* One more event.
LEMMA ClosingOn ==
  ASSUME NEW z, NEW ids \in Seq(Ident), NEW k \in Nat, NEW a \in Nat, NEW m \in Nat, NEW b \in Nat,
         Closing(z, ids, k, a), Distinct(ids), NEW e \in Ev,
         e.kind \in {"text", "args", "textDone", "argsDone", "itemDone"}, May(z, Len(z), e),
         m = (IF e.kind = "itemDone" THEN k + 1 ELSE k), b = (IF e.kind = "argsDone" THEN a + 1 ELSE a),
         e.kind = "itemDone" => m \in 1 .. Len(ids) /\ e.id = ids[m],
         e.kind = "argsDone" => b \in 1 .. Len(ids) /\ e.id = ids[b]
  PROVE  Closing(Append(z, e), ids, m, b)
<1> DEFINE y == Append(z, e)
           n == Len(z)
<1>0. z \in Seq(Ev) /\ Story(z)
  BY DEF Closing
<1>1. /\ y \in Seq(Ev) /\ Story(y) /\ Len(y) = n + 1 /\ n \in Nat /\ y[n + 1] = e
      /\ \A i \in 1 .. n : y[i] = z[i]
  BY <1>0, Appended, StoryOn
<1>2. \A kind, id : Has(y, Len(y), kind, id) <=> Has(z, n, kind, id) \/ (e.kind = kind /\ e.id = id)
  BY <1>0, HasOn
<1>3. \A i \in 1 .. n + 1 : i \in 1 .. n \/ i = n + 1
  BY <1>1
<1>4. /\ \A i \in 1 .. n : z[i].kind \in Kinds \ {"completed", "done", "end"}
      /\ \A i \in 1 .. n : z[i].kind = "added" => \E j \in 1 .. Len(ids) : ids[j] = z[i].id
      /\ \A j \in 1 .. Len(ids) : Has(z, n, "added", ids[j])
      /\ \A j \in 1 .. Len(ids) : Has(z, n, "itemDone", ids[j]) <=> j <= k
      /\ \A j \in 1 .. Len(ids) : Has(z, n, "argsDone", ids[j]) <=> j <= a
  BY DEF Closing
<1> HIDE DEF y, n
<1>5. \A i \in 1 .. n + 1 : y[i].kind \in Kinds \ {"completed", "done", "end"}
  BY <1>1, <1>3, <1>4 DEF Kinds
<1>6. \A i \in 1 .. n + 1 : y[i].kind = "added" => \E j \in 1 .. Len(ids) : ids[j] = y[i].id
  BY <1>1, <1>3, <1>4
<1>7. \A j \in 1 .. Len(ids) : Has(y, Len(y), "added", ids[j])
  BY <1>2, <1>4
<1>8. Len(ids) \in Nat /\ DOMAIN ids = 1 .. Len(ids)
  BY LenProperties
<1>9. ASSUME NEW j \in 1 .. Len(ids)
      PROVE  Has(y, Len(y), "itemDone", ids[j]) <=> j <= m
  <2>1. CASE e.kind # "itemDone"
    BY <1>2, <1>4, <2>1
  <2>2. CASE e.kind = "itemDone"
    <3>1. e.id = ids[j] <=> j = m
      BY <1>8, <2>2 DEF Distinct
    <3>2. j <= m <=> j <= k \/ j = m
      BY <1>8, <2>2
    <3> QED BY <1>2, <1>4, <2>2, <3>1, <3>2
  <2> QED BY <2>1, <2>2
<1>9a. ASSUME NEW j \in 1 .. Len(ids)
       PROVE  Has(y, Len(y), "argsDone", ids[j]) <=> j <= b
  <2>1. CASE e.kind # "argsDone"
    BY <1>2, <1>4, <2>1
  <2>2. CASE e.kind = "argsDone"
    <3>1. e.id = ids[j] <=> j = b
      BY <1>8, <2>2 DEF Distinct
    <3>2. j <= b <=> j <= a \/ j = b
      BY <1>8, <2>2
    <3> QED BY <1>2, <1>4, <2>2, <3>1, <3>2
  <2> QED BY <2>1, <2>2
<1>10. Closing(y, ids, m, b)
  BY <1>1, <1>5, <1>6, <1>7, <1>9, <1>9a DEF Closing
<1> QED BY <1>10 DEF y

\* What may come while the stream closes.
LEMMA ClosingMay ==
  ASSUME NEW z, NEW ids \in Seq(Ident), NEW k \in Nat, NEW a \in Nat,
         Closing(z, ids, k, a), NEW e \in Ev,
         \/ e.kind \in {"text", "textDone"}
         \/ e.kind \in {"args", "argsDone"} /\ \E j \in 1 .. Len(ids) : e.id = ids[j] /\ k < j /\ a < j
         \/ e.kind = "itemDone" /\ \E j \in 1 .. Len(ids) : e.id = ids[j] /\ k < j /\ j <= a
  PROVE  May(z, Len(z), e)
<1>1. Len(z) \in Nat /\ Len(ids) \in Nat
  BY LenProperties DEF Closing
<1>2. \A j \in 1 .. Len(z) : z[j].kind # "end" /\ z[j].kind # "done"
  BY DEF Closing
<1>3. CASE e.kind \in {"text", "textDone"}
  BY <1>2, <1>3 DEF May
<1>4. CASE e.kind \in {"args", "argsDone"} /\ \E j \in 1 .. Len(ids) : e.id = ids[j] /\ k < j /\ a < j
  <2>1. PICK j \in 1 .. Len(ids) : e.id = ids[j] /\ k < j /\ a < j
    BY <1>4
  <2>2. /\ Has(z, Len(z), "added", e.id) /\ ~Has(z, Len(z), "itemDone", e.id)
        /\ ~Has(z, Len(z), "argsDone", e.id)
    BY <1>1, <2>1 DEF Closing
  <2> QED BY <1>2, <1>4, <2>2 DEF May
<1>5. CASE e.kind = "itemDone" /\ \E j \in 1 .. Len(ids) : e.id = ids[j] /\ k < j /\ j <= a
  <2>1. PICK j \in 1 .. Len(ids) : e.id = ids[j] /\ k < j /\ j <= a
    BY <1>5
  <2>2. /\ Has(z, Len(z), "added", e.id) /\ ~Has(z, Len(z), "itemDone", e.id)
        /\ Has(z, Len(z), "argsDone", e.id)
    BY <1>1, <2>1 DEF Closing
  <2> QED BY <1>2, <1>5, <2>2 DEF May
<1> QED BY <1>3, <1>4, <1>5

\* The first event of the end.
LEMMA ClosingStarts ==
  ASSUME NEW z, NEW ids \in Seq(Ident), Sound(z, ids)
  PROVE  Closing(z, ids, 0, 0)
<1>1. z \in Seq(Ev) /\ Story(z) /\ Telling(z, ids)
  BY DEF Sound
<1>2. DOMAIN z = 1 .. Len(z) /\ DOMAIN ids = 1 .. Len(ids) /\ Len(ids) \in Nat
  BY <1>1, LenProperties
<1>3. \A i \in 1 .. Len(z) : z[i].kind \in {"created", "text", "added", "args", "error", "DONE"}
  BY <1>1, <1>2 DEF Telling
<1>4. \A id : ~Has(z, Len(z), "itemDone", id) /\ ~Has(z, Len(z), "argsDone", id)
  BY <1>3 DEF Has
<1>5. \A i \in 1 .. Len(z) : z[i].kind \in Kinds \ {"completed", "done", "end"}
  BY <1>3 DEF Kinds
<1>6. \A j \in 1 .. Len(ids) : ~(j <= 0)
  BY <1>2
<1>7. /\ \A i \in 1 .. Len(z) : z[i].kind = "added" => \E j \in 1 .. Len(ids) : ids[j] = z[i].id
      /\ \A j \in 1 .. Len(ids) : Has(z, Len(z), "added", ids[j])
  BY <1>1, <1>2 DEF Telling
<1> QED BY <1>1, <1>4, <1>5, <1>6, <1>7 DEF Closing

LEMMA ClosingText ==
  ASSUME NEW z, NEW ids \in Seq(Ident), Distinct(ids), Closing(z, ids, 0, 0), NEW kind \in {"text", "textDone"}
  PROVE  Closing(z \o <<Plain(kind)>>, ids, 0, 0)
<1> DEFINE e == Plain(kind)
<1>1. e \in Ev /\ e.kind = kind
  BY EventIs DEF Kinds
<1> HIDE DEF e
<1>2. May(z, Len(z), e)
  BY <1>1, ClosingMay
<1>3. Closing(Append(z, e), ids, 0, 0)
  BY <1>1, <1>2, ClosingOn
<1>4. z \o <<e>> = Append(z, e)
  BY <1>1, JoinedOn DEF Closing
<1> QED BY <1>3, <1>4 DEF e

\* The events of the next call.
LEMMA ClosingCall ==
  ASSUME NEW z, NEW ids \in Seq(Ident), Distinct(ids), NEW k \in Nat, Closing(z, ids, k, k),
         NEW m, m = k + 1, m \in 1 .. Len(ids), NEW rest \in Args, NEW args \in Args
  PROVE  Closing((z \o ArgsOf(ids[m], rest)) \o EndOf(ids[m], args), ids, m, m)
<1> DEFINE x == ids[m]
           e1 == Event("args", x, rest)
           e2 == Event("argsDone", x, args)
           e3 == Event("itemDone", x, args)
           z1 == z \o ArgsOf(x, rest)
           z2 == Append(z1, e2)
           z3 == Append(z2, e3)
<1>1. x \in Ident /\ m \in Nat /\ k < m /\ m <= m
  BY ElementOfSeq, LenProperties
<1>2. /\ e1 \in Ev /\ e1.kind = "args" /\ e1.id = ids[m]
      /\ e2 \in Ev /\ e2.kind = "argsDone" /\ e2.id = ids[m]
      /\ e3 \in Ev /\ e3.kind = "itemDone" /\ e3.id = ids[m]
  BY <1>1, EventIs DEF Kinds
<1> HIDE DEF e1, e2, e3, z2, z3
<1>3. Closing(z1, ids, k, k)
  <2>1. CASE rest = <<>>
    <3>1. z \in Seq(Ev)
      BY DEF Closing
    <3>2. z1 = z
      BY <2>1, <3>1 DEF ArgsOf
    <3> QED BY <3>2
  <2>2. CASE rest # <<>>
    <3>1. z \in Seq(Ev)
      BY DEF Closing
    <3>2. z1 = Append(z, e1)
      BY <1>2, <2>2, <3>1, JoinedOn DEF ArgsOf, e1
    <3>3. May(z, Len(z), e1)
      BY <1>1, <1>2, ClosingMay
    <3>4. Closing(Append(z, e1), ids, k, k)
      BY <1>2, <3>3, ClosingOn
    <3> QED BY <3>2, <3>4
  <2> QED BY <2>1, <2>2
<1> HIDE DEF z1
<1>4. Closing(z2, ids, k, m)
  <2>1. May(z1, Len(z1), e2)
    BY <1>1, <1>2, <1>3, ClosingMay
  <2> QED BY <1>1, <1>2, <1>3, <2>1, ClosingOn DEF z2
<1>5. Closing(z3, ids, m, m)
  <2>1. May(z2, Len(z2), e3)
    BY <1>1, <1>2, <1>4, ClosingMay
  <2> QED BY <1>1, <1>2, <1>4, <2>1, ClosingOn DEF z3
<1>6. z1 \o EndOf(x, args) = z3
  <2>1. z1 \in Seq(Ev)
    BY <1>3 DEF Closing
  <2>2. EndOf(x, args) = <<e2, e3>>
    BY DEF EndOf, e2, e3
  <2> HIDE DEF x
  <2> QED BY <1>2, <2>1, <2>2 DEF z2, z3
<1> QED BY <1>5, <1>6 DEF z1

\* The end itself.
AllDone == <<Plain("completed"), Plain("done")>>

TheEnd == <<Plain("end")>>

Ends(z) == z \in Seq(Ev) /\ Story(z)

LEMMA ClosingEnds ==
  ASSUME NEW z, NEW ids \in Seq(Ident), Closing(z, ids, Len(ids), Len(ids))
  PROVE  Ends(z \o AllDone) /\ Ends((z \o AllDone) \o TheEnd)
<1> DEFINE e1 == Plain("completed")
           e2 == Plain("done")
           e3 == Plain("end")
           z1 == Append(z, e1)
           z2 == Append(z1, e2)
           z3 == Append(z2, e3)
<1>1. /\ e1 \in Ev /\ e1.kind = "completed"
      /\ e2 \in Ev /\ e2.kind = "done"
      /\ e3 \in Ev /\ e3.kind = "end"
  BY EventIs DEF Kinds
<1> HIDE DEF e1, e2, e3
<1>2. z \in Seq(Ev) /\ Story(z) /\ Len(z) \in Nat
  BY LenProperties DEF Closing
<1>3. \A i \in 1 .. Len(z) : z[i].kind \notin {"completed", "done", "end"}
  BY DEF Closing
<1>4. May(z, Len(z), e1)
  <2>1. ASSUME NEW i \in 1 .. Len(z), z[i].kind = "added" PROVE Has(z, Len(z), "itemDone", z[i].id)
    BY <2>1 DEF Closing
  <2> QED BY <1>1, <1>3, <2>1 DEF May
<1>5. /\ z1 \in Seq(Ev) /\ Story(z1) /\ Len(z1) = Len(z) + 1 /\ z1[Len(z) + 1] = e1
      /\ \A i \in 1 .. Len(z) : z1[i] = z[i]
  BY <1>1, <1>2, <1>4, StoryOn, Appended
<1> HIDE DEF z1
<1>6. \A i \in 1 .. Len(z1) : z1[i].kind \notin {"done", "end"}
  BY <1>1, <1>2, <1>3, <1>5
<1>7. May(z1, Len(z1), e2)
  BY <1>1, <1>6 DEF May
<1>8. /\ z2 \in Seq(Ev) /\ Story(z2) /\ Len(z2) = Len(z1) + 1 /\ z2[Len(z1) + 1] = e2
      /\ \A i \in 1 .. Len(z1) : z2[i] = z1[i]
  BY <1>1, <1>5, <1>7, StoryOn, Appended
<1> HIDE DEF z2
<1>9. \A i \in 1 .. Len(z2) : z2[i].kind # "end"
  BY <1>1, <1>2, <1>5, <1>6, <1>8
<1>10. Len(z1) + 1 \in 1 .. Len(z2)
  BY <1>2, <1>5, <1>8
<1>11. May(z2, Len(z2), e3)
  BY <1>1, <1>8, <1>9, <1>10 DEF May
<1>12. z3 \in Seq(Ev) /\ Story(z3)
  BY <1>1, <1>8, <1>11, StoryOn
<1>13. z \o <<e1, e2>> = z2
  BY <1>1, <1>2 DEF z1, z2
<1>14. z2 \o <<e3>> = z3
  BY <1>1, <1>8, JoinedOn
<1> QED BY <1>8, <1>12, <1>13, <1>14 DEF e1, e2, e3, AllDone, TheEnd, Ends

\* finalizeToolCalls.
LEMMA FinalTells ==
  ASSUME NEW z \in Seq(Ev), NEW ids, Mirrors(adapter.agg, ids),
         adapter.items \in Seq(Item), IdsOf(adapter.items) = ids
  PROVE  /\ FinalEvents \in Seq(Ev)
         /\ \A k \in DOMAIN FinalEvents : FinalEvents[k].kind \in {"args", "argsDone", "itemDone"}
         /\ Closing(z, ids, 0, 0) => Closing(z \o FinalEvents, ids, Len(ids), Len(ids))
<1> DEFINE n == Len(ids)
           K == {"args", "argsDone", "itemDone"}
<1>1. /\ Distinct(ids) /\ ids \in Seq(Ident) /\ Len(adapter.agg.calls) = n /\ n \in Nat
  BY MirrorsDistinct, LenProperties
<1>2. PICK after : FinalRun(after)
  BY <1>1, FinalSteps
<1>3. /\ after[0] = <<>> /\ FinalEvents = after[n]
      /\ \A i \in 1 .. n : after[i] = after[i - 1] \o CallEvents(i)
  BY <1>1, <1>2 DEF FinalRun
<1> DEFINE Good(w, i) == /\ w \in Seq(Ev) /\ \A k \in DOMAIN w : w[k].kind \in K
                         /\ Closing(z, ids, 0, 0) => Closing(z \o w, ids, i, i)
           S == {i \in Nat : i <= n => Good(after[i], i)}
<1>4. 0 \in S
  <2>1. z \o <<>> = z
    OBVIOUS
  <2>2. Good(<<>>, 0)
    BY <2>1
  <2> HIDE DEF Good
  <2> QED BY <1>3, <2>2
<1>5. ASSUME NEW i \in Nat, i \in S PROVE i + 1 \in S
  <2> SUFFICES ASSUME i + 1 <= n PROVE Good(after[i + 1], i + 1)
    OBVIOUS
  <2> DEFINE j == i + 1
             w == after[i]
             x == ids[j]
             args == adapter.agg.calls[j].args
             rest == RestOfCall(j)
             a == ArgsOf(x, rest)
             b == EndOf(x, args)
  <2>1. j \in 1 .. n /\ i <= n /\ j - 1 = i
    BY <1>1
  <2>2. Good(w, i)
    BY <1>5, <2>1
  <2>3. args \in Args /\ rest \in Args /\ x \in Ident /\ CallEvents(j) = a \o b
    <3> HIDE DEF j
    <3> QED BY <2>1, CallEventsAre
  <2>4. after[j] = w \o (a \o b)
    BY <1>3, <2>1, <2>3
  <2> HIDE DEF j, w, args, rest, Good, a, b
  <2>5. /\ w \in Seq(Ev) /\ (\A k \in DOMAIN w : w[k].kind \in K)
        /\ Closing(z, ids, 0, 0) => Closing(z \o w, ids, i, i)
    BY <2>2 DEF Good
  <2>6. /\ a \in Seq(Ev) /\ (\A k \in DOMAIN a : a[k].kind \in K)
        /\ b \in Seq(Ev) /\ (\A k \in DOMAIN b : b[k].kind \in K)
    <3>1. /\ Event("args", x, rest) \in Ev /\ Event("args", x, rest).kind = "args"
          /\ Event("argsDone", x, args) \in Ev /\ Event("argsDone", x, args).kind = "argsDone"
          /\ Event("itemDone", x, args) \in Ev /\ Event("itemDone", x, args).kind = "itemDone"
      BY <2>3, EventIs DEF Kinds
    <3> QED BY <3>1 DEF a, b, ArgsOf, EndOf
  <2>6a. OfKinds(w, K) /\ OfKinds(a, K) /\ OfKinds(b, K)
    BY <2>5, <2>6 DEF OfKinds
  <2> HIDE DEF K
  <2>7. OfKinds(a \o b, K)
    BY <2>6a, KindsJoin
  <2>7a. OfKinds(w \o (a \o b), K)
    BY <2>6a, <2>7, KindsJoin
  <2>7b. a \o b \in Seq(Ev)
    BY <2>6
  <2>8. w \o (a \o b) \in Seq(Ev) /\ (\A k \in DOMAIN (w \o (a \o b)) : (w \o (a \o b))[k].kind \in K)
    BY <2>7a DEF OfKinds
  <2>9. ASSUME Closing(z, ids, 0, 0) PROVE Closing(z \o (w \o (a \o b)), ids, j, j)
    <3>1. Closing((z \o w) \o a \o b, ids, j, j)
      <4>1. Closing(z \o w, ids, i, i) /\ j = i + 1
        BY <2>5, <2>9 DEF j
      <4> QED BY <1>1, <2>1, <2>3, <4>1, ClosingCall DEF a, b
    <3>2. z \o w \in Seq(Ev)
      BY <2>5
    <3>3. Joins(z \o w, a, b)
      BY <2>6, <3>2, JoinedThree
    <3>4. Joins(z, w, a \o b)
      BY <2>5, <2>7b, JoinedThree
    <3> QED BY <3>1, <3>3, <3>4 DEF Joins
  <2>10. Good(w \o (a \o b), j)
    BY <2>8, <2>9 DEF Good
  <2> QED BY <2>4, <2>10 DEF j
<1> HIDE DEF S, Good
<1>6. n \in S
  BY <1>1, <1>4, <1>5, SetInduction
<1>7. Good(FinalEvents, n)
  BY <1>1, <1>3, <1>6 DEF S
<1> QED BY <1>7 DEF Good

\* What the chain gains, behind what was given.
Flat(g, c, t, f, d, e) ==
  ((((g \o c) \o t) \o f) \o d) \o e = g \o ((((c \o t) \o f) \o d) \o e)

LEMMA JoinedSix ==
  ASSUME NEW g \in Seq(Ev), NEW c \in Seq(Ev), NEW t \in Seq(Ev), NEW f \in Seq(Ev),
         NEW d \in Seq(Ev), NEW e \in Seq(Ev)
  PROVE  Flat(g, c, t, f, d, e)
<1> DEFINE q1 == c \o t
           q2 == q1 \o f
           q3 == q2 \o d
<1>0. q1 \in Seq(Ev)
  OBVIOUS
<1> HIDE DEF q1
<1>0a. q2 \in Seq(Ev)
  BY <1>0
<1> HIDE DEF q2
<1>0b. q3 \in Seq(Ev)
  BY <1>0a
<1> HIDE DEF q3
<1>1. Joins(g, c, t) /\ Joins(g, q1, f)
  BY <1>0, JoinedThree
<1>2. Joins(g, q2, d) /\ Joins(g, q3, e)
  BY <1>0a, <1>0b, JoinedThree
<1> USE DEF Joins
<1>3. (g \o c) \o t = g \o q1
  BY <1>1 DEF q1
<1>4. (g \o q1) \o f = g \o q2 /\ (g \o q2) \o d = g \o q3 /\ (g \o q3) \o e = g \o (q3 \o e)
  BY <1>1, <1>2 DEF q2, q3
<1> QED BY <1>3, <1>4 DEF q1, q2, q3, Flat

\* All of the end, with and without the "end" of the chain.
LEMMA ClosesAll ==
  ASSUME NEW g \in Seq(Ev), NEW c \in Seq(Ev), NEW f \in Seq(Ev), NEW ids \in Seq(Ident), Distinct(ids),
         NEW t \in Seq(Ev), t = <<Plain("textDone")>>, NEW e \in Seq(Ev), e = <<>> \/ e = TheEnd,
         Sound(g \o c, ids),
         Closing((g \o c) \o t, ids, 0, 0) => Closing(((g \o c) \o t) \o f, ids, Len(ids), Len(ids))
  PROVE  Story(g \o ((((c \o t) \o f) \o AllDone) \o e))
<1> DEFINE z == g \o c
           w == (z \o t) \o f
<1>1. Closing(z, ids, 0, 0)
  BY ClosingStarts
<1>2. Closing(z \o t, ids, 0, 0)
  BY <1>1, ClosingText
<1>3. Closing(w, ids, Len(ids), Len(ids))
  BY <1>2
<1> DEFINE d == AllDone
<1>4. d \in Seq(Ev)
  BY EventIs DEF Kinds, AllDone
<1>5. g \o ((((c \o t) \o f) \o d) \o e) = (w \o d) \o e
  <2>1. Flat(g, c, t, f, d, e)
    <3> HIDE DEF d
    <3> QED BY <1>4, JoinedSix
  <2> QED BY <2>1 DEF Flat
<1> HIDE DEF w, z
<1>6. Ends(w \o d) /\ Ends((w \o d) \o TheEnd)
  BY <1>3, ClosingEnds
<1> HIDE DEF d
<1>7. CASE e = <<>>
  <2>1. w \o d \in Seq(Ev) /\ Story(w \o d)
    BY <1>6 DEF Ends
  <2>2. (w \o d) \o e = w \o d
    BY <1>7, <2>1
  <2> QED BY <1>5, <2>1, <2>2 DEF d
<1>8. CASE e = TheEnd
  <2>1. Story((w \o d) \o e)
    BY <1>6, <1>8 DEF Ends
  <2> QED BY <1>5, <2>1 DEF d
<1> QED BY <1>7, <1>8

\* onDone, behind what was given and what waits.
LEMMA OnDoneTells ==
  ASSUME NEW g \in Seq(Ev), NEW ids, Mirrors(adapter.agg, ids),
         adapter.items \in Seq(Item), IdsOf(adapter.items) = ids,
         NEW o, "chain" \in DOMAIN o, o.chain \in Seq(Ev), \A i \in DOMAIN o.chain : Typed(o.chain[i])
  PROVE  LET c == OnDone(o).chain
         IN /\ c \in Seq(Ev) /\ \A i \in DOMAIN c : Typed(c[i])
            /\ Sound(g \o o.chain, ids) => Story(g \o c)
            /\ OnDone(o) = [o EXCEPT !.chain = c]
<1> DEFINE c0 == o.chain
           t == <<Plain("textDone")>>
           f == FinalEvents
           d == AllDone
           e == IF o.ended THEN <<>> ELSE TheEnd
           z == g \o c0
           K == Kinds \ {"error", "DONE"}
           c == OnDone(o).chain
<1>1. OnDone(o) = [o EXCEPT !.chain = c0 \o t \o f \o d \o e]
  BY DEF OnDone, AllDone, TheEnd
<1>1a. c = c0 \o t \o f \o d \o e /\ OnDone(o) = [o EXCEPT !.chain = c]
  BY <1>1
<1>2. /\ t \in Seq(Ev) /\ d \in Seq(Ev) /\ e \in Seq(Ev)
      /\ \A i \in DOMAIN t : t[i].kind \in K
      /\ \A i \in DOMAIN d : d[i].kind \in K
      /\ \A i \in DOMAIN e : e[i].kind \in K
  BY EventIs DEF Kinds, AllDone, TheEnd
<1>3. /\ f \in Seq(Ev) /\ \A i \in DOMAIN f : f[i].kind \in K
  <2>1. /\ f \in Seq(Ev) /\ \A i \in DOMAIN f : f[i].kind \in {"args", "argsDone", "itemDone"}
    BY FinalTells
  <2> QED BY <2>1 DEF Kinds
<1>4. c0 \in Seq(Ev) /\ \A i \in DOMAIN c0 : c0[i].kind \in K
  <2>1. \A i \in DOMAIN c0 : c0[i] \in Ev
    BY ElementOfSeq, LenProperties
  <2> QED BY <2>1 DEF Typed, Ev
<1>5. Distinct(ids) /\ ids \in Seq(Ident)
  BY MirrorsDistinct
<1> HIDE DEF t, f, d, e, c0, c
<1>6. c \in Seq(Ev) /\ \A i \in DOMAIN c : c[i].kind \in K
  <2>0. OfKinds(c0, K) /\ OfKinds(t, K) /\ OfKinds(f, K) /\ OfKinds(d, K) /\ OfKinds(e, K)
    BY <1>2, <1>3, <1>4 DEF OfKinds
  <2> HIDE DEF K
  <2>1. OfKinds(c0 \o t, K)
    BY <2>0, KindsJoin
  <2>2. OfKinds(c0 \o t \o f, K)
    BY <2>0, <2>1, KindsJoin
  <2>3. OfKinds(c0 \o t \o f \o d, K)
    BY <2>0, <2>2, KindsJoin
  <2>3a. OfKinds(c0 \o t \o f \o d \o e, K)
    BY <2>0, <2>3, KindsJoin
  <2>4. /\ c0 \o t \o f \o d \o e \in Seq(Ev)
        /\ \A i \in DOMAIN (c0 \o t \o f \o d \o e) : (c0 \o t \o f \o d \o e)[i].kind \in K
    BY <2>3a DEF OfKinds
  <2> QED BY <1>1a, <2>4
<1>7. ASSUME Sound(z, ids) PROVE Story(g \o c)
  <2>1. e = <<>> \/ e = TheEnd
    BY DEF e
  <2>2. t = <<Plain("textDone")>>
    BY DEF t
  <2>3. ASSUME Closing(z \o t, ids, 0, 0) PROVE Closing((z \o t) \o f, ids, Len(ids), Len(ids))
    <3>1. z \o t \in Seq(Ev)
      BY <2>3 DEF Closing
    <3> QED BY <2>3, <3>1, FinalTells DEF f
  <2>4. Story(g \o ((((c0 \o t) \o f) \o AllDone) \o e))
    BY <1>2, <1>3, <1>4, <1>5, <1>7, <2>1, <2>2, <2>3, ClosesAll
  <2> QED BY <1>1a, <2>4 DEF d
<1>8. \A i \in DOMAIN c : Typed(c[i])
  BY <1>6 DEF Typed
<1> QED BY <1>1a, <1>6, <1>7, <1>8 DEF c0, c

-----------------------------------------------------------------------------
(* The queue.                                                               *)

LEMMA HeadAndTail ==
  ASSUME NEW S, NEW s \in Seq(S), s # <<>>
  PROVE  /\ Head(s) \in S /\ Tail(s) \in Seq(S) /\ Len(s) \in Nat /\ Len(s) >= 1
         /\ Len(Tail(s)) = Len(s) - 1 /\ Head(s) = s[1]
         /\ \A i \in 1 .. Len(s) - 1 : Tail(s)[i] = s[i + 1]
<1>1. Head(s) \in S /\ Tail(s) \in Seq(S) /\ Len(Tail(s)) = Len(s) - 1
  BY HeadTailProperties
<1>2. Len(s) \in Nat /\ Len(s) # 0
  BY LenProperties, EmptySeq
<1> QED BY <1>1, <1>2

\* An event goes from the queue to the wire, or from the chain to the queue.
LEMMA MovesOn ==
  ASSUME NEW w \in Seq(Ev), NEW q \in Seq(Ev), q # <<>>
  PROVE  Append(w, Head(q)) \o Tail(q) = w \o q
<1> DEFINE e == Head(q)
           t == Tail(q)
           y == Append(w, e)
           a == y \o t
           b == w \o q
<1>1. /\ e \in Ev /\ t \in Seq(Ev) /\ Len(q) \in Nat /\ Len(q) >= 1 /\ Len(t) = Len(q) - 1 /\ e = q[1]
      /\ \A i \in 1 .. Len(q) - 1 : t[i] = q[i + 1]
  BY HeadAndTail
<1> HIDE DEF e, t
<1>2. /\ y \in Seq(Ev) /\ Len(y) = Len(w) + 1 /\ Len(w) \in Nat /\ y[Len(w) + 1] = e
      /\ \A i \in 1 .. Len(w) : y[i] = w[i]
  BY <1>1, Appended
<1> HIDE DEF y
<1>3. /\ a \in Seq(Ev) /\ Len(a) = Len(y) + Len(t)
      /\ \A i \in 1 .. Len(y) : a[i] = y[i]
      /\ \A i \in Len(y) + 1 .. Len(y) + Len(t) : a[i] = t[i - Len(y)]
  <2>1. y \in Seq(Ev) /\ t \in Seq(Ev)
    BY <1>1, <1>2
  <2> QED BY <2>1, Joined
<1>4. /\ b \in Seq(Ev) /\ Len(b) = Len(w) + Len(q)
      /\ \A i \in 1 .. Len(w) : b[i] = w[i]
      /\ \A i \in Len(w) + 1 .. Len(w) + Len(q) : b[i] = q[i - Len(w)]
  BY Joined
<1> HIDE DEF a, b
<1>5. Len(a) = Len(b) /\ Len(a) \in Nat
  BY <1>1, <1>2, <1>3, <1>4
<1>6. ASSUME NEW i \in 1 .. Len(a) PROVE a[i] = b[i]
  <2>1. CASE i \in 1 .. Len(w)
    <3>1. i \in 1 .. Len(y)
      BY <1>2, <2>1
    <3> QED BY <1>2, <1>3, <1>4, <2>1, <3>1
  <2>2. CASE i = Len(w) + 1
    <3>1. i \in 1 .. Len(y) /\ i \in Len(w) + 1 .. Len(w) + Len(q) /\ i - Len(w) = 1
      BY <1>1, <1>2, <2>2
    <3> QED BY <1>1, <1>2, <1>3, <1>4, <2>2, <3>1
  <2>3. CASE i \in Len(w) + 2 .. Len(w) + Len(q)
    <3> DEFINE j == i - Len(y)
    <3>1. /\ i \in Len(y) + 1 .. Len(y) + Len(t) /\ i \in Len(w) + 1 .. Len(w) + Len(q)
          /\ j \in 1 .. Len(q) - 1 /\ i - Len(w) = j + 1
      BY <1>1, <1>2, <2>3
    <3>2. a[i] = t[j] /\ b[i] = q[i - Len(w)]
      BY <1>3, <1>4, <3>1
    <3>3. t[j] = q[j + 1]
      BY <1>1, <3>1
    <3> QED BY <3>1, <3>2, <3>3
  <2> QED BY <1>1, <1>2, <1>3, <2>1, <2>2, <2>3
<1>7. DOMAIN a = 1 .. Len(a) /\ DOMAIN b = 1 .. Len(b)
  BY <1>3, <1>4, LenProperties
<1>8. a = b
  BY <1>3, <1>4, <1>5, <1>6, SeqEqual
<1> QED BY <1>8 DEF a, b, y, e, t

\* The first of what waits in the chain is told next.
LEMMA ChainOn ==
  ASSUME NEW g \in Seq(Ev), NEW c \in Seq(Ev), c # <<>>
  PROVE  Append(g, Head(c)) \o Tail(c) = g \o c
BY MovesOn

LEMMA QueueOnWire ==
  ASSUME NEW w \in Seq(Ev), NEW q \in Seq(Ev), NEW e \in Ev
  PROVE  /\ w \o Append(q, e) = Append(w \o q, e) /\ w \o q \in Seq(Ev)
         /\ Len(Append(w \o q, e)) = Len(w \o q) + 1 /\ Len(w \o q) \in Nat
BY JoinedOn, Joined, LenProperties

\* Where an event is, of those on the wire and in the queue.
LEMMA InGiven ==
  ASSUME NEW w \in Seq(Ev), NEW q \in Seq(Ev)
  PROVE  /\ w \o q \in Seq(Ev) /\ Len(w) \in Nat /\ Len(q) \in Nat /\ Len(w \o q) = Len(w) + Len(q)
         /\ \A i \in 1 .. Len(w) : i \in 1 .. Len(w \o q) /\ (w \o q)[i] = w[i]
         /\ \A i \in 1 .. Len(q) : Len(w) + i \in 1 .. Len(w \o q) /\ (w \o q)[Len(w) + i] = q[i]
         /\ \A i \in 1 .. Len(w \o q) : i \in 1 .. Len(w) \/ i - Len(w) \in 1 .. Len(q)
<1>1. /\ w \o q \in Seq(Ev) /\ Len(w) \in Nat /\ Len(q) \in Nat /\ Len(w \o q) = Len(w) + Len(q)
      /\ \A i \in 1 .. Len(w) : (w \o q)[i] = w[i]
      /\ \A i \in Len(w) + 1 .. Len(w) + Len(q) : (w \o q)[i] = q[i - Len(w)]
  BY Joined
<1>2. ASSUME NEW i \in 1 .. Len(q)
      PROVE  Len(w) + i \in Len(w) + 1 .. Len(w) + Len(q) /\ (Len(w) + i) - Len(w) = i
  BY <1>1
<1>3. \A i \in 1 .. Len(q) : Len(w) + i \in 1 .. Len(w \o q)
  BY <1>1
<1>4. \A i \in 1 .. Len(q) : (w \o q)[Len(w) + i] = q[i]
  BY <1>1, <1>2
<1>5. \A i \in 1 .. Len(w) : i \in 1 .. Len(w \o q)
  BY <1>1
<1>6. \A i \in 1 .. Len(w \o q) : i \in 1 .. Len(w) \/ i - Len(w) \in 1 .. Len(q)
  BY <1>1
<1> QED BY <1>1, <1>3, <1>4, <1>5, <1>6

\* flushSseQueue keeps the order of the queue.
MayWrite(w, q, f, a, n, r, full, e, f2, a2, n2) ==
  /\ w \in Seq(Ev) /\ q \in Seq(Ev) /\ q # <<>> /\ e = Head(q)
  /\ f \in BOOLEAN /\ n \in BOOLEAN /\ r \in BOOLEAN /\ f2 \in BOOLEAN /\ n2 \in BOOLEAN
  /\ a = "none" /\ QueueOK(w, q, f, a, n, r)
  /\ f2 <=> f /\ (full \/ IsRaw(e))
  /\ a2 = IF full THEN e.kind ELSE "none"
  /\ n2 <=> n \/ (~full /\ e.kind = "DONE")

LEMMA WriteKeeps ==
  ASSUME NEW w, NEW q, NEW f, NEW a, NEW n, NEW r, NEW full \in BOOLEAN, NEW e, NEW f2, NEW a2, NEW n2,
         MayWrite(w, q, f, a, n, r, full, e, f2, a2, n2)
  PROVE  QueueOK(Append(w, e), Tail(q), f2, a2, n2, r)
<1>0. /\ w \in Seq(Ev) /\ q \in Seq(Ev) /\ q # <<>> /\ e = Head(q)
      /\ f \in BOOLEAN /\ n \in BOOLEAN /\ r \in BOOLEAN /\ f2 \in BOOLEAN /\ n2 \in BOOLEAN
      /\ a = "none" /\ QueueOK(w, q, f, a, n, r)
      /\ f2 <=> f /\ (full \/ IsRaw(e))
      /\ a2 = IF full THEN e.kind ELSE "none"
      /\ n2 <=> n \/ (~full /\ e.kind = "DONE")
  BY DEF MayWrite
<1> USE <1>0
<1> DEFINE y == Append(w, e)
           t == Tail(q)
           g == w \o q
           N == Len(g)
<1>1. /\ e \in Ev /\ t \in Seq(Ev) /\ Len(q) \in Nat /\ Len(q) >= 1 /\ Len(t) = Len(q) - 1 /\ e = q[1]
      /\ \A i \in 1 .. Len(q) - 1 : t[i] = q[i + 1]
  BY HeadAndTail
<1>2. y \o t = g
  BY MovesOn
<1>3. /\ Len(y) = Len(w) + 1 /\ Len(w) \in Nat /\ y[Len(w) + 1] = e
      /\ \A i \in 1 .. Len(w) : y[i] = w[i]
  BY <1>1, Appended
<1>4. /\ N \in Nat /\ N = Len(w) + Len(q)
      /\ \A i \in 1 .. Len(w) : i \in 1 .. N /\ g[i] = w[i]
      /\ \A i \in 1 .. Len(q) : Len(w) + i \in 1 .. N /\ g[Len(w) + i] = q[i]
      /\ \A i \in 1 .. N : i \in 1 .. Len(w) \/ i - Len(w) \in 1 .. Len(q)
  BY InGiven
<1>5. /\ \A i \in 1 .. Len(q) : Typed(q[i]) =>
           f /\ \A j \in 1 .. Len(q) : Typed(q[j]) => i = j
      /\ f => g # <<>>
      /\ \A i \in 1 .. N : ~Typed(g[i]) => r
      /\ \A i \in 1 .. N : g[i].kind = "DONE" =>
           \/ i = N
           \/ i = N - 1 /\ Typed(g[N]) /\ (f \/ n)
      /\ \A i \in 1 .. Len(w) : w[i].kind = "DONE" => n
      /\ n => \E i \in 1 .. Len(w) : w[i].kind = "DONE"
  BY DEF QueueOK
<1>6. Typed(e) <=> ~IsRaw(e)
  BY DEF Typed, IsRaw
<1>7. 1 \in 1 .. Len(q) /\ N \in 1 .. N /\ N - Len(w) = Len(q)
  BY <1>1, <1>4
<1> HIDE DEF y, t, g, N
<1>8. ASSUME NEW i \in 1 .. Len(t), Typed(t[i])
      PROVE  /\ f2 /\ a2 \in {"none", "error", "DONE"}
             /\ \A j \in 1 .. Len(t) : Typed(t[j]) => i = j
  <2>1. i + 1 \in 1 .. Len(q) /\ t[i] = q[i + 1] /\ i + 1 # 1
    BY <1>1
  <2>2. f /\ ~Typed(e)
    BY <1>1, <1>5, <1>7, <1>8, <2>1
  <2>3. IsRaw(e) /\ e.kind \in {"error", "DONE"}
    BY <1>6, <2>2 DEF IsRaw
  <2>4. ASSUME NEW j \in 1 .. Len(t), Typed(t[j]) PROVE i = j
    <3>1. j + 1 \in 1 .. Len(q) /\ t[j] = q[j + 1]
      BY <1>1
    <3>2. i + 1 = j + 1
      BY <1>5, <1>8, <2>1, <2>4, <3>1
    <3> QED BY <1>1, <3>2
  <2> QED BY <2>2, <2>3, <2>4
<1>9. f2 => g # <<>>
  BY <1>5
<1>10. ASSUME NEW i \in 1 .. N, g[i].kind = "DONE"
       PROVE  \/ i = N
              \/ i = N - 1 /\ Typed(g[N]) /\ (f2 \/ n2)
  <2>1. CASE i = N
    BY <2>1
  <2>2. CASE i # N
    <3>1. i = N - 1 /\ Typed(g[N]) /\ (f \/ n)
      BY <1>5, <1>10, <2>2
    <3>2. CASE n
      BY <3>1, <3>2
    <3>3. CASE full \/ IsRaw(e)
      BY <3>1, <3>3
    <3>4. CASE ~n /\ ~full /\ ~IsRaw(e)
      <4>1. i \notin 1 .. Len(w)
        BY <1>4, <1>5, <1>10, <3>4
      <4>2. i - Len(w) \in 1 .. Len(q) /\ Len(q) \in 1 .. Len(q)
        BY <1>1, <1>4, <4>1
      <4>3. Len(w) + Len(q) = N /\ g[N] = q[Len(q)]
        BY <1>4, <4>2
      <4>4. Len(q) = 1
        BY <1>1, <1>5, <1>6, <1>7, <3>1, <3>4, <4>2, <4>3
      <4> QED BY <1>4, <2>2, <3>1, <4>2, <4>4
    <3> QED BY <3>2, <3>3, <3>4
  <2> QED BY <2>1, <2>2
<1>11. a2 \in {"none", "error", "DONE"} \/ f2
  <2>1. CASE ~full
    BY <2>1
  <2>2. CASE full /\ Typed(e)
    BY <1>1, <1>5, <1>7, <2>2
  <2>3. CASE full /\ ~Typed(e)
    BY <1>6, <2>3 DEF IsRaw
  <2> QED BY <2>1, <2>2, <2>3
<1>12. \A i \in 1 .. Len(y) : y[i].kind = "DONE" => n2 \/ a2 = "DONE"
  <2>1. \A i \in 1 .. Len(y) : i \in 1 .. Len(w) \/ i = Len(w) + 1
    BY <1>3
  <2> QED BY <1>3, <1>5, <2>1
<1>13. n2 \/ a2 = "DONE" => \E i \in 1 .. Len(y) : y[i].kind = "DONE"
  <2>1. CASE n
    <3>1. PICK i \in 1 .. Len(w) : w[i].kind = "DONE"
      BY <1>5, <2>1
    <3>2. i \in 1 .. Len(y) /\ y[i].kind = "DONE"
      BY <1>3, <3>1
    <3> QED BY <3>2
  <2>2. CASE ~n /\ (n2 \/ a2 = "DONE")
    <3>1. e.kind = "DONE"
      BY <2>2
    <3>2. Len(w) + 1 \in 1 .. Len(y)
      BY <1>3
    <3> QED BY <1>3, <3>1, <3>2
  <2> QED BY <2>1, <2>2
<1>14. \A i \in 1 .. N : ~Typed(g[i]) => r
  BY <1>5
<1>15. QueueOK(y, t, f2, a2, n2, r)
  <2>1. Len(y \o t) = N /\ y \o t = g
    BY <1>2 DEF N
  <2> QED BY <1>8, <1>9, <1>10, <1>11, <1>12, <1>13, <1>14, <2>1 DEF QueueOK
<1> QED BY <1>15 DEF y, t

\* The socket drains.
LEMMA DrainKeeps ==
  ASSUME NEW w \in Seq(Ev), NEW q \in Seq(Ev), NEW f \in BOOLEAN, NEW a, a # "none",
         NEW n \in BOOLEAN, ~n,
         NEW r \in BOOLEAN, QueueOK(w, q, f, a, n, r),
         NEW f2 \in BOOLEAN, f2 <=> f /\ a \in {"error", "DONE"},
         NEW n2 \in BOOLEAN, n2 <=> a = "DONE", NEW b, b = "none"
  PROVE  QueueOK(w, q, f2, b, n2, r)
<1> DEFINE g == w \o q
           N == Len(g)
<1>1. /\ \A i \in 1 .. Len(q) : Typed(q[i]) =>
           /\ f /\ a \in {"error", "DONE"}
           /\ \A j \in 1 .. Len(q) : Typed(q[j]) => i = j
      /\ f => g # <<>>
      /\ \A i \in 1 .. N : ~Typed(g[i]) => r
      /\ \A i \in 1 .. N : g[i].kind = "DONE" => i = N \/ (i = N - 1 /\ Typed(g[N]) /\ f)
      /\ a \in {"error", "DONE"} \/ f
      /\ \A i \in 1 .. Len(w) : w[i].kind = "DONE" => a = "DONE"
      /\ a = "DONE" => \E i \in 1 .. Len(w) : w[i].kind = "DONE"
  BY DEF QueueOK
<1>2. /\ N \in Nat /\ N = Len(w) + Len(q) /\ Len(w) \in Nat /\ Len(q) \in Nat
      /\ \A i \in 1 .. Len(w) : i \in 1 .. N /\ g[i] = w[i]
      /\ \A i \in 1 .. Len(q) : Len(w) + i \in 1 .. N /\ g[Len(w) + i] = q[i]
      /\ \A i \in 1 .. N : i \in 1 .. Len(w) \/ i - Len(w) \in 1 .. Len(q)
  BY InGiven
<1> HIDE DEF g, N
<1>3. ASSUME NEW i \in 1 .. N, g[i].kind = "DONE"
      PROVE  \/ i = N
             \/ i = N - 1 /\ Typed(g[N]) /\ (f2 \/ n2)
  <2>1. CASE i = N
    BY <2>1
  <2>2. CASE i # N /\ a \in {"error", "DONE"}
    BY <1>1, <1>3, <2>2
  <2>3. CASE i # N /\ a \notin {"error", "DONE"}
    <3>1. i = N - 1 /\ Typed(g[N])
      BY <1>1, <1>3, <2>3
    <3>2. i \notin 1 .. Len(w)
      BY <1>1, <1>2, <1>3, <2>3
    <3>3. Len(q) \in 1 .. Len(q)
      BY <1>2, <3>2
    <3>4. g[N] = q[Len(q)]
      BY <1>2, <3>3
    <3> QED BY <1>1, <2>3, <3>1, <3>3, <3>4
  <2> QED BY <2>1, <2>2, <2>3
<1>4. \A i \in 1 .. Len(q) : Typed(q[i]) => f2
  BY <1>1
<1> QED BY <1>1, <1>3, <1>4 DEF QueueOK, g, N

\* The chain hands over its first event.
LEMMA HandKeeps ==
  ASSUME NEW w \in Seq(Ev), NEW q \in Seq(Ev), NEW a, NEW r \in BOOLEAN,
         NEW f \in BOOLEAN, ~f, NEW n \in BOOLEAN, ~n, QueueOK(w, q, f, a, n, r),
         NEW e \in Ev, Typed(e), NEW f2 \in BOOLEAN, f2
  PROVE  QueueOK(w, Append(q, e), f2, a, n, r)
<1> DEFINE g == w \o q
           N == Len(g)
           y == Append(q, e)
           h == Append(g, e)
<1>1. /\ \A i \in 1 .. Len(q) : ~Typed(q[i])
      /\ \A i \in 1 .. N : ~Typed(g[i]) => r
      /\ \A i \in 1 .. N : g[i].kind = "DONE" => i = N
      /\ a \in {"none", "error", "DONE"}
      /\ \A i \in 1 .. Len(w) : w[i].kind = "DONE" => a = "DONE"
      /\ a = "DONE" => \E i \in 1 .. Len(w) : w[i].kind = "DONE"
  BY DEF QueueOK
<1>2. w \o y = h /\ g \in Seq(Ev) /\ N \in Nat
  BY QueueOnWire
<1>3. /\ Len(y) = Len(q) + 1 /\ Len(q) \in Nat /\ y[Len(q) + 1] = e
      /\ \A i \in 1 .. Len(q) : y[i] = q[i]
  BY Appended
<1> HIDE DEF g, N
<1>4. /\ Len(h) = N + 1 /\ h[N + 1] = e /\ \A i \in 1 .. N : h[i] = g[i]
  BY <1>2, Appended DEF N
<1>5. /\ \A i \in 1 .. Len(y) : i \in 1 .. Len(q) \/ i = Len(q) + 1
      /\ \A i \in 1 .. Len(h) : i \in 1 .. N \/ i = N + 1
  BY <1>2, <1>3, <1>4
<1> HIDE DEF y, h
<1>6. \A i \in 1 .. Len(y) : Typed(y[i]) => i = Len(q) + 1
  BY <1>1, <1>3, <1>5
<1>7. \A i \in 1 .. Len(h) : ~Typed(h[i]) => r
  BY <1>1, <1>4, <1>5
<1>8. \A i \in 1 .. Len(h) : h[i].kind = "DONE" => i = Len(h) - 1
  <2>1. e.kind # "DONE"
    BY DEF Typed
  <2>2. ASSUME NEW i \in 1 .. Len(h), h[i].kind = "DONE" PROVE i = N
    <3>1. i \in 1 .. N
      BY <1>4, <1>5, <2>1, <2>2
    <3>2. g[i].kind = "DONE"
      BY <1>4, <2>2, <3>1
    <3> QED BY <1>1, <3>1, <3>2
  <2> QED BY <1>2, <1>4, <2>2
<1>9. h # <<>> /\ Typed(h[Len(h)])
  BY <1>2, <1>4, EmptySeq
<1>10. QueueOK(w, y, f2, a, n, r)
  BY <1>1, <1>2, <1>6, <1>7, <1>8, <1>9 DEF QueueOK
<1> QED BY <1>10 DEF y

\* The chat handler writes an error and [DONE].
LEMMA ErrorKeeps ==
  ASSUME NEW w \in Seq(Ev), NEW q \in Seq(Ev), NEW f \in BOOLEAN, NEW a, NEW n \in BOOLEAN,
         NEW r \in BOOLEAN, ~r, QueueOK(w, q, f, a, n, r),
         NEW r2 \in BOOLEAN, r2, NEW p, p = Append(Append(q, Plain("error")), Plain("DONE"))
  PROVE  QueueOK(w, p, f, a, n, r2)
<1> DEFINE e == Plain("error")
           d == Plain("DONE")
           g == w \o q
           N == Len(g)
           y == Append(q, e)
           z == Append(y, d)
           h == Append(g, e)
           k == Append(h, d)
<1>0. /\ e \in Ev /\ e.kind = "error" /\ d \in Ev /\ d.kind = "DONE"
  BY EventIs DEF Kinds
<1>0a. p = Append(Append(q, e), d)
  OBVIOUS
<1> HIDE DEF e, d
<1>1. /\ \A i \in 1 .. Len(q) : Typed(q[i]) =>
           /\ f /\ a \in {"none", "error", "DONE"}
           /\ \A j \in 1 .. Len(q) : Typed(q[j]) => i = j
      /\ f => g # <<>>
      /\ \A i \in 1 .. N : Typed(g[i])
      /\ a \in {"none", "error", "DONE"} \/ f
      /\ \A i \in 1 .. Len(w) : w[i].kind = "DONE" => n \/ a = "DONE"
      /\ n \/ a = "DONE" => \E i \in 1 .. Len(w) : w[i].kind = "DONE"
  BY DEF QueueOK
<1>2. /\ y \in Seq(Ev) /\ Len(y) = Len(q) + 1 /\ Len(q) \in Nat /\ y[Len(q) + 1] = e
      /\ \A i \in 1 .. Len(q) : y[i] = q[i]
  BY <1>0, Appended
<1>3. w \o y = h /\ g \in Seq(Ev) /\ N \in Nat
  BY <1>0, QueueOnWire
<1> HIDE DEF g, N, y
<1>4. /\ h \in Seq(Ev) /\ Len(h) = N + 1 /\ h[N + 1] = e /\ \A i \in 1 .. N : h[i] = g[i]
  BY <1>0, <1>3, Appended DEF N
<1>5. w \o z = Append(w \o y, d)
  BY <1>0, <1>2, QueueOnWire
<1>6. w \o z = k
  BY <1>3, <1>5
<1>7. /\ Len(z) = Len(y) + 1 /\ z[Len(y) + 1] = d
      /\ \A i \in 1 .. Len(y) : z[i] = y[i]
  BY <1>0, <1>2, Appended
<1> HIDE DEF h, z
<1>8. /\ Len(k) = N + 2 /\ k[N + 2] = d /\ k[N + 1] = e /\ \A i \in 1 .. N : k[i] = g[i]
  <2>1. /\ Len(k) = Len(h) + 1 /\ k[Len(h) + 1] = d /\ \A i \in 1 .. Len(h) : k[i] = h[i]
    BY <1>0, <1>4, Appended
  <2>2. \A i \in 1 .. N : i \in 1 .. Len(h)
    BY <1>3, <1>4
  <2>3. N + 1 \in 1 .. Len(h) /\ (N + 1) + 1 = N + 2
    BY <1>3, <1>4
  <2> HIDE DEF k
  <2>4. \A i \in 1 .. N : k[i] = g[i]
    BY <1>4, <2>1, <2>2
  <2>5. k[N + 1] = e
    BY <1>4, <2>1, <2>3
  <2>6. Len(k) = N + 2 /\ k[N + 2] = d
    BY <1>4, <2>1, <2>3
  <2> QED BY <2>4, <2>5, <2>6
<1> HIDE DEF k
<1>9. /\ \A i \in 1 .. Len(z) : i \in 1 .. Len(q) \/ i = Len(q) + 1 \/ i = Len(q) + 2
      /\ \A i \in 1 .. Len(k) : i \in 1 .. N \/ i = N + 1 \/ i = N + 2
      /\ \A i \in 1 .. Len(q) : i \in 1 .. Len(y)
      /\ Len(q) + 1 \in 1 .. Len(y) /\ Len(q) + 2 = Len(y) + 1
  <2>1. Len(y) = Len(q) + 1 /\ Len(z) = Len(q) + 2 /\ Len(q) \in Nat
    BY <1>2, <1>7
  <2>2. Len(k) = N + 2 /\ N \in Nat
    BY <1>3, <1>8
  <2>3. /\ \A i \in 1 .. Len(q) + 2 : i \in 1 .. Len(q) \/ i = Len(q) + 1 \/ i = Len(q) + 2
        /\ \A i \in 1 .. Len(q) : i \in 1 .. Len(q) + 1
        /\ Len(q) + 1 \in 1 .. Len(q) + 1 /\ Len(q) + 2 = (Len(q) + 1) + 1
    BY <2>1
  <2>4. \A i \in 1 .. N + 2 : i \in 1 .. N \/ i = N + 1 \/ i = N + 2
    BY <2>2
  <2> QED BY <2>1, <2>2, <2>3, <2>4
<1>10. ~Typed(d) /\ ~Typed(e) /\ e.kind # "DONE"
  BY <1>0 DEF Typed
<1>11. \A i \in 1 .. Len(z) : Typed(z[i]) => i \in 1 .. Len(q) /\ z[i] = q[i]
  BY <1>2, <1>7, <1>9, <1>10
<1>12. \A i \in 1 .. Len(k) : k[i].kind = "DONE" => i = Len(k)
  <2>1. \A i \in 1 .. N : g[i].kind # "DONE"
    BY <1>1 DEF Typed
  <2>2. ASSUME NEW i \in 1 .. Len(k), k[i].kind = "DONE" PROVE i = N + 2
    BY <1>8, <1>9, <1>10, <2>1, <2>2
  <2> QED BY <1>8, <2>2
<1>13. k # <<>>
  BY <1>3, <1>8, EmptySeq
<1>14. \A i \in 1 .. Len(z) : Typed(z[i]) =>
           /\ f /\ a \in {"none", "error", "DONE"}
           /\ \A j \in 1 .. Len(z) : Typed(z[j]) => i = j
  BY <1>1, <1>11
<1>15. QueueOK(w, z, f, a, n, r2)
  BY <1>1, <1>6, <1>12, <1>13, <1>14 DEF QueueOK
<1> QED BY <1>0a, <1>15 DEF z, y

-----------------------------------------------------------------------------
(* The way to the socket keeps the invariant.                               *)

LEMMA SocketStep ==
  ASSUME Inv, UNCHANGED <<backend, chat, adapter>>, DOMAIN out' = DOMAIN out,
         out'.ended => chat.responded, OutOK', IF out'.ended THEN Over' ELSE Open'
  PROVE  Inv'
<1>1. StateOK'
  BY DEF Inv, StateOK, BackendOK
<1>2. CallsInv'
  BY DEF Inv, CallsInv, ToldIds
<1> QED BY <1>1, <1>2 DEF Inv

\* What Inv says of out, field by field.
LEMMA OutIs ==
  ASSUME Inv
  PROVE  /\ DOMAIN out = {"chain", "flying", "queue", "waiting", "ending", "ended", "conn", "wire"}
         /\ out.chain \in Seq(Ev) /\ out.queue \in Seq(Ev) /\ out.wire \in Seq(Ev)
         /\ out.flying \in BOOLEAN /\ out.ending \in BOOLEAN /\ out.ended \in BOOLEAN
         /\ out.waiting \in Kinds \cup {"none"}
         /\ \A i \in DOMAIN out.chain : Typed(out.chain[i])
         /\ \A i \in DOMAIN Given : Given[i].kind # "end"
         /\ out.ended => Over /\ chat.responded
         /\ ~out.ended => Open
         /\ chat.responded \in BOOLEAN
BY DEF Inv, StateOK, OutOK

LEMMA WriteStep ==
  ASSUME Inv, NEW full \in BOOLEAN, Write(full)
  PROVE  Inv'
<1> DEFINE e == Head(out.queue)
<1>0. /\ DOMAIN out = {"chain", "flying", "queue", "waiting", "ending", "ended", "conn", "wire"}
      /\ out.queue \in Seq(Ev) /\ out.wire \in Seq(Ev) /\ out.chain \in Seq(Ev)
      /\ out.flying \in BOOLEAN /\ out.ending \in BOOLEAN /\ out.ended \in BOOLEAN
      /\ \A i \in DOMAIN out.chain : Typed(out.chain[i])
      /\ \A i \in DOMAIN Given : Given[i].kind # "end"
      /\ out.ended => Over /\ chat.responded
      /\ ~out.ended => Open
      /\ chat.responded \in BOOLEAN
  BY OutIs
<1>1. /\ UNCHANGED <<backend, chat, adapter>>
      /\ out.queue # <<>> /\ out.waiting = "none"
  BY DEF Write, Flushable
<1>2. /\ DOMAIN out' = DOMAIN out
      /\ out'.chain = out.chain /\ out'.ended = out.ended
      /\ out'.queue = Tail(out.queue)
      /\ out'.wire = IF out.ended THEN out.wire ELSE Append(out.wire, e)
      /\ out'.waiting = IF full THEN e.kind ELSE "none"
      /\ out'.flying = IF full \/ IsRaw(e) THEN out.flying ELSE FALSE
      /\ out'.ending = (out.ending \/ (~full /\ e.kind = "DONE"))
  BY <1>0 DEF Write
<1>3. /\ e \in Ev /\ Tail(out.queue) \in Seq(Ev) /\ Len(out.queue) \in Nat /\ Len(out.queue) >= 1
      /\ Len(Tail(out.queue)) = Len(out.queue) - 1
      /\ \A i \in 1 .. Len(out.queue) - 1 : Tail(out.queue)[i] = out.queue[i + 1]
  BY <1>0, <1>1, HeadAndTail
<1>4. Append(out.wire, e) \in Seq(Ev) /\ Append(out.wire, e) \o Tail(out.queue) = Given
  BY <1>0, <1>1, <1>3, MovesOn, SMTT(30) DEF Given
<1> HIDE DEF e
<1>5. /\ out'.queue \in Seq(Ev) /\ out'.wire \in Seq(Ev) /\ out'.chain \in Seq(Ev)
      /\ out'.flying \in BOOLEAN /\ out'.ending \in BOOLEAN /\ out'.ended \in BOOLEAN
      /\ out'.waiting \in Kinds \cup {"none"}
      /\ \A i \in DOMAIN out'.chain : Typed(out'.chain[i])
  <2>1. e.kind \in Kinds
    BY <1>3 DEF Ev
  <2> QED BY <1>0, <1>2, <1>3, <1>4, <2>1
<1>6. CASE out.ended
  <2>1. \A i \in DOMAIN Given' : Given'[i].kind # "end"
    <3> DEFINE w == out.wire
               q == out.queue
               t == Tail(q)
    <3>0. w \in Seq(Ev) /\ q \in Seq(Ev) /\ t \in Seq(Ev)
      BY <1>0, <1>3
    <3>1. Given' = w \o t /\ Given = w \o q
      BY <1>2, <1>6 DEF Given
    <3>2. /\ Len(t) = Len(q) - 1 /\ Len(q) \in Nat
          /\ \A i \in 1 .. Len(q) - 1 : t[i] = q[i + 1]
      BY <1>3
    <3> HIDE DEF w, q, t
    <3>3. /\ w \o q \in Seq(Ev)
          /\ \A i \in 1 .. Len(w) : i \in 1 .. Len(w \o q) /\ (w \o q)[i] = w[i]
          /\ \A i \in 1 .. Len(q) : Len(w) + i \in 1 .. Len(w \o q) /\ (w \o q)[Len(w) + i] = q[i]
      BY <3>0, InGiven
    <3>4. /\ w \o t \in Seq(Ev) /\ Len(w) \in Nat
          /\ \A i \in 1 .. Len(w) : (w \o t)[i] = w[i]
          /\ \A i \in 1 .. Len(t) : (w \o t)[Len(w) + i] = t[i]
          /\ \A i \in 1 .. Len(w \o t) : i \in 1 .. Len(w) \/ i - Len(w) \in 1 .. Len(t)
      BY <3>0, InGiven
    <3>4a. DOMAIN (w \o t) = 1 .. Len(w \o t) /\ DOMAIN (w \o q) = 1 .. Len(w \o q)
      BY <3>3, <3>4, LenProperties
    <3>5. \A i \in 1 .. Len(w \o q) : (w \o q)[i].kind # "end"
      BY <1>0, <3>1, <3>4a
    <3>6. ASSUME NEW i \in 1 .. Len(w \o t) PROVE (w \o t)[i].kind # "end"
      <4>1. CASE i \in 1 .. Len(w)
        BY <3>3, <3>4, <3>5, <4>1
      <4>2. CASE i - Len(w) \in 1 .. Len(t)
        <5> DEFINE j == i - Len(w)
        <5>1. j + 1 \in 1 .. Len(q) /\ t[j] = q[j + 1] /\ Len(w) + j = i
          BY <3>2, <3>4, <4>2, SMTT(30)
        <5>2. (w \o t)[i] = t[j]
          BY <3>4, <4>2, <5>1
        <5>3. q[j + 1].kind # "end"
          BY <3>3, <3>5, <5>1
        <5> QED BY <5>1, <5>2, <5>3
      <4> QED BY <3>4, <4>1, <4>2
    <3> QED BY <3>1, <3>4a, <3>6
  <2>2. OutOK'
    BY <1>5, <2>1 DEF OutOK
  <2>3. Over'
    BY <1>0, <1>2, <1>6 DEF Over
  <2> QED BY <1>0, <1>1, <1>2, <1>6, <2>2, <2>3, SocketStep
<1>7. CASE ~out.ended
  <2>1. Given' = Given
    BY <1>2, <1>4, <1>7 DEF Given
  <2>2. OutOK'
    BY <1>0, <1>5, <2>1 DEF OutOK
  <2>3. Open
    BY <1>0, <1>7
  <2>4. QueueInv'
    <3>1. QueueOK(out.wire, out.queue, out.flying, out.waiting, out.ending, chat.responded)
      BY <2>3 DEF Open, QueueInv
    <3>2. QueueOK(Append(out.wire, e), Tail(out.queue), out'.flying, out'.waiting, out'.ending, chat.responded)
      <4>1. out'.flying <=> out.flying /\ (full \/ IsRaw(e))
        BY <1>2
      <4>2. out'.ending <=> out.ending \/ (~full /\ e.kind = "DONE")
        BY <1>2
      <4>3. PICK w, q, f, a, n, r, f2, a2, n2 :
              /\ w = out.wire /\ q = out.queue /\ f = out.flying /\ a = out.waiting /\ n = out.ending
              /\ r = chat.responded /\ f2 = out'.flying /\ a2 = out'.waiting /\ n2 = out'.ending
        OBVIOUS
      <4>4. /\ w \in Seq(Ev) /\ q \in Seq(Ev) /\ q # <<>> /\ f \in BOOLEAN /\ n \in BOOLEAN
            /\ r \in BOOLEAN /\ a = "none" /\ e = Head(q) /\ f2 \in BOOLEAN /\ n2 \in BOOLEAN
        BY <1>0, <1>1, <1>5, <4>3 DEF e
      <4>5. /\ f2 <=> f /\ (full \/ IsRaw(e))
            /\ n2 <=> n \/ (~full /\ e.kind = "DONE")
            /\ a2 = IF full THEN e.kind ELSE "none"
        BY <1>2, <4>1, <4>2, <4>3
      <4>6. QueueOK(w, q, f, a, n, r)
        BY <3>1, <4>3
      <4>7. MayWrite(w, q, f, a, n, r, full, e, f2, a2, n2)
        BY <4>4, <4>5, <4>6 DEF MayWrite
      <4>8. QueueOK(Append(w, e), Tail(q), f2, a2, n2, r)
        BY <4>7, WriteKeeps
      <4> QED BY <4>3, <4>8
    <3>3. chat'.responded = chat.responded
      BY <1>1
    <3> QED BY <1>2, <1>7, <3>2, <3>3 DEF QueueInv
  <2>5. Open'
    BY <1>1, <1>2, <2>1, <2>3, <2>4 DEF Open, ToldIds
  <2> QED BY <1>1, <1>2, <1>7, <2>2, <2>5, SocketStep
<1> QED BY <1>0, <1>6, <1>7

LEMMA DrainStep ==
  ASSUME Inv, Drain
  PROVE  Inv'
<1>0. /\ DOMAIN out = {"chain", "flying", "queue", "waiting", "ending", "ended", "conn", "wire"}
      /\ out.queue \in Seq(Ev) /\ out.wire \in Seq(Ev) /\ out.chain \in Seq(Ev)
      /\ out.flying \in BOOLEAN /\ out.ending \in BOOLEAN /\ out.ended \in BOOLEAN
      /\ out.ended => Over /\ chat.responded
      /\ ~out.ended => Open
      /\ chat.responded \in BOOLEAN
  BY OutIs
<1>1. /\ UNCHANGED <<backend, chat, adapter>>
      /\ out.waiting # "none" /\ out.ending = FALSE
  BY <1>0 DEF Drain
<1>2. /\ DOMAIN out' = DOMAIN out
      /\ out'.chain = out.chain /\ out'.ended = out.ended /\ out'.queue = out.queue
      /\ out'.wire = out.wire /\ out'.waiting = "none"
      /\ out'.flying = (out.flying /\ out.waiting \in {"error", "DONE"})
      /\ out'.ending = (out.waiting = "DONE")
  BY <1>0, <1>1 DEF Drain
<1>3. Given' = Given
  BY <1>2 DEF Given
<1>4. OutOK'
  <2>1. OutOK
    BY DEF Inv
  <2>2. out'.flying \in BOOLEAN /\ out'.ending \in BOOLEAN
    BY <1>0, <1>2
  <2> QED BY <1>2, <1>3, <2>1, <2>2 DEF OutOK
<1>5. CASE out.ended
  <2>1. Over'
    BY <1>0, <1>2, <1>5 DEF Over
  <2> QED BY <1>0, <1>1, <1>2, <1>4, <1>5, <2>1, SocketStep
<1>6. CASE ~out.ended
  <2>1. Open
    BY <1>0, <1>6
  <2>2. QueueInv'
    <3>1. QueueOK(out.wire, out.queue, out.flying, out.waiting, out.ending, chat.responded)
      BY <2>1 DEF Open, QueueInv
    <3>2. out'.flying \in BOOLEAN /\ out'.ending \in BOOLEAN
      BY <1>0, <1>2
    <3>3. QueueOK(out.wire, out.queue, out'.flying, out'.waiting, out'.ending, chat.responded)
      <4>3. PICK w, q, f, a, n, r, f2, a2, n2 :
              /\ w = out.wire /\ q = out.queue /\ f = out.flying /\ a = out.waiting /\ n = out.ending
              /\ r = chat.responded /\ f2 = out'.flying /\ a2 = out'.waiting /\ n2 = out'.ending
        OBVIOUS
      <4>4. /\ w \in Seq(Ev) /\ q \in Seq(Ev) /\ f \in BOOLEAN /\ n \in BOOLEAN /\ ~n
            /\ r \in BOOLEAN /\ a # "none" /\ f2 \in BOOLEAN /\ n2 \in BOOLEAN /\ a2 = "none"
        BY <1>0, <1>1, <1>2, <3>2, <4>3
      <4>5. (f2 <=> f /\ a \in {"error", "DONE"}) /\ (n2 <=> a = "DONE")
        BY <1>2, <4>3
      <4>6. QueueOK(w, q, f, a, n, r)
        BY <3>1, <4>3
      <4>7. QueueOK(w, q, f2, a2, n2, r)
        BY <4>4, <4>5, <4>6, DrainKeeps
      <4> QED BY <4>3, <4>7
    <3>4. chat'.responded = chat.responded
      BY <1>1
    <3> QED BY <1>2, <3>3, <3>4 DEF QueueInv
  <2>3. Open'
    BY <1>1, <1>2, <1>3, <2>1, <2>2 DEF Open, ToldIds
  <2> QED BY <1>1, <1>2, <1>4, <1>6, <2>3, SocketStep
<1> QED BY <1>5, <1>6

LEMMA DisconnectStep ==
  ASSUME Inv, Disconnect
  PROVE  Inv'
<1>0. /\ DOMAIN out = {"chain", "flying", "queue", "waiting", "ending", "ended", "conn", "wire"}
      /\ out.ended => Over /\ chat.responded
      /\ ~out.ended => Open
  BY OutIs
<1>1. /\ UNCHANGED <<backend, chat, adapter>> /\ ~out.ended
      /\ DOMAIN out' = DOMAIN out
      /\ out'.chain = out.chain /\ out'.ended = out.ended /\ out'.queue = out.queue
      /\ out'.wire = out.wire /\ out'.waiting = out.waiting
      /\ out'.flying = out.flying /\ out'.ending = out.ending
  BY <1>0 DEF Disconnect
<1>2. Given' = Given /\ chat' = chat /\ adapter' = adapter
  BY <1>1 DEF Given
<1>3. OutOK'
  BY <1>1, <1>2 DEF Inv, OutOK
<1>4. Open'
  BY <1>0, <1>1, <1>2 DEF Open, ToldIds, QueueInv
<1> QED BY <1>1, <1>3, <1>4, SocketStep

\* A [DONE] on the wire, of an open response: what is on it is all that will be.
LEMMA DoneIsOver ==
  ASSUME Inv, Open, NEW k \in 1 .. Len(out.wire), out.wire[k].kind = "DONE"
  PROVE  /\ chat.responded /\ Story(out.wire) /\ out.wire # <<>>
         /\ \A i \in 1 .. Len(out.wire) : out.wire[i].kind = "DONE" => i >= Len(out.wire) - 1
<1> DEFINE w == out.wire
           q == out.queue
           c == out.chain
           g == w \o q
           N == Len(g)
<1>1. w \in Seq(Ev) /\ q \in Seq(Ev) /\ c \in Seq(Ev) /\ chat.responded \in BOOLEAN
  BY OutIs
<1>2. /\ QueueOK(w, q, out.flying, out.waiting, out.ending, chat.responded)
      /\ Story(g \o c)
  BY DEF Open, QueueInv, Given
<1>3. /\ g \in Seq(Ev) /\ Len(w) \in Nat /\ Len(q) \in Nat /\ N = Len(w) + Len(q)
      /\ \A i \in 1 .. Len(w) : i \in 1 .. Len(g) /\ g[i] = w[i]
  BY <1>1, InGiven
<1>4. /\ \A i \in 1 .. N : ~Typed(g[i]) => chat.responded
      /\ \A i \in 1 .. N : g[i].kind = "DONE" => i = N \/ i = N - 1
  BY <1>2 DEF QueueOK
<1>5. k \in 1 .. Len(w) /\ w[k].kind = "DONE"
  OBVIOUS
<1>6. Story(w) /\ w # <<>>
  <2>1. w # <<>>
    BY <1>1, <1>3, <1>5, EmptySeq
  <2>2. g \o c = w \o (q \o c)
    <3> HIDE DEF w, q, c
    <3>1. Joins(w, q, c)
      BY <1>1, JoinedThree
    <3> QED BY <3>1 DEF g, Joins
  <2>3. q \o c \in Seq(Ev)
    BY <1>1
  <2>4. Story(w \o (q \o c))
    BY <1>2, <2>2
  <2> HIDE DEF w, q, c
  <2>5. PICK y : y = q \o c
    OBVIOUS
  <2>6. y \in Seq(Ev) /\ Story(w \o y)
    BY <2>3, <2>4, <2>5
  <2> QED BY <1>1, <2>1, <2>6, StoryBegins
<1> HIDE DEF w, q, c, g, N
<1>7. chat.responded
  BY <1>3, <1>4, <1>5 DEF Typed, N
<1>8. ASSUME NEW i \in 1 .. Len(w), w[i].kind = "DONE" PROVE i >= Len(w) - 1
  <2>1. i = N \/ i = N - 1
    BY <1>3, <1>4, <1>8 DEF N
  <2> QED BY <1>3, <2>1
<1> QED BY <1>6, <1>7, <1>8 DEF w

LEMMA EndRawStep ==
  ASSUME Inv, EndRaw
  PROVE  Inv'
<1>0. /\ DOMAIN out = {"chain", "flying", "queue", "waiting", "ending", "ended", "conn", "wire"}
      /\ out.queue \in Seq(Ev) /\ out.wire \in Seq(Ev) /\ out.chain \in Seq(Ev)
      /\ out.flying \in BOOLEAN /\ out.ending \in BOOLEAN /\ out.ended \in BOOLEAN
      /\ out.ended => Over /\ chat.responded
      /\ ~out.ended => Open
      /\ chat.responded \in BOOLEAN
  BY OutIs
<1>1. /\ UNCHANGED <<backend, chat, adapter>> /\ out.ending
      /\ DOMAIN out' = DOMAIN out
      /\ out'.chain = out.chain /\ out'.ended = TRUE /\ out'.queue = out.queue
      /\ out'.wire = out.wire /\ out'.waiting = out.waiting
      /\ out'.flying = out.flying /\ out'.ending = FALSE
  BY <1>0 DEF EndRaw
<1>2. Given' = Given
  BY <1>1 DEF Given
<1>3. OutOK'
  <2>1. OutOK
    BY DEF Inv
  <2>2. FALSE \in BOOLEAN /\ TRUE \in BOOLEAN
    OBVIOUS
  <2> QED BY <1>1, <1>2, <2>1, <2>2 DEF OutOK
<1>4. DOMAIN out.wire = 1 .. Len(out.wire)
  BY <1>0, LenProperties
<1>5. Over /\ chat.responded
  <2>1. CASE out.ended
    BY <1>0, <2>1
  <2>2. CASE ~out.ended
    <3>1. Open
      BY <1>0, <2>2
    <3>2. PICK k \in 1 .. Len(out.wire) : out.wire[k].kind = "DONE"
      BY <1>1, <3>1 DEF Open, QueueInv, QueueOK
    <3>3. /\ chat.responded /\ Story(out.wire)
          /\ \A i \in 1 .. Len(out.wire) : out.wire[i].kind = "DONE" => i >= Len(out.wire) - 1
      BY <3>1, <3>2, DoneIsOver
    <3> QED BY <1>4, <3>2, <3>3 DEF Over
  <2> QED BY <2>1, <2>2
<1>6. Over'
  BY <1>1, <1>5 DEF Over
<1> QED BY <1>1, <1>3, <1>5, <1>6, SocketStep

\* When the end is next, the done event was the last, and it is on the wire.
LEMMA EndIsOver ==
  ASSUME Inv, Open, ~out.flying, out.chain # <<>>, Head(out.chain).kind = "end"
  PROVE  /\ Story(out.wire)
         /\ \A i \in 1 .. Len(out.wire) : out.wire[i].kind = "DONE" => i >= Len(out.wire) - 1
         /\ out.wire[Len(out.wire)].kind = "done"
<1> DEFINE w == out.wire
           q == out.queue
           c == out.chain
           g == w \o q
           N == Len(g)
           e == Head(c)
<1>1. /\ w \in Seq(Ev) /\ q \in Seq(Ev) /\ c \in Seq(Ev) /\ c # <<>> /\ e.kind = "end"
      /\ \A i \in DOMAIN g : g[i].kind # "end"
  BY OutIs DEF Given
<1>2. /\ QueueOK(w, q, out.flying, out.waiting, out.ending, chat.responded)
      /\ Story(g \o c)
  BY DEF Open, QueueInv, Given
<1>3. /\ g \in Seq(Ev) /\ Len(w) \in Nat /\ Len(q) \in Nat /\ N = Len(w) + Len(q)
      /\ \A i \in 1 .. Len(w) : i \in 1 .. Len(g) /\ g[i] = w[i]
      /\ \A i \in 1 .. Len(q) : Len(w) + i \in 1 .. Len(g) /\ g[Len(w) + i] = q[i]
  BY <1>1, InGiven
<1>4. /\ \A i \in 1 .. Len(q) : ~Typed(q[i])
      /\ \A i \in 1 .. N : g[i].kind = "DONE" => i = N \/ i = N - 1
  BY <1>2 DEF QueueOK
<1>5. e \in Ev /\ Tail(c) \in Seq(Ev) /\ e = c[1] /\ Len(c) \in Nat /\ Len(c) >= 1
  BY <1>1, HeadAndTail
<1> HIDE DEF e
<1>6. /\ Len(g \o c) = N + Len(c) /\ N \in Nat
      /\ (\A i \in 1 .. N : (g \o c)[i] = g[i]) /\ (g \o c)[N + 1] = e
  <2> HIDE DEF g, c
  <2>1. /\ Len(g \o c) = Len(g) + Len(c) /\ Len(g) \in Nat
        /\ \A i \in 1 .. Len(g) : (g \o c)[i] = g[i]
        /\ \A i \in 1 .. Len(c) : (g \o c)[Len(g) + i] = c[i]
    <3>1. g \in Seq(Ev) /\ c \in Seq(Ev)
      BY <1>1, <1>3
    <3> QED BY <3>1, InGiven
  <2>2. 1 \in 1 .. Len(c)
    BY <1>5
  <2> QED BY <1>5, <2>1, <2>2
<1>7. \A i \in 1 .. N : g[i].kind # "end"
  BY <1>1, <1>3, LenProperties
<1>8. DOMAIN w = 1 .. Len(w) /\ DOMAIN q = 1 .. Len(q)
  BY <1>1, LenProperties
<1> HIDE DEF g, N
<1>9. PICK j \in 1 .. N : g[j].kind = "done"
  <2> DEFINE z == g \o c
  <2>1. N + 1 \in 1 .. Len(z) /\ (N + 1) - 1 = N
    BY <1>5, <1>6
  <2>2. May(z, (N + 1) - 1, z[N + 1])
    BY <1>2, <2>1 DEF Story
  <2>3. May(z, N, e)
    BY <1>6, <2>1, <2>2
  <2>4. \E j \in 1 .. N : z[j].kind = "done"
    BY <1>1, <2>3 DEF May
  <2> QED BY <1>6, <2>4
<1>10. j = N
  <2> DEFINE z == g \o c
  <2>1. SUFFICES ASSUME j # N PROVE FALSE
    OBVIOUS
  <2>2. N \in 1 .. Len(z) /\ N \in 1 .. N /\ j \in 1 .. N - 1
    BY <1>5, <1>6, <1>9, <2>1
  <2>3. May(z, N - 1, z[N])
    BY <1>2, <2>2 DEF Story
  <2>4. z[N] = g[N] /\ z[j] = g[j]
    BY <1>6, <2>2
  <2>5. g[N].kind = "end"
    BY <1>9, <2>2, <2>3, <2>4 DEF May
  <2> QED BY <1>7, <2>2, <2>5
<1>11. q = <<>>
  <2>1. SUFFICES ASSUME q # <<>> PROVE FALSE
    OBVIOUS
  <2>2. Len(q) \in 1 .. Len(q)
    <3>1. Len(q) # 0
      BY <1>1, <2>1, EmptySeq
    <3> QED BY <1>3, <3>1
  <2>3. g[N] = q[Len(q)]
    BY <1>3, <2>2
  <2>4. Typed(q[Len(q)])
    BY <1>9, <1>10, <2>3 DEF Typed
  <2> QED BY <1>4, <2>2, <2>4
<1>12. g = w /\ N = Len(w)
  BY <1>1, <1>11 DEF g, N
<1>13. w # <<>>
  <2>1. j \in 1 .. Len(w) /\ Len(w) \in Nat
    BY <1>3, <1>9, <1>12
  <2>2. Len(w) # 0
    BY <2>1
  <2> QED BY <2>2, EmptySeq
<1>14. Story(w)
  BY <1>1, <1>2, <1>12, <1>13, StoryBegins
<1>15. w[Len(w)].kind = "done"
  BY <1>9, <1>10, <1>12
<1>16. ASSUME NEW i \in 1 .. Len(w), w[i].kind = "DONE" PROVE i >= Len(w) - 1
  <2>1. i \in 1 .. N /\ g[i].kind = "DONE"
    BY <1>12, <1>16
  <2>2. i = N \/ i = N - 1
    BY <1>4, <2>1
  <2>3. N = Len(w)
    BY <1>12
  <2>4. Len(w) \in Nat
    BY <1>3
  <2> QED BY <2>2, <2>3, <2>4
<1> QED BY <1>14, <1>15, <1>16

LEMMA HandStep ==
  ASSUME Inv, Hand
  PROVE  Inv'
<1> DEFINE w == out.wire
           q == out.queue
           c == out.chain
           e == Head(c)
<1>0. /\ DOMAIN out = {"chain", "flying", "queue", "waiting", "ending", "ended", "conn", "wire"}
      /\ q \in Seq(Ev) /\ w \in Seq(Ev) /\ c \in Seq(Ev)
      /\ out.flying \in BOOLEAN /\ out.ending \in BOOLEAN /\ out.ended \in BOOLEAN
      /\ out.waiting \in Kinds \cup {"none"}
      /\ out.ended => Over /\ chat.responded
      /\ ~out.ended => Open
      /\ chat.responded \in BOOLEAN
  BY OutIs
<1>1. /\ UNCHANGED <<backend, chat, adapter>> /\ c # <<>> /\ ~out.flying /\ ~out.ending
      /\ out' = CASE e.kind = "end" -> [out EXCEPT !.chain = Tail(@), !.ended = TRUE]
                  [] e.kind # "end" /\ out.ended -> [out EXCEPT !.chain = Tail(@)]
                  [] OTHER -> [out EXCEPT !.chain = Tail(@), !.flying = TRUE, !.queue = Append(@, e)]
  BY DEF Hand, Chained
<1>2. /\ \A i \in DOMAIN c : Typed(c[i])
      /\ \A i \in DOMAIN Given : Given[i].kind # "end"
  BY OutIs
<1>3. /\ e \in Ev /\ Tail(c) \in Seq(Ev) /\ Len(c) \in Nat /\ Len(c) >= 1 /\ Len(Tail(c)) = Len(c) - 1
      /\ e = c[1] /\ \A i \in 1 .. Len(c) - 1 : Tail(c)[i] = c[i + 1]
  BY <1>0, <1>1, HeadAndTail
<1>4. Typed(e) /\ \A i \in DOMAIN Tail(c) : Typed(Tail(c)[i])
  <2>1. DOMAIN Tail(c) = 1 .. Len(Tail(c)) /\ DOMAIN c = 1 .. Len(c)
    BY <1>0, <1>3, LenProperties
  <2> HIDE DEF c, e
  <2>2. 1 \in DOMAIN c
    BY <1>3, <2>1
  <2>3. ASSUME NEW i \in DOMAIN Tail(c) PROVE Typed(Tail(c)[i])
    <3>1. i \in 1 .. Len(c) - 1 /\ i + 1 \in DOMAIN c
      BY <1>3, <2>1
    <3> QED BY <1>2, <1>3, <3>1
  <2> QED BY <1>2, <1>3, <2>2, <2>3
<1> HIDE DEF w, q, c, e
<1>5. CASE e.kind = "end" \/ out.ended
  <2>1. /\ DOMAIN out' = DOMAIN out /\ out'.chain = Tail(c) /\ out'.queue = q /\ out'.wire = w
        /\ out'.flying = out.flying /\ out'.ending = out.ending /\ out'.waiting = out.waiting
        /\ out'.ended
        /\ out'.ended \in BOOLEAN
    <3>1. CASE e.kind = "end"
      <4>1. out' = [out EXCEPT !.chain = Tail(@), !.ended = TRUE]
        BY <1>1, <3>1
      <4> QED BY <1>0, <4>1 DEF w, q, c
    <3>2. CASE e.kind # "end"
      <4>1. out' = [out EXCEPT !.chain = Tail(@)]
        BY <1>1, <1>5, <3>2
      <4> QED BY <1>0, <1>5, <3>2, <4>1 DEF w, q, c
    <3> QED BY <3>1, <3>2
  <2>2. Given' = Given
    BY <2>1 DEF Given, w, q
  <2>3. OutOK'
    BY <1>0, <1>2, <1>3, <1>4, <2>1, <2>2 DEF OutOK
  <2>4. Over /\ chat.responded
    <3>1. CASE out.ended
      BY <1>0, <3>1
    <3>2. CASE ~out.ended
      <4>1. Open /\ e.kind = "end"
        BY <1>0, <1>5, <3>2
      <4>2. /\ Story(w) /\ w[Len(w)].kind = "done"
            /\ \A i \in 1 .. Len(w) : w[i].kind = "DONE" => i >= Len(w) - 1
        BY <1>1, <4>1, EndIsOver DEF w, c, e
      <4>3. DOMAIN w = 1 .. Len(w)
        BY <1>0, LenProperties
      <4>4. chat.responded
        <5>1. CASE adapter.finished
          BY <5>1 DEF Inv, StateOK
        <5>2. CASE ~adapter.finished
          <6> DEFINE g == Given
          <6>1. Telling(g \o c, ToldIds) /\ g \in Seq(Ev)
            BY <1>0, <4>1, <5>2, InGiven DEF Open, Given, c, w, q
          <6> HIDE DEF g
          <6>2. /\ Len(g) \in Nat /\ \A i \in 1 .. Len(c) : Len(g) + i \in 1 .. Len(g \o c) /\ (g \o c)[Len(g) + i] = c[i]
            BY <1>0, <6>1, InGiven
          <6>3. 1 \in 1 .. Len(c)
            BY <1>3
          <6>4. Len(g) + 1 \in 1 .. Len(g \o c) /\ (g \o c)[Len(g) + 1].kind = "end"
            BY <1>3, <4>1, <6>2, <6>3
          <6>5. g \o c \in Seq(Ev)
            BY <1>0, <6>1
          <6>6. Len(g) + 1 \in DOMAIN (g \o c)
            BY <6>4, <6>5, LenProperties
          <6> QED BY <6>1, <6>4, <6>6 DEF Telling
        <5> QED BY <5>1, <5>2
      <4> QED BY <4>2, <4>3, <4>4 DEF Over, w
    <3> QED BY <1>0, <3>1, <3>2
  <2>5. Over'
    BY <2>1, <2>4 DEF Over, w
  <2> QED BY <1>1, <2>1, <2>3, <2>4, <2>5, SocketStep
<1>6. CASE e.kind # "end" /\ ~out.ended
  <2>1. /\ DOMAIN out' = DOMAIN out /\ out'.chain = Tail(c) /\ out'.queue = Append(q, e) /\ out'.wire = w
        /\ out'.flying = TRUE /\ out'.ending = out.ending /\ out'.waiting = out.waiting
        /\ out'.ended = out.ended
    <3>1. out' = [out EXCEPT !.chain = Tail(@), !.flying = TRUE, !.queue = Append(@, e)]
      BY <1>1, <1>6
    <3> QED BY <1>0, <3>1 DEF w, q, c
  <2>2. Open
    BY <1>0, <1>6
  <2>3. Append(q, e) \in Seq(Ev) /\ w \o Append(q, e) = Append(w \o q, e) /\ w \o q \in Seq(Ev)
    BY <1>0, <1>3, QueueOnWire, SMTT(30)
  <2>4. Given' = Append(Given, e) /\ Given \in Seq(Ev)
    BY <2>1, <2>3 DEF Given, w, q
  <2>5. Given' \o out'.chain = Given \o out.chain
    <3>1. Append(Given, e) \o Tail(c) = Given \o c
      BY <1>0, <1>1, <2>4, ChainOn DEF e
    <3> QED BY <2>1, <2>4, <3>1 DEF c
  <2>6. OutOK'
    <3>1. \A i \in DOMAIN Given' : Given'[i].kind # "end"
      <4> DEFINE g == Given
                 h == Append(g, e)
      <4>1. g \in Seq(Ev) /\ \A i \in DOMAIN g : g[i].kind # "end"
        BY <1>2, <2>4
      <4> HIDE DEF g
      <4>2. /\ h \in Seq(Ev) /\ Len(h) = Len(g) + 1 /\ Len(g) \in Nat /\ h[Len(g) + 1] = e
            /\ \A i \in 1 .. Len(g) : h[i] = g[i]
        BY <1>3, <4>1, Appended
      <4>3. DOMAIN h = 1 .. Len(h) /\ DOMAIN g = 1 .. Len(g)
        BY <4>1, <4>2, LenProperties
      <4> HIDE DEF h
      <4>4. \A i \in DOMAIN h : i \in DOMAIN g \/ i = Len(g) + 1
        BY <4>2, <4>3
      <4>5. \A i \in DOMAIN h : h[i].kind # "end"
        BY <1>6, <4>1, <4>2, <4>3, <4>4
      <4> QED BY <2>4, <4>5 DEF g, h
    <3>2. TRUE \in BOOLEAN
      OBVIOUS
    <3> QED BY <1>0, <1>3, <1>4, <2>1, <2>3, <3>1, <3>2 DEF OutOK, w
  <2>7. QueueInv'
    <3>1. PICK f, a, n, r, f2 :
            /\ f = out.flying /\ a = out.waiting /\ n = out.ending /\ r = chat.responded /\ f2 = out'.flying
      OBVIOUS
    <3>2. QueueOK(w, q, f, a, n, r)
      BY <2>2, <3>1 DEF Open, QueueInv, w, q
    <3>3. f \in BOOLEAN /\ ~f /\ n \in BOOLEAN /\ ~n /\ r \in BOOLEAN /\ f2 \in BOOLEAN /\ f2
      BY <1>0, <1>1, <2>1, <3>1
    <3>4. QueueOK(w, Append(q, e), f2, a, n, r)
      <4>1. e \in Ev /\ Typed(e) /\ w \in Seq(Ev) /\ q \in Seq(Ev)
        BY <1>0, <1>3, <1>4
      <4> QED BY <3>2, <3>3, <4>1, HandKeeps, ZenonT(40)
    <3>5. chat'.responded = chat.responded
      BY <1>1
    <3> QED BY <2>1, <3>1, <3>4, <3>5 DEF QueueInv, w
  <2>8. Open'
    BY <1>1, <2>2, <2>5, <2>7 DEF Open, ToldIds
  <2> QED BY <1>1, <1>6, <2>1, <2>6, <2>8, SocketStep
<1> QED BY <1>0, <1>5, <1>6

-----------------------------------------------------------------------------
(* The backend and the chat handler keep the invariant.                     *)

\* What the chain gains.
Gains(g, c, e, x) == g \o ((c \o e) \o x) = ((g \o c) \o e) \o x

LEMMA ChainGains ==
  ASSUME NEW g \in Seq(Ev), NEW c \in Seq(Ev), NEW e \in Seq(Ev), NEW x \in Seq(Ev)
  PROVE  Gains(g, c, e, x)
<1> DEFINE ce == c \o e
<1>1. ce \in Seq(Ev)
  OBVIOUS
<1>2. (g \o c) \o e = g \o ce
  OBVIOUS
<1> HIDE DEF ce
<1>3. (g \o ce) \o x = g \o (ce \o x)
  BY <1>1
<1> QED BY <1>2, <1>3 DEF ce, Gains

\* While the response is open and the adapter is not done.
LEMMA InvTells ==
  ASSUME Inv, ~chat.responded
  PROVE  /\ ~out.ended /\ ~adapter.finished /\ Open
         /\ Sound(Given \o out.chain, ToldIds)
         /\ out.chain \in Seq(Ev) /\ Given \in Seq(Ev)
<1>1. ~out.ended /\ ~adapter.finished
  BY DEF Inv, StateOK
<1>2. Open
  BY <1>1 DEF Inv
<1>3. out.wire \in Seq(Ev) /\ out.queue \in Seq(Ev) /\ out.chain \in Seq(Ev)
  BY OutIs
<1>4. Given \in Seq(Ev)
  BY <1>3 DEF Given
<1>5. Given \o out.chain \in Seq(Ev)
  BY <1>3, <1>4
<1>6. Story(Given \o out.chain) /\ Telling(Given \o out.chain, ToldIds)
  BY <1>1, <1>2 DEF Open
<1> QED BY <1>1, <1>2, <1>3, <1>4, <1>5, <1>6 DEF Sound

\* Only the chain changes: what was given stays as it is.
LEMMA ChainStep ==
  ASSUME Inv, DOMAIN out' = DOMAIN out, out'.ended = out.ended, out'.queue = out.queue,
         out'.wire = out.wire, out'.waiting = out.waiting, out'.flying = out.flying,
         out'.ending = out.ending, chat.responded => chat'.responded,
         out'.chain \in Seq(Ev), \A i \in DOMAIN out'.chain : Typed(out'.chain[i]),
         StateOK', CallsInv',
         ~out.ended => Story(Given \o out'.chain),
         ~out.ended /\ ~adapter'.finished => Telling(Given \o out'.chain, ToldIds')
  PROVE  Inv'
<1>1. Given' = Given
  BY DEF Given
<1>2. OutOK'
  BY <1>1 DEF Inv, OutOK
<1>3. CASE out.ended
  <2>1. Over'
    BY <1>3 DEF Inv, Over
  <2> QED BY <1>2, <1>3, <2>1 DEF Inv
<1>4. CASE ~out.ended
  <2>1. QueueInv
    BY <1>4 DEF Inv, Open
  <2>2. QueueInv'
    BY <2>1 DEF QueueInv, QueueOK
  <2>3. Open'
    BY <1>1, <1>4, <2>2 DEF Open
  <2> QED BY <1>2, <1>4, <2>3 DEF Inv
<1> QED BY <1>3, <1>4 DEF Inv, OutOK

\* emitDelta and emitMessage.
LEMMA TellStep ==
  ASSUME Inv, Reading, NEW fs \in Seq(Frag), NEW message \in BOOLEAN, NEW text \in BOOLEAN,
         \A i \in DOMAIN fs : Fitting(backend.style, fs[i]),
         Tell(Ingest(chat.agg, fs, message), text),
         BackendOK', backend'.style = backend.style, backend'.child = backend.child
  PROVE  Inv'
<1> DEFINE r == Ingest(chat.agg, fs, message)
           t == OnToolDeltas(r.deltas)
           s == Ingest(adapter.agg, AsFragments(r.deltas), FALSE)
           em == EmitDeltas(adapter.items, s.deltas)
           ids == IdsOf(r.agg.calls)
           drop == chat.drop \/ r.deltas # <<>>
           shown == text /\ ~drop
           x == IF shown THEN <<Plain("text")>> ELSE <<>>
           g == Given
           c == out.chain
           z == g \o c
<1>1. /\ StateOK /\ CallsInv /\ OutOK /\ backend.child = "running" /\ ~chat.responded
      /\ DOMAIN out = {"chain", "flying", "queue", "waiting", "ending", "ended", "conn", "wire"}
      /\ DOMAIN chat = {"agg", "texts", "any", "drop", "responded", "finalized"}
      /\ DOMAIN adapter = {"agg", "items", "finished"}
      /\ chat.finalized \in BOOLEAN /\ chat.responded \in BOOLEAN
  BY DEF Inv, StateOK, Reading
<1>2. /\ ~out.ended /\ ~adapter.finished /\ Open /\ Sound(z, ToldIds)
      /\ c \in Seq(Ev) /\ g \in Seq(Ev)
  BY <1>1, InvTells
<1>3. /\ chat' = [chat EXCEPT !.agg = r.agg, !.drop = drop, !.any = @ \/ shown]
      /\ adapter' = t.adapter
      /\ out' = [out EXCEPT !.chain = @ \o t.events \o x]
  BY DEF Tell
<1>4. /\ ChatOf(backend.style, r.agg) /\ r.deltas \in Seq(Dlt)
      /\ LeadsTo(ToldIds, r.deltas, ids)
  <2>1. ChatOf(backend.style, chat.agg)
    BY <1>1 DEF CallsInv, ChatOf
  <2> QED BY <2>1, ChatIngest DEF ToldIds
<1>5. ids \in Seq(Ident) /\ Distinct(ids)
  BY <1>4, ChatDistinct DEF ChatOf
<1>6. t = [adapter |-> [adapter EXCEPT !.agg = s.agg, !.items = em.items], events |-> em.events]
  BY DEF OnToolDeltas, OnIngested
<1> HIDE DEF r, t, s, em
<1>6a. t.adapter = [adapter EXCEPT !.agg = s.agg, !.items = em.items] /\ t.events = em.events
  BY <1>6
<1>7. chat'.agg = r.agg /\ DOMAIN chat' = DOMAIN chat
      /\ chat'.responded = chat.responded /\ chat'.finalized = chat.finalized
  BY <1>1, <1>3
<1>8. /\ adapter'.agg = s.agg /\ adapter'.items = em.items /\ DOMAIN adapter' = DOMAIN adapter
      /\ adapter'.finished = adapter.finished
  BY <1>1, <1>3, <1>6a
<1>9. /\ DOMAIN out' = DOMAIN out /\ out'.ended = out.ended /\ out'.queue = out.queue
      /\ out'.wire = out.wire /\ out'.waiting = out.waiting /\ out'.flying = out.flying
      /\ out'.ending = out.ending /\ out'.chain = (c \o em.events) \o x
  BY <1>1, <1>3, <1>6a
<1>10. Mirrors(adapter.agg, ToldIds) /\ adapter.items \in Seq(Item) /\ IdsOf(adapter.items) = ToldIds
  BY <1>1 DEF CallsInv
<1>10a. ToldIds' = ids
  BY <1>7 DEF ToldIds
<1> HIDE DEF ids, drop, g, c
<1>11. Mirrors(s.agg, ids) /\ s.deltas \in Seq(Dlt) /\ LeadsTo(ToldIds, s.deltas, ids)
  BY <1>4, <1>5, <1>10, AdapterIngest DEF s
<1> HIDE DEF z
<1>12. /\ em.items \in Seq(Item) /\ IdsOf(em.items) = ids
       /\ em.events \in Seq(Ev) /\ (\A i \in DOMAIN em.events : em.events[i].kind \in {"added", "args"})
       /\ z \o em.events \in Seq(Ev) /\ Story(z \o em.events) /\ Telling(z \o em.events, ids)
  <2>1. z \in Seq(Ev) /\ Story(z) /\ Telling(z, ToldIds)
    BY <1>2 DEF Sound
  <2> QED BY <1>5, <1>10, <1>11, <2>1, EmitTells DEF em
<1>13. x \in Seq(Ev) /\ \A i \in DOMAIN x : x[i].kind \in {"text"}
  BY EventIs DEF Kinds
<1>14. Story((z \o em.events) \o x) /\ Telling((z \o em.events) \o x, ids)
  <2> DEFINE y == z \o em.events
  <2>0. y \in Seq(Ev) /\ Story(y) /\ Telling(y, ids)
    BY <1>12
  <2> HIDE DEF y
  <2>1. CASE shown
    <3>1. x = <<Plain("text")>>
      BY <2>1
    <3> HIDE DEF x
    <3>2. Story(y \o <<Plain("text")>>) /\ Telling(y \o <<Plain("text")>>, ids)
      BY <1>5, <2>0, TellText
    <3> QED BY <3>1, <3>2 DEF y
  <2>2. CASE ~shown
    <3>1. x = <<>>
      BY <2>2
    <3> HIDE DEF x
    <3>2. y \o <<>> = y
      BY <2>0
    <3> QED BY <2>0, <3>1, <3>2 DEF y
  <2> QED BY <2>1, <2>2
<1> HIDE DEF x
<1>15. out'.chain \in Seq(Ev) /\ \A i \in DOMAIN out'.chain : Typed(out'.chain[i])
  <2> DEFINE K == Kinds \ {"error", "DONE"}
             e == em.events
  <2>1. \A i \in DOMAIN c : c[i].kind \in K
    <3>1. \A i \in DOMAIN c : c[i] \in Ev
      BY <1>2, ElementOfSeq, LenProperties
    <3>2. \A i \in DOMAIN c : Typed(c[i])
      BY <1>1 DEF OutOK, c
    <3> QED BY <3>1, <3>2 DEF Typed, Ev
  <2>2. /\ e \in Seq(Ev) /\ \A i \in DOMAIN e : e[i].kind \in K
    BY <1>12 DEF Kinds
  <2>3. \A i \in DOMAIN x : x[i].kind \in K
    BY <1>13 DEF Kinds
  <2> HIDE DEF K, e
  <2>3a. OfKinds(c, K) /\ OfKinds(e, K) /\ OfKinds(x, K)
    BY <1>2, <1>13, <2>1, <2>2, <2>3 DEF OfKinds
  <2>4. OfKinds(c \o e, K)
    BY <2>3a, KindsJoin
  <2>4a. OfKinds((c \o e) \o x, K)
    BY <2>3a, <2>4, KindsJoin
  <2>5. (c \o e) \o x \in Seq(Ev) /\ \A i \in DOMAIN ((c \o e) \o x) : ((c \o e) \o x)[i].kind \in K
    BY <2>4a DEF OfKinds
  <2>6. out'.chain = (c \o e) \o x
    BY <1>9 DEF e
  <2> QED BY <2>5, <2>6 DEF K, Typed
<1>16. Given \o out'.chain = (z \o em.events) \o x
  <2> DEFINE e == em.events
  <2>1. g \in Seq(Ev) /\ c \in Seq(Ev) /\ e \in Seq(Ev) /\ x \in Seq(Ev)
    BY <1>2, <1>12, <1>13
  <2>2. out'.chain = (c \o e) \o x
    BY <1>9
  <2> HIDE DEF e
  <2>3. g \o ((c \o e) \o x) = ((g \o c) \o e) \o x
    <3>1. Gains(g, c, e, x)
      BY <2>1, ChainGains
    <3> QED BY <3>1 DEF Gains
  <2> QED BY <2>2, <2>3 DEF z, g, e
<1>17. StateOK'
  BY <1>1, <1>7, <1>8, <1>9 DEF StateOK
<1>18. CallsInv'
  <2>1. Chatted(r.agg) /\ (backend.style = "chunks" => Faithful(r.agg))
    BY <1>4 DEF ChatOf
  <2> QED BY <1>7, <1>8, <1>10a, <1>11, <1>12, <2>1 DEF CallsInv
<1>19. chat.responded => chat'.responded
  BY <1>7
<1> QED BY <1>9, <1>10a, <1>14, <1>15, <1>16, <1>17, <1>18, <1>19, ChainStep

\* A backend that has said more.
LEMMA BackendSays ==
  ASSUME BackendOK, NEW sent \in [Names -> Nat],
         \A n \in Names : sent[n] \in 0 .. Len(backend.truth[n]),
         backend' = [backend EXCEPT !.sent = sent]
  PROVE  BackendOK' /\ backend'.style = backend.style /\ backend'.child = backend.child
<1>1. /\ backend' \in [style : {"chunks", "items"}, truth : [Names -> Truths], sent : [Names -> Nat],
                       child : {"running", "exiting", "closed"}]
      /\ backend'.sent = sent /\ backend'.truth = backend.truth
      /\ backend'.style = backend.style /\ backend'.child = backend.child
  BY DEF BackendOK
<1> QED BY <1>1 DEF BackendOK

LEMMA TruthIs ==
  ASSUME BackendOK, NEW n \in Names
  PROVE  /\ backend.truth[n] \in Args /\ Len(backend.truth[n]) \in Nat
         /\ backend.sent[n] \in Nat /\ backend.sent[n] <= Len(backend.truth[n])
<1>1. backend.truth[n] \in Truths /\ backend.sent[n] \in 0 .. Len(backend.truth[n])
  BY DEF BackendOK
<1>2. backend.truth[n] \in Args
  BY <1>1 DEF Args, ResponsesAssumption
<1>3. Len(backend.truth[n]) \in Nat
  BY <1>2, LenProperties DEF Args
<1> QED BY <1>1, <1>2, <1>3

LEMMA ToolFragmentStep ==
  ASSUME Inv, NEW n \in Names, NEW k \in 1 .. MaxChunk,
         k <= Len(backend.truth[n]) - backend.sent[n], ToolFragment(n, k)
  PROVE  Inv'
<1> DEFINE part == SubSeq(backend.truth[n], backend.sent[n] + 1, backend.sent[n] + k)
           first == backend.sent[n] = 0
           known == Alias(chat.agg, Id(n))
           f == IF backend.style = "items"
                THEN Fragment(Id(n), NoName, 0, part, FALSE)
                ELSE Fragment(NoName, IF first THEN Id(n) ELSE NoName,
                              IF first THEN Len(chat.agg.calls) + 1 ELSE known, part, FALSE)
           fs == <<f>>
<1>1. /\ Reading /\ Tell(Ingest(chat.agg, fs, FALSE), FALSE)
      /\ backend' = [backend EXCEPT !.sent[n] = @ + k]
  BY DEF ToolFragment, Coming
<1>2. BackendOK /\ Chatted(chat.agg) /\ k \in Nat /\ backend.style \in {"chunks", "items"}
  BY DEF Inv, StateOK, CallsInv, BackendOK, ResponsesAssumption
<1>3. /\ backend.truth[n] \in Args /\ Len(backend.truth[n]) \in Nat
      /\ backend.sent[n] \in Nat /\ backend.sent[n] + k <= Len(backend.truth[n])
  BY <1>2, TruthIs
<1>4. part \in Args
  BY <1>2, <1>3 DEF Args
<1>5. Len(chat.agg.calls) + 1 \in Nat /\ known \in Nat
  <2>1. Formed(chat.agg)
    BY <1>2 DEF Chatted
  <2>2. Len(chat.agg.calls) \in Nat /\ DOMAIN chat.agg.calls = 1 .. Len(chat.agg.calls)
    BY <2>1, LenProperties DEF Formed
  <2> QED BY <2>1, <2>2 DEF Formed, Alias
<1>6. Id(n) \in Ids /\ Id(n) \in Ident
  BY Idents
<1> HIDE DEF part, known
<1>7. f \in Frag /\ Fitting(backend.style, f)
  <2>1. CASE backend.style = "items"
    <3>1. f = Fragment(Id(n), NoName, 0, part, FALSE)
      BY <2>1
    <3> HIDE DEF f
    <3>2. f \in Frag /\ f.backend = Id(n) /\ f.id = NoName
      BY <1>4, <1>6, <3>1 DEF Fragment, Frag
    <3> QED BY <1>6, <2>1, <3>2 DEF Fitting
  <2>2. CASE backend.style = "chunks"
    <3>1. PICK id, index : /\ id = IF first THEN Id(n) ELSE NoName
                           /\ index = IF first THEN Len(chat.agg.calls) + 1 ELSE known
      OBVIOUS
    <3>2. f = Fragment(NoName, id, index, part, FALSE)
      BY <2>2, <3>1
    <3> HIDE DEF f
    <3>3. id \in Ids \cup {NoName} /\ id \in Ident \cup {NoName} /\ index \in Nat
      BY <1>5, <1>6, <3>1
    <3>4. f \in Frag /\ f.backend = NoName /\ f.id = id
      BY <1>4, <3>2, <3>3 DEF Fragment, Frag
    <3> QED BY <2>2, <3>3, <3>4 DEF Fitting
  <2> QED BY <1>2, <2>1, <2>2
<1> HIDE DEF f
<1>8. fs \in Seq(Frag) /\ \A i \in DOMAIN fs : Fitting(backend.style, fs[i])
  BY <1>7
<1>9. BackendOK' /\ backend'.style = backend.style /\ backend'.child = backend.child
  <2> DEFINE sent == [backend.sent EXCEPT ![n] = @ + k]
  <2>1. backend.sent \in [Names -> Nat]
    BY <1>2 DEF BackendOK
  <2>2. sent \in [Names -> Nat]
    BY <1>2, <2>1
  <2>3. ASSUME NEW m \in Names PROVE sent[m] \in 0 .. Len(backend.truth[m])
    <3>1. backend.sent[m] \in 0 .. Len(backend.truth[m])
      BY <1>2 DEF BackendOK
    <3>2. sent[m] = IF m = n THEN backend.sent[n] + k ELSE backend.sent[m]
      BY <2>1
    <3> QED BY <1>2, <1>3, <3>1, <3>2
  <2>4. backend' = [backend EXCEPT !.sent = sent]
    BY <1>1, <1>2 DEF BackendOK
  <2> HIDE DEF sent
  <2> QED BY <1>2, <2>2, <2>3, <2>4, BackendSays
<1> HIDE DEF fs
<1>10. PICK no \in BOOLEAN : no = FALSE
  OBVIOUS
<1>11. Tell(Ingest(chat.agg, fs, no), no)
  BY <1>1, <1>10
<1> QED BY <1>1, <1>8, <1>9, <1>11, TellStep

LEMMA ArgumentsDoneStep ==
  ASSUME Inv, NEW n \in Names, ArgumentsDone(n)
  PROVE  Inv'
<1> DEFINE f == Fragment(Id(n), NoName, 0, backend.truth[n], TRUE)
           fs == <<f>>
<1>1. /\ Reading /\ backend.style = "items" /\ Tell(Ingest(chat.agg, fs, FALSE), FALSE)
      /\ backend' = [backend EXCEPT !.sent[n] = Len(backend.truth[n])]
  BY DEF ArgumentsDone
<1>2. BackendOK
  BY DEF Inv, StateOK
<1>3. backend.truth[n] \in Args /\ Len(backend.truth[n]) \in Nat
  BY <1>2, TruthIs
<1>4. Id(n) \in Ids /\ Id(n) \in Ident
  BY Idents
<1>5. f \in Frag /\ Fitting(backend.style, f)
  <2>1. f \in Frag /\ f.backend = Id(n) /\ f.id = NoName
    BY <1>3, <1>4 DEF Fragment, Frag
  <2> QED BY <1>1, <1>4, <2>1 DEF Fitting
<1> HIDE DEF f
<1>6. fs \in Seq(Frag) /\ \A i \in DOMAIN fs : Fitting(backend.style, fs[i])
  BY <1>5
<1>7. BackendOK' /\ backend'.style = backend.style /\ backend'.child = backend.child
  <2> DEFINE sent == [backend.sent EXCEPT ![n] = Len(backend.truth[n])]
  <2>1. backend.sent \in [Names -> Nat]
    BY <1>2 DEF BackendOK
  <2>2. sent \in [Names -> Nat]
    BY <1>3, <2>1
  <2>3. ASSUME NEW m \in Names PROVE sent[m] \in 0 .. Len(backend.truth[m])
    <3>1. backend.sent[m] \in 0 .. Len(backend.truth[m])
      BY <1>2 DEF BackendOK
    <3>2. sent[m] = IF m = n THEN Len(backend.truth[n]) ELSE backend.sent[m]
      BY <2>1
    <3> QED BY <1>3, <3>1, <3>2
  <2>4. backend' = [backend EXCEPT !.sent = sent]
    BY <1>1, <1>2 DEF BackendOK
  <2> HIDE DEF sent
  <2> QED BY <1>2, <2>2, <2>3, <2>4, BackendSays
<1> HIDE DEF fs
<1>8. PICK no \in BOOLEAN : no = FALSE
  OBVIOUS
<1>9. Tell(Ingest(chat.agg, fs, no), no)
  BY <1>1, <1>8
<1> QED BY <1>1, <1>6, <1>7, <1>9, TellStep

LEMMA OrderIs ==
  ASSUME NEW named \in SUBSET Names
  PROVE  /\ DOMAIN SetToSeq(named) = 1 .. Cardinality(named) /\ Cardinality(named) \in Nat
         /\ \A i \in 1 .. Cardinality(named) : SetToSeq(named)[i] \in named
<1>1. Cardinality(named) \in Nat /\ ExistsBijection(1 .. Cardinality(named), named)
  BY FS_Subset, FS_CardinalityType, ToolCallsAssumption
<1>2. \E f \in [1 .. Cardinality(named) -> named] : IsInjective(f)
  BY <1>1 DEF ExistsBijection, Bijection, Injection, IsInjective
<1>3. SetToSeq(named) \in [1 .. Cardinality(named) -> named]
  BY <1>2 DEF SetToSeq
<1> QED BY <1>1, <1>3

LEMMA MessageStep ==
  ASSUME Inv, NEW named \in SUBSET Names, NEW text \in BOOLEAN, Message(named, text)
  PROVE  Inv'
<1> DEFINE order == SetToSeq(named)
           N == Cardinality(named)
           fs == [i \in DOMAIN order |->
                    Fragment(NoName, Id(order[i]), i, backend.truth[order[i]], TRUE)]
           sent == [n \in Names |-> IF n \in named THEN Len(backend.truth[n]) ELSE 0]
<1>1. /\ Reading /\ backend.style = "chunks" /\ Tell(Ingest(chat.agg, fs, TRUE), text)
      /\ backend' = [backend EXCEPT !.sent = sent]
  BY DEF Message
<1>2. BackendOK
  BY DEF Inv, StateOK
<1>3. DOMAIN order = 1 .. N /\ N \in Nat /\ \A i \in 1 .. N : order[i] \in named
  BY OrderIs
<1> HIDE DEF order, N
<1>4. ASSUME NEW i \in 1 .. N PROVE fs[i] \in Frag /\ Fitting(backend.style, fs[i])
  <2> DEFINE n == order[i]
  <2>1. n \in Names /\ fs[i] = Fragment(NoName, Id(n), i, backend.truth[n], TRUE)
    BY <1>3
  <2> HIDE DEF n, fs
  <2>2. backend.truth[n] \in Args
    BY <1>2, <2>1, TruthIs
  <2>3. Id(n) \in Ids /\ Id(n) \in Ident
    BY <2>1, Idents
  <2>4. i \in Nat
    BY <1>3
  <2>5. fs[i] \in Frag /\ fs[i].backend = NoName /\ fs[i].id = Id(n)
    BY <2>1, <2>2, <2>3, <2>4 DEF Fragment, Frag
  <2> QED BY <1>1, <2>3, <2>5 DEF Fitting
<1>5. DOMAIN fs = 1 .. N
  BY <1>3
<1>6. fs = [i \in 1 .. N |-> fs[i]]
  BY <1>3
<1> HIDE DEF fs
<1>7. fs \in Seq(Frag)
  BY <1>3, <1>4, <1>6, IsASeq
<1>8. \A i \in DOMAIN fs : Fitting(backend.style, fs[i])
  BY <1>4, <1>5
<1>9. BackendOK' /\ backend'.style = backend.style /\ backend'.child = backend.child
  <2>1. ASSUME NEW n \in Names
        PROVE  sent[n] \in 0 .. Len(backend.truth[n]) /\ sent[n] \in Nat
    BY <1>2, TruthIs
  <2>2. sent \in [Names -> Nat]
    BY <2>1
  <2> HIDE DEF sent
  <2> QED BY <1>1, <1>2, <2>1, <2>2, BackendSays
<1>10. PICK yes \in BOOLEAN : yes = TRUE
  OBVIOUS
<1>11. Tell(Ingest(chat.agg, fs, yes), text)
  BY <1>1, <1>10
<1> QED BY <1>1, <1>7, <1>8, <1>9, <1>11, TellStep

LEMMA TextDeltaStep ==
  ASSUME Inv, TextDelta
  PROVE  Inv'
<1> DEFINE g == Given
           c == out.chain
           z == g \o c
           e == Plain("text")
<1>1. /\ StateOK /\ CallsInv /\ OutOK /\ backend.child = "running" /\ ~chat.responded
      /\ DOMAIN out = {"chain", "flying", "queue", "waiting", "ending", "ended", "conn", "wire"}
      /\ DOMAIN chat = {"agg", "texts", "any", "drop", "responded", "finalized"}
      /\ UNCHANGED <<backend, adapter>>
  BY DEF Inv, StateOK, TextDelta, Reading
<1>2. /\ ~out.ended /\ ~adapter.finished /\ Open /\ Sound(z, ToldIds)
      /\ c \in Seq(Ev) /\ g \in Seq(Ev)
  BY <1>1, InvTells
<1>3. chat'.agg = chat.agg /\ DOMAIN chat' = DOMAIN chat
      /\ chat'.responded = chat.responded /\ chat'.finalized = chat.finalized
  BY <1>1 DEF TextDelta
<1>4. ToldIds' = ToldIds
  BY <1>3 DEF ToldIds
<1>5. StateOK'
  <2>1. DOMAIN out' = DOMAIN out /\ out'.ended = out.ended
    BY <1>1 DEF TextDelta
  <2> QED BY <1>1, <1>3, <2>1 DEF StateOK, BackendOK
<1>6. CallsInv'
  BY <1>1, <1>3, <1>4 DEF CallsInv
<1>7. CASE chat.drop
  <2>1. out' = out
    BY <1>7 DEF TextDelta
  <2>2. /\ c \in Seq(Ev) /\ \A i \in DOMAIN c : Typed(c[i])
    BY <1>1 DEF OutOK
  <2> QED BY <1>1, <1>2, <1>3, <1>4, <1>5, <1>6, <2>1, <2>2, ChainStep DEF Sound
<1>8. CASE ~chat.drop
  <2>1. /\ DOMAIN out' = DOMAIN out /\ out'.ended = out.ended /\ out'.queue = out.queue
        /\ out'.wire = out.wire /\ out'.waiting = out.waiting /\ out'.flying = out.flying
        /\ out'.ending = out.ending /\ out'.chain = Append(c, e)
    BY <1>1, <1>8 DEF TextDelta
  <2>2. e \in Ev /\ e.kind = "text"
    BY EventIs DEF Kinds
  <2>3. ToldIds \in Seq(Ident)
    BY <1>1, ChatDistinct DEF CallsInv, ToldIds
  <2>4. Story(z \o <<e>>) /\ Telling(z \o <<e>>, ToldIds)
    BY <1>2, <2>3, TellText DEF Sound
  <2>5. \A i \in DOMAIN c : Typed(c[i])
    BY <1>1 DEF OutOK
  <2> HIDE DEF e, c, g
  <2>6. /\ Append(c, e) \in Seq(Ev) /\ Len(Append(c, e)) = Len(c) + 1 /\ Len(c) \in Nat
        /\ Append(c, e)[Len(c) + 1] = e /\ \A i \in 1 .. Len(c) : Append(c, e)[i] = c[i]
    BY <1>2, <2>2, Appended
  <2>7. DOMAIN Append(c, e) = 1 .. Len(c) + 1 /\ DOMAIN c = 1 .. Len(c)
    BY <1>2, <2>6, LenProperties
  <2>8. Typed(e)
    BY <2>2 DEF Typed
  <2>9. ASSUME NEW i \in DOMAIN Append(c, e) PROVE Typed(Append(c, e)[i])
    <3>1. i \in 1 .. Len(c) \/ i = Len(c) + 1
      BY <2>6, <2>7
    <3> QED BY <2>5, <2>6, <2>7, <2>8, <3>1
  <2>10. g \o Append(c, e) = z \o <<e>>
    BY <1>2, <2>2
  <2>11. Given \o out'.chain = z \o <<e>>
    BY <2>1, <2>10 DEF g
  <2>12. out'.chain \in Seq(Ev) /\ \A i \in DOMAIN out'.chain : Typed(out'.chain[i])
    BY <2>1, <2>6, <2>9
  <2> HIDE DEF z
  <2> QED BY <1>3, <1>4, <1>5, <1>6, <2>1, <2>4, <2>11, <2>12, ChainStep
<1> QED BY <1>7, <1>8

\* finalizeStream, behind a chain that may have gained a text.
LEMMA FinalizeStep ==
  ASSUME Inv, ~chat.finalized, NEW o, DOMAIN o = DOMAIN out, o.ended = out.ended, o.queue = out.queue,
         o.wire = out.wire, o.waiting = out.waiting, o.flying = out.flying, o.ending = out.ending,
         o.chain \in Seq(Ev), \A i \in DOMAIN o.chain : Typed(o.chain[i]),
         ~out.ended => Sound(Given \o o.chain, ToldIds),
         Finalize(o), BackendOK', backend'.style = backend.style, backend'.child # "running"
  PROVE  Inv'
<1> DEFINE c == OnDone(o).chain
<1>1. /\ StateOK /\ CallsInv /\ OutOK /\ ~adapter.finished
      /\ DOMAIN out = {"chain", "flying", "queue", "waiting", "ending", "ended", "conn", "wire"}
      /\ DOMAIN chat = {"agg", "texts", "any", "drop", "responded", "finalized"}
      /\ DOMAIN adapter = {"agg", "items", "finished"}
  BY DEF Inv, StateOK
<1>2. /\ chat' = [chat EXCEPT !.finalized = TRUE, !.responded = TRUE]
      /\ adapter' = [adapter EXCEPT !.finished = TRUE]
      /\ out' = OnDone(o)
  BY <1>1 DEF Finalize
<1>3. /\ chat'.agg = chat.agg /\ DOMAIN chat' = DOMAIN chat /\ chat'.finalized /\ chat'.responded
      /\ chat'.finalized \in BOOLEAN /\ chat'.responded \in BOOLEAN /\ chat'.finalized = TRUE
      /\ adapter'.agg = adapter.agg /\ adapter'.items = adapter.items /\ adapter'.finished = TRUE
      /\ DOMAIN adapter' = DOMAIN adapter
  BY <1>1, <1>2
<1>4. ToldIds' = ToldIds
  BY <1>3 DEF ToldIds
<1>5. /\ c \in Seq(Ev) /\ \A i \in DOMAIN c : Typed(c[i])
      /\ Sound(Given \o o.chain, ToldIds) => Story(Given \o c)
      /\ OnDone(o) = [o EXCEPT !.chain = c]
  <2> DEFINE g == Given
  <2>1. g \in Seq(Ev)
    BY <1>1 DEF OutOK, Given
  <2>2. Mirrors(adapter.agg, ToldIds) /\ adapter.items \in Seq(Item) /\ IdsOf(adapter.items) = ToldIds
    BY <1>1 DEF CallsInv
  <2>3. "chain" \in DOMAIN o
    BY <1>1
  <2> HIDE DEF g
  <2>4. /\ c \in Seq(Ev) /\ \A i \in DOMAIN c : Typed(c[i])
        /\ Sound(g \o o.chain, ToldIds) => Story(g \o c)
        /\ OnDone(o) = [o EXCEPT !.chain = c]
    BY <2>1, <2>2, <2>3, OnDoneTells
  <2> QED BY <2>4 DEF g
<1> HIDE DEF c
<1>6. /\ DOMAIN out' = DOMAIN out /\ out'.ended = out.ended /\ out'.queue = out.queue
      /\ out'.wire = out.wire /\ out'.waiting = out.waiting /\ out'.flying = out.flying
      /\ out'.ending = out.ending /\ out'.chain = c
  BY <1>1, <1>2, <1>5
<1>7. StateOK'
  BY <1>1, <1>3, <1>6 DEF StateOK
<1>8. CallsInv'
  BY <1>1, <1>3, <1>4 DEF CallsInv
<1>9. out'.chain \in Seq(Ev) /\ \A i \in DOMAIN out'.chain : Typed(out'.chain[i])
  BY <1>5, <1>6
<1>10. ~out.ended => Story(Given \o out'.chain)
  BY <1>5, <1>6
<1> QED BY <1>3, <1>6, <1>7, <1>8, <1>9, <1>10, ChainStep

\* The backend is told to end, or has ended.
LEMMA BackendEnds ==
  ASSUME BackendOK, NEW child \in {"exiting", "closed"}, backend' = [backend EXCEPT !.child = child]
  PROVE  BackendOK' /\ backend'.style = backend.style /\ backend'.child # "running"
<1>1. /\ backend' \in [style : {"chunks", "items"}, truth : [Names -> Truths], sent : [Names -> Nat],
                       child : {"running", "exiting", "closed"}]
      /\ backend'.sent = backend.sent /\ backend'.truth = backend.truth
      /\ backend'.style = backend.style /\ backend'.child = child
  BY DEF BackendOK
<1> QED BY <1>1 DEF BackendOK

LEMMA FinalizeOut ==
  ASSUME Inv, ~chat.finalized, ~chat.responded, Finalize(out), BackendOK', backend'.style = backend.style,
         backend'.child # "running"
  PROVE  Inv'
<1>1. Sound(Given \o out.chain, ToldIds)
  BY InvTells
<1>2. out.chain \in Seq(Ev) /\ \A i \in DOMAIN out.chain : Typed(out.chain[i])
  BY DEF Inv, OutOK
<1> QED BY <1>1, <1>2, FinalizeStep

LEMMA TaskCompleteStep ==
  ASSUME Inv, TaskComplete
  PROVE  Inv'
<1>1. /\ ~chat.finalized /\ ~chat.responded /\ Finalize(out) /\ BackendOK
      /\ backend' = [backend EXCEPT !.child = "exiting"]
  BY DEF Inv, StateOK, TaskComplete, Reading
<1>2. BackendOK' /\ backend'.style = backend.style /\ backend'.child # "running"
  BY <1>1, BackendEnds
<1> QED BY <1>1, <1>2, FinalizeOut

LEMMA FailStep ==
  ASSUME Inv, Fail
  PROVE  Inv'
<1>1. /\ StateOK /\ CallsInv /\ OutOK /\ ~chat.responded /\ ~chat.finalized /\ BackendOK /\ Quiet
      /\ DOMAIN out = {"chain", "flying", "queue", "waiting", "ending", "ended", "conn", "wire"}
      /\ DOMAIN chat = {"agg", "texts", "any", "drop", "responded", "finalized"}
      /\ chat.finalized \in BOOLEAN /\ chat.responded \in BOOLEAN
      /\ backend' = [backend EXCEPT !.child = "exiting"]
  BY DEF Inv, StateOK, Fail
<1>2. BackendOK' /\ backend'.style = backend.style /\ backend'.child # "running"
  BY <1>1, BackendEnds
<1>3. CASE chat.agg.calls # <<>>
  <2>1. Finalize(out)
    BY <1>3 DEF Fail
  <2> QED BY <1>1, <1>2, <2>1, FinalizeOut
<1>4. CASE chat.agg.calls = <<>>
  <2> DEFINE w == out.wire
             q == out.queue
             g == Given
             c == out.chain
             e == Plain("error")
             d == Plain("DONE")
             p == Append(Append(q, e), d)
             h == Append(g, e)
             k == Append(h, d)
  <2>1. /\ chat' = [chat EXCEPT !.responded = TRUE]
        /\ out' = [out EXCEPT !.queue = @ \o <<e, d>>]
        /\ adapter' = adapter
    BY <1>4 DEF Fail
  <2>2. /\ w \in Seq(Ev) /\ q \in Seq(Ev) /\ c \in Seq(Ev) /\ g \in Seq(Ev)
        /\ out.flying \in BOOLEAN /\ out.ending \in BOOLEAN
        /\ \A i \in DOMAIN g : g[i].kind # "end"
    BY <1>1 DEF OutOK, Given
  <2>3. /\ ~out.ended /\ ~adapter.finished /\ Open /\ Sound(g \o c, ToldIds)
    BY <1>1, InvTells
  <2>4. /\ e \in Ev /\ e.kind = "error" /\ d \in Ev /\ d.kind = "DONE"
    BY EventIs DEF Kinds
  <2>5. chat'.agg = chat.agg /\ DOMAIN chat' = DOMAIN chat /\ chat'.responded = TRUE
        /\ chat'.finalized = chat.finalized
    BY <1>1, <2>1
  <2> HIDE DEF e, d
  <2>6. /\ DOMAIN out' = DOMAIN out /\ out'.ended = out.ended /\ out'.chain = c
        /\ out'.wire = w /\ out'.waiting = out.waiting /\ out'.flying = out.flying
        /\ out'.ending = out.ending /\ out'.queue = q \o <<e, d>>
    BY <1>1, <2>1
  <2>7. q \o <<e, d>> = p
    <3> HIDE DEF q
    <3> QED BY <2>2, <2>4
  <2>8. p \in Seq(Ev) /\ k \in Seq(Ev) /\ h \in Seq(Ev) /\ w \o p = k
    <3> HIDE DEF w, q
    <3>1. Append(q, e) \in Seq(Ev)
      BY <2>2, <2>4
    <3>2. w \o Append(q, e) = Append(w \o q, e)
      BY <2>2, <2>4, QueueOnWire, ZenonT(40)
    <3>3. w \o p = Append(w \o Append(q, e), d)
      <4> DEFINE y == Append(q, e)
      <4>1. w \in Seq(Ev) /\ y \in Seq(Ev) /\ d \in Ev
        BY <2>2, <2>4, <3>1
      <4> HIDE DEF y
      <4>2. w \o Append(y, d) = Append(w \o y, d)
        BY <4>1, QueueOnWire
      <4> QED BY <4>2 DEF y
    <3>4. w \o q = g
      BY DEF w, q, Given
    <3> HIDE DEF g
    <3> QED BY <2>2, <2>4, <3>1, <3>2, <3>3, <3>4
  <2>9. Given' = k
    BY <2>6, <2>7, <2>8 DEF Given
  <2>10. ToldIds' = ToldIds
    BY <2>5 DEF ToldIds
  <2>11. g # <<>>
    <3>1. CASE out.flying
      BY <2>3, <3>1 DEF Open, QueueInv, QueueOK, Given
    <3>2. CASE ~out.flying
      <4>1. c = <<>>
        BY <1>1, <3>2 DEF Quiet, Chained
      <4>2. g \o c = g
        <5> HIDE DEF g, c
        <5> QED BY <2>2, <4>1
      <4>3. Story(g)
        BY <2>3, <4>2 DEF Sound
      <4> QED BY <4>3 DEF Story
    <3> QED BY <3>1, <3>2
  <2> HIDE DEF g, c, w, q
  <2>12. Sound(h \o c, ToldIds)
    BY <2>2, <2>3, <2>4, <2>11, RawBetween
  <2>13. h # <<>>
    <3>1. Len(h) = Len(g) + 1 /\ Len(g) \in Nat
      BY <2>2, <2>4, Appended
    <3>2. Len(h) # 0
      BY <3>1
    <3> HIDE DEF h
    <3> QED BY <3>2, EmptySeq
  <2>14. Sound(k \o c, ToldIds)
    <3> HIDE DEF h
    <3> QED BY <2>2, <2>4, <2>8, <2>12, <2>13, RawBetween
  <2>15. Story(k \o c) /\ Telling(k \o c, ToldIds)
    BY <2>14 DEF Sound
  <2>16. QueueInv'
    <3>1. PICK f, a, n, r, r2 : /\ f = out.flying /\ a = out.waiting /\ n = out.ending /\ r = chat.responded
                                /\ r2 = chat'.responded
      OBVIOUS
    <3>2. QueueOK(w, q, f, a, n, r)
      BY <2>3, <3>1 DEF Open, QueueInv, w, q
    <3>3. f \in BOOLEAN /\ n \in BOOLEAN /\ r \in BOOLEAN /\ ~r /\ r2 \in BOOLEAN /\ r2
      BY <1>1, <2>2, <2>5, <3>1
    <3>4. QueueOK(w, p, f, a, n, r2)
      <4>1. w \in Seq(Ev) /\ q \in Seq(Ev)
        BY <2>2
      <4>2. p = Append(Append(q, Plain("error")), Plain("DONE"))
        BY DEF e, d
      <4> HIDE DEF p
      <4> QED BY <3>2, <3>3, <4>1, <4>2, ErrorKeeps
    <3> HIDE DEF p
    <3> QED BY <2>6, <2>7, <3>1, <3>4 DEF QueueInv
  <2> HIDE DEF p, h
  <2>17. Open'
    BY <2>6, <2>9, <2>10, <2>15, <2>16 DEF Open
  <2>18. \A i \in DOMAIN k : k[i].kind # "end"
    <3>1. /\ Len(h) = Len(g) + 1 /\ Len(g) \in Nat /\ h[Len(g) + 1] = e /\ \A i \in 1 .. Len(g) : h[i] = g[i]
      BY <2>2, <2>4, Appended DEF h
    <3>2. /\ Len(k) = Len(h) + 1 /\ k[Len(h) + 1] = d /\ \A i \in 1 .. Len(h) : k[i] = h[i]
      BY <2>4, <2>8, Appended
    <3>3. DOMAIN k = 1 .. Len(k) /\ DOMAIN g = 1 .. Len(g) /\ DOMAIN h = 1 .. Len(h)
      BY <2>2, <2>8, LenProperties
    <3> HIDE DEF k
    <3>4. \A i \in 1 .. Len(h) : h[i].kind # "end"
      <4>1. \A i \in 1 .. Len(h) : i \in 1 .. Len(g) \/ i = Len(g) + 1
        BY <3>1
      <4> QED BY <2>2, <2>4, <3>1, <3>3, <4>1
    <3>5. \A i \in 1 .. Len(k) : i \in 1 .. Len(h) \/ i = Len(h) + 1
      BY <3>1, <3>2
    <3> QED BY <2>4, <3>2, <3>3, <3>4, <3>5
  <2>19. OutOK'
    <3>1. out'.queue \in Seq(Ev)
      BY <2>6, <2>7, <2>8
    <3>2. OutOK
      BY <1>1
    <3> HIDE DEF k
    <3> QED BY <2>6, <2>9, <2>18, <3>1, <3>2 DEF OutOK, c, w
  <2>20. StateOK'
    BY <1>1, <1>2, <2>1, <2>3, <2>5, <2>6 DEF StateOK
  <2>21. CallsInv'
    BY <1>1, <1>2, <2>1, <2>5, <2>10 DEF CallsInv
  <2> QED BY <2>3, <2>6, <2>17, <2>19, <2>20, <2>21 DEF Inv
<1> QED BY <1>3, <1>4

LEMMA ChildClosesStep ==
  ASSUME Inv, ChildCloses
  PROVE  Inv'
<1>1. /\ StateOK /\ CallsInv /\ OutOK /\ BackendOK
      /\ DOMAIN out = {"chain", "flying", "queue", "waiting", "ending", "ended", "conn", "wire"}
      /\ backend' = [backend EXCEPT !.child = "closed"]
      /\ out.ended \in BOOLEAN
  BY DEF Inv, StateOK, OutOK, ChildCloses
<1>2. BackendOK' /\ backend'.style = backend.style /\ backend'.child # "running"
  BY <1>1, BackendEnds
<1>3. CASE chat.finalized
  <2>1. UNCHANGED <<chat, adapter, out>>
    BY <1>3 DEF ChildCloses
  <2>2. StateOK'
    BY <1>1, <1>2, <2>1 DEF StateOK
  <2>3. ToldIds' = ToldIds /\ Given' = Given
    BY <2>1 DEF ToldIds, Given
  <2>4. CallsInv'
    BY <1>1, <1>2, <2>1, <2>3 DEF CallsInv
  <2>5. OutOK'
    BY <1>1, <2>1, <2>3 DEF OutOK
  <2>6. CASE out.ended
    <3>1. Over'
      BY <2>1, <2>6 DEF Inv, Over
    <3> QED BY <2>1, <2>2, <2>4, <2>5, <2>6, <3>1 DEF Inv
  <2>7. CASE ~out.ended
    <3>1. Open'
      BY <2>1, <2>3, <2>7 DEF Inv, Open, QueueInv
    <3> QED BY <2>1, <2>2, <2>4, <2>5, <2>7, <3>1 DEF Inv
  <2> QED BY <2>6, <2>7
<1>4. CASE ~chat.finalized
  <2> DEFINE c == out.chain
             e == Plain("text")
             g == Given
             z == g \o c
             bare == chat.any \/ (chat.texts = 0 /\ chat.agg.calls = <<>>)
             o == IF bare THEN out ELSE [out EXCEPT !.chain = Append(@, e)]
  <2>1. Finalize(o)
    BY <1>4 DEF ChildCloses
  <2>2. ~adapter.finished /\ c \in Seq(Ev) /\ g \in Seq(Ev) /\ \A i \in DOMAIN c : Typed(c[i])
    BY <1>1, <1>4 DEF StateOK, OutOK, Given
  <2>3. e \in Ev /\ e.kind = "text"
    BY EventIs DEF Kinds
  <2>4. ~out.ended => Sound(z, ToldIds)
    <3>1. SUFFICES ASSUME ~out.ended PROVE Sound(z, ToldIds)
      OBVIOUS
    <3>2. Open
      BY <3>1 DEF Inv
    <3>3. z \in Seq(Ev)
      <4> HIDE DEF g, c
      <4> QED BY <2>2
    <3> QED BY <2>2, <3>2, <3>3 DEF Open, Sound
  <2>5. ToldIds \in Seq(Ident)
    BY <1>1, ChatDistinct DEF CallsInv, ToldIds
  <2>6. /\ DOMAIN o = DOMAIN out /\ o.ended = out.ended /\ o.queue = out.queue
        /\ o.wire = out.wire /\ o.waiting = out.waiting /\ o.flying = out.flying /\ o.ending = out.ending
        /\ o.chain = IF bare THEN c ELSE Append(c, e)
    <3> HIDE DEF e, bare
    <3>1. CASE bare
      BY <3>1
    <3>2. CASE ~bare
      BY <1>1, <3>2
    <3> QED BY <3>1, <3>2
  <2> HIDE DEF e, c, g, bare
  <2>7. o.chain \in Seq(Ev) /\ \A i \in DOMAIN o.chain : Typed(o.chain[i])
    <3> HIDE DEF o
    <3>1. CASE bare
      BY <2>2, <2>6, <3>1
    <3>2. CASE ~bare
      <4> DEFINE y == Append(c, e)
      <4>1. /\ y \in Seq(Ev) /\ Len(y) = Len(c) + 1 /\ Len(c) \in Nat
            /\ y[Len(c) + 1] = e /\ \A i \in 1 .. Len(c) : y[i] = c[i]
        BY <2>2, <2>3, Appended
      <4>2. DOMAIN y = 1 .. Len(c) + 1 /\ DOMAIN c = 1 .. Len(c)
        BY <2>2, <4>1, LenProperties
      <4>3. Typed(e)
        BY <2>3 DEF Typed
      <4>4. o.chain = y
        BY <2>6, <3>2
      <4> HIDE DEF y
      <4>5. ASSUME NEW i \in DOMAIN y PROVE Typed(y[i])
        <5>1. i \in 1 .. Len(c) \/ i = Len(c) + 1
          BY <4>1, <4>2
        <5> QED BY <2>2, <4>1, <4>2, <4>3, <5>1
      <4> QED BY <4>1, <4>4, <4>5
    <3> QED BY <3>1, <3>2
  <2>8. ~out.ended => Sound(Given \o o.chain, ToldIds)
    <3>1. SUFFICES ASSUME ~out.ended PROVE Sound(Given \o o.chain, ToldIds)
      OBVIOUS
    <3>2. Sound(z, ToldIds)
      BY <2>4, <3>1
    <3> HIDE DEF o
    <3>3. CASE bare
      BY <2>6, <3>2, <3>3 DEF g, c
    <3>4. CASE ~bare
      <4>1. Story(z \o <<e>>) /\ Telling(z \o <<e>>, ToldIds) /\ z \o <<e>> \in Seq(Ev)
        <5> HIDE DEF z
        <5>1. z \in Seq(Ev) /\ Story(z) /\ Telling(z, ToldIds)
          BY <3>2 DEF Sound
        <5>2. Story(z \o <<e>>) /\ Telling(z \o <<e>>, ToldIds)
          BY <2>5, <5>1, TellText DEF e
        <5>3. z \o <<e>> \in Seq(Ev)
          BY <2>3, <5>1
        <5> QED BY <5>2, <5>3
      <4>2. g \o Append(c, e) = z \o <<e>>
        BY <2>2, <2>3
      <4> QED BY <2>6, <3>4, <4>1, <4>2 DEF Sound, g
    <3> QED BY <3>3, <3>4
  <2> HIDE DEF o
  <2> QED BY <1>2, <1>4, <2>1, <2>6, <2>7, <2>8, FinalizeStep
<1> QED BY <1>3, <1>4

LEMMA InitHolds == Init => Inv
<1> SUFFICES ASSUME Init PROVE Inv
  OBVIOUS
<1> DEFINE e == Plain("created")
<1>1. /\ backend \in [style : {"chunks", "items"}, truth : [Names -> Truths],
                      sent : {[n \in Names |-> 0]}, child : {"running"}]
      /\ chat = [agg |-> EmptyAggregator, texts |-> 0, any |-> FALSE, drop |-> FALSE,
                 responded |-> FALSE, finalized |-> FALSE]
      /\ adapter = [agg |-> EmptyAggregator, items |-> <<>>, finished |-> FALSE]
      /\ out = [chain |-> <<e>>, flying |-> FALSE, queue |-> <<>>, waiting |-> "none",
                ending |-> FALSE, ended |-> FALSE, conn |-> "open", wire |-> <<>>]
  BY DEF Init
<1>2. e \in Ev /\ e.kind = "created" /\ e.id = NoName
  BY EventIs DEF Kinds
<1> HIDE DEF e
<1>3. BackendOK
  <2>1. backend.sent = [n \in Names |-> 0]
    BY <1>1
  <2>2. backend.sent \in [Names -> Nat]
    BY <2>1
  <2>3. ASSUME NEW n \in Names PROVE backend.sent[n] \in 0 .. Len(backend.truth[n])
    <3>1. backend.truth[n] \in Truths
      BY <1>1
    <3>2. Len(backend.truth[n]) \in Nat
      BY <3>1, LenProperties DEF ResponsesAssumption
    <3> QED BY <2>1, <3>2
  <2> QED BY <1>1, <2>2, <2>3 DEF BackendOK
<1>4. StateOK
  BY <1>1, <1>3 DEF StateOK
<1>5. EmptyAggregator.calls = <<>> /\ DOMAIN EmptyAggregator.alias = {}
  BY DEF EmptyAggregator
<1>6. Formed(EmptyAggregator)
  BY <1>5 DEF Formed
<1>7. IdsOf(<<>>) = <<>>
  BY DEF IdsOf
<1>8. CallsInv
  <2>1. chat.agg = EmptyAggregator /\ adapter.agg = EmptyAggregator /\ adapter.items = <<>>
    BY <1>1
  <2>2. ToldIds = <<>>
    BY <1>5, <1>7, <2>1 DEF ToldIds
  <2>3. Chatted(EmptyAggregator)
    BY <1>5, <1>6 DEF Chatted
  <2>4. Faithful(EmptyAggregator)
    BY <1>5 DEF Faithful
  <2>5. Mirrors(EmptyAggregator, <<>>)
    BY <1>5, <1>6, <1>7 DEF Mirrors
  <2> QED BY <1>7, <2>1, <2>2, <2>3, <2>4, <2>5 DEF CallsInv
<1>9. Given = <<>> /\ out.chain = <<e>> /\ ~out.ended
  BY <1>1 DEF Given
<1>10. OutOK
  BY <1>1, <1>2, <1>9 DEF OutOK, Typed, Kinds
<1>11. Given \o out.chain = <<e>> /\ Len(<<e>>) = 1 /\ <<e>>[1] = e /\ <<e>> # <<>>
  BY <1>2, <1>9
<1>12. Story(<<e>>)
  <2>1. May(<<e>>, 0, e)
    BY <1>2 DEF May, Has
  <2>2. ASSUME NEW i \in 1 .. 1 PROVE May(<<e>>, i - 1, <<e>>[i])
    <3>1. i = 1 /\ i - 1 = 0
      OBVIOUS
    <3> QED BY <1>11, <2>1, <3>1
  <2> QED BY <1>2, <1>11, <2>2 DEF Story
<1>13. Telling(<<e>>, <<>>)
  BY <1>2 DEF Telling
<1>14. ToldIds = <<>>
  BY <1>1, <1>5, <1>7 DEF ToldIds
<1>15. QueueInv
  BY <1>1 DEF QueueInv, QueueOK
<1>16. Open
  BY <1>11, <1>12, <1>13, <1>14, <1>15 DEF Open
<1> QED BY <1>4, <1>8, <1>9, <1>10, <1>16 DEF Inv

LEMMA StutterKeeps ==
  ASSUME Inv, UNCHANGED vars
  PROVE  Inv'
<1>1. backend' = backend /\ chat' = chat /\ adapter' = adapter /\ out' = out
  BY DEF vars
<1>2. Given' = Given /\ ToldIds' = ToldIds
  BY <1>1 DEF Given, ToldIds
<1> QED BY <1>1, <1>2 DEF Inv, StateOK, BackendOK, CallsInv, OutOK, Over, Open, QueueInv

LEMMA NextKeeps == Inv /\ [Next]_vars => Inv'
<1> SUFFICES ASSUME Inv, [Next]_vars PROVE Inv'
  OBVIOUS
<1>1. ASSUME NEW full \in BOOLEAN, Write(full) PROVE Inv'
  BY <1>1, WriteStep
<1>2. CASE Drain
  BY <1>2, DrainStep
<1>3. CASE EndRaw
  BY <1>3, EndRawStep
<1>4. CASE Hand
  BY <1>4, HandStep
<1>5. CASE Disconnect
  BY <1>5, DisconnectStep
<1>6. CASE TextDelta
  BY <1>6, TextDeltaStep
<1>7. ASSUME NEW n \in Names, NEW k \in 1 .. MaxChunk,
             k <= Len(backend.truth[n]) - backend.sent[n], ToolFragment(n, k)
      PROVE  Inv'
  BY <1>7, ToolFragmentStep
<1>8. ASSUME NEW n \in Names, ArgumentsDone(n) PROVE Inv'
  BY <1>8, ArgumentsDoneStep
<1>9. ASSUME NEW named \in SUBSET Names, NEW text \in BOOLEAN, Message(named, text) PROVE Inv'
  BY <1>9, MessageStep
<1>10. CASE TaskComplete
  BY <1>10, TaskCompleteStep
<1>11. CASE Fail
  BY <1>11, FailStep
<1>12. CASE ChildCloses
  BY <1>12, ChildClosesStep
<1>13. CASE UNCHANGED vars
  BY <1>13, StutterKeeps
<1> QED BY <1>1, <1>2, <1>3, <1>4, <1>5, <1>6, <1>7, <1>8, <1>9, <1>10, <1>11, <1>12, <1>13 DEF Next

-----------------------------------------------------------------------------
(* What the client reads.                                                   *)

LEMMA WireIs ==
  ASSUME Inv, out.wire # <<>>
  PROVE  /\ out.wire \in Seq(Ev) /\ Story(out.wire)
         /\ \A i \in 1 .. Len(out.wire) : out.wire[i].kind # "end"
         /\ \A i \in 1 .. Len(out.wire) : out.wire[i].kind = "DONE" => i >= Len(out.wire) - 1
<1> DEFINE w == out.wire
           q == out.queue
           c == out.chain
           g == w \o q
<1>1. /\ w \in Seq(Ev) /\ q \in Seq(Ev) /\ c \in Seq(Ev) /\ w # <<>>
      /\ out.ended => Over
      /\ ~out.ended => Open
  BY OutIs
<1>2. \A i \in DOMAIN g : g[i].kind # "end"
  BY OutIs DEF Given
<1>3. /\ g \in Seq(Ev) /\ Len(w) \in Nat /\ Len(q) \in Nat /\ Len(g) = Len(w) + Len(q)
      /\ \A i \in 1 .. Len(w) : i \in 1 .. Len(g) /\ g[i] = w[i]
  BY <1>1, InGiven
<1>4. DOMAIN w = 1 .. Len(w) /\ DOMAIN g = 1 .. Len(g)
  BY <1>1, <1>3, LenProperties
<1>5. Story(w) /\ \A i \in 1 .. Len(w) : w[i].kind = "DONE" => i >= Len(w) - 1
  <2>1. CASE out.ended
    BY <1>1, <1>4, <2>1 DEF Over
  <2>2. CASE ~out.ended
    <3>1. Open
      BY <1>1, <2>2
    <3>2. QueueOK(w, q, out.flying, out.waiting, out.ending, chat.responded) /\ Story(g \o c)
      BY <3>1 DEF Open, QueueInv, Given
    <3>3. \A i \in 1 .. Len(g) : g[i].kind = "DONE" => i = Len(g) \/ i = Len(g) - 1
      BY <3>2 DEF QueueOK
    <3> HIDE DEF w, q, c
    <3>4. g \o c = w \o (q \o c)
      BY <1>1
    <3>5. PICK y : y = q \o c
      OBVIOUS
    <3>6. y \in Seq(Ev) /\ Story(w \o y)
      BY <1>1, <3>2, <3>4, <3>5
    <3>7. Story(w)
      BY <1>1, <3>6, StoryBegins
    <3> HIDE DEF g
    <3>8. ASSUME NEW i \in 1 .. Len(w), w[i].kind = "DONE" PROVE i >= Len(w) - 1
      <4>1. i = Len(g) \/ i = Len(g) - 1
        BY <1>3, <3>3, <3>8
      <4> QED BY <1>3, <4>1
    <3> QED BY <3>7, <3>8
  <2> QED BY <2>1, <2>2
<1> HIDE DEF g, w
<1>6. \A i \in 1 .. Len(w) : w[i].kind # "end"
  BY <1>2, <1>3, <1>4
<1> QED BY <1>1, <1>5, <1>6 DEF w

LEMMA BeforeIs ==
  ASSUME NEW i \in Nat, NEW kind, NEW id
  PROVE  Before(i, kind, id) # {} <=> Has(W, i - 1, kind, id)
BY DEF Before, Has

LEMMA GrammarHolds ==
  ASSUME Inv
  PROVE  EventGrammar
<1>1. CASE W = <<>>
  <2>1. ~out.ended
    BY <1>1 DEF Inv, Over, Story, W
  <2>2. DOMAIN W = {}
    BY <1>1, SMTT(30)
  <2> QED BY <1>1, <2>1, <2>2 DEF EventGrammar
<1>2. CASE W # <<>>
  <2> DEFINE w == W
  <2>1. /\ w \in Seq(Ev) /\ Story(w)
        /\ \A i \in 1 .. Len(w) : w[i].kind # "end"
        /\ \A i \in 1 .. Len(w) : w[i].kind = "DONE" => i >= Len(w) - 1
    BY <1>2, WireIs DEF W
  <2>2. DOMAIN w = 1 .. Len(w) /\ Len(w) \in Nat
    BY <2>1, LenProperties
  <2> HIDE DEF w
  <2>3. ASSUME NEW i \in 1 .. Len(w)
        PROVE  /\ May(w, i - 1, w[i]) /\ i \in Nat /\ i - 1 \in Nat
               /\ \A kind, id : Before(i, kind, id) # {} <=> Has(w, i - 1, kind, id)
    <3>1. i \in Nat /\ i - 1 \in Nat
      BY <2>2
    <3>2. May(w, i - 1, w[i])
      BY <2>1 DEF Story
    <3> QED BY <3>1, <3>2, BeforeIs DEF w
  <2>4. ASSUME NEW i \in 1 .. Len(w)
        PROVE  /\ w[i].kind = "added" => Before(i, "added", w[i].id) = {}
               /\ w[i].kind \in {"args", "argsDone", "itemDone"} =>
                    /\ Before(i, "added", w[i].id) # {}
                    /\ Before(i, "itemDone", w[i].id) = {}
               /\ w[i].kind = "args" => Before(i, "argsDone", w[i].id) = {}
    BY <2>3 DEF May
  <2>5. ASSUME NEW i \in 1 .. Len(w), w[i].kind = "itemDone"
        PROVE  Cardinality(Before(i, "argsDone", w[i].id)) = 1
    <3> DEFINE B == Before(i, "argsDone", w[i].id)
    <3>1. Has(w, i - 1, "argsDone", w[i].id)
      BY <2>3, <2>5 DEF May
    <3>2. PICK j \in B : TRUE
      BY <2>3, <3>1
    <3>3. B = {k \in 1 .. i - 1 : w[k].kind = "argsDone" /\ w[k].id = w[i].id}
      BY DEF Before, w
    <3> HIDE DEF B
    <3>4. ASSUME NEW k \in B, NEW l \in B, k < l PROVE FALSE
      <4>1. /\ k \in 1 .. i - 1 /\ w[k].kind = "argsDone" /\ w[k].id = w[i].id
            /\ l \in 1 .. i - 1 /\ w[l].kind = "argsDone" /\ w[l].id = w[i].id
        BY <3>3
      <4>2. l \in 1 .. Len(w) /\ k \in 1 .. l - 1
        BY <2>2, <3>4, <4>1
      <4>3. ~Has(w, l - 1, "argsDone", w[l].id)
        BY <2>3, <4>1, <4>2 DEF May
      <4> QED BY <4>1, <4>2, <4>3 DEF Has
    <3>5. \A k \in B : k \in Nat
      BY <2>2, <3>3
    <3>6. B = {j}
      <4>1. ASSUME NEW k \in B PROVE k = j
        <5>1. k \in Nat /\ j \in Nat
          BY <3>5
        <5>2. ~(k < j) /\ ~(j < k)
          BY <3>4
        <5> QED BY <5>1, <5>2
      <4> QED BY <4>1
    <3> QED BY <3>6, FS_Singleton DEF B
  <2>6. ASSUME NEW i \in 1 .. Len(w), w[i].kind = "completed"
        PROVE  /\ Before(i, "completed", NoName) = {}
               /\ \A j \in 1 .. i - 1 : w[j].kind = "added" => Before(i, "itemDone", w[j].id) # {}
    <3>1. \A j \in 1 .. i - 1 :
            w[j].kind # "completed" /\ (w[j].kind = "added" => Has(w, i - 1, "itemDone", w[j].id))
      BY <2>3, <2>6 DEF May
    <3>2. ~Has(w, i - 1, "completed", NoName)
      BY <3>1 DEF Has
    <3> QED BY <2>3, <3>1, <3>2
  <2>7. ASSUME NEW i \in 1 .. Len(w), w[i].kind = "done"
        PROVE  i = Len(w)
    <3>1. SUFFICES ASSUME i # Len(w) PROVE FALSE
      OBVIOUS
    <3>2. i + 1 \in 1 .. Len(w) /\ i \in 1 .. (i + 1) - 1
      <4>1. Len(w) \in Nat
        BY <2>2
      <4> QED BY <3>1, <4>1
    <3>3. May(w, (i + 1) - 1, w[i + 1])
      BY <2>3, <3>2
    <3>4. w[i + 1].kind = "end"
      BY <2>7, <3>2, <3>3 DEF May
    <3> QED BY <2>1, <3>2, <3>4
  <2>8. w[1].kind = "created"
    BY <2>1 DEF Story
  <2>9. out.ended => Last(w).kind = "done" \/ \E i \in DOMAIN w : w[i].kind = "DONE"
    BY DEF Inv, Over, Last, W, w
  <2> QED BY <2>1, <2>2, <2>4, <2>5, <2>6, <2>7, <2>8, <2>9, Zenon DEF EventGrammar, w
<1> QED BY <1>1, <1>2

-----------------------------------------------------------------------------

\* Between two steps the aggregators and the items know the same calls by the
\* same names, and the events that were written, that are queued and that are
\* still chained tell one story about them.
THEOREM InvHolds == Spec => []Inv
<1>1. Init => Inv
  BY InitHolds
<1>2. Inv /\ [Next]_vars => Inv'
  BY NextKeeps
<1> QED BY <1>1, <1>2, PTL DEF Spec

\* At every moment the client has read a beginning of the grammar of the typed
\* events, whichever calls the backend makes and however the chain, the queue
\* and the drains of the socket take turns.
THEOREM GrammarKept == Spec => []EventGrammar
BY InvHolds, GrammarHolds, PTL

-----------------------------------------------------------------------------
(* The arguments, when no fragment looks like what came before.             *)

\* The arguments of calls, and those that items have been sent.
TextsOf(calls) == [k \in DOMAIN calls |-> calls[k].args]
LastsOf(items) == [k \in DOMAIN items |-> items[k].last]

\* What the chat handler has of a call is what the backend has said of it.
Knows(call, t, s) == call.args = SubSeq(t, 1, s) /\ (s > 0 \/ t = <<>>)

Hears(agg, truth, sent) ==
  /\ \A n \in Names : IF Id(n) \in DOMAIN agg.alias
                      THEN Knows(agg.calls[agg.alias[Id(n)]], truth[n], sent[n])
                      ELSE sent[n] = 0
  /\ \A n, m \in Names : Id(n) \in DOMAIN agg.alias /\ Id(m) \in DOMAIN agg.alias
                         /\ agg.alias[Id(n)] = agg.alias[Id(m)] => n = m

\* A call that is not complete is found by its index.
Placed(agg, truth, sent) ==
  \A n \in Names : 0 < sent[n] /\ sent[n] < Len(truth[n]) =>
    /\ Index(agg.alias[Id(n)]) \in DOMAIN agg.alias
    /\ agg.alias[Index(agg.alias[Id(n)])] = agg.alias[Id(n)]

\* All that an aggregator has of a call it has passed on.
Settled(agg) == \A k \in DOMAIN agg.calls : agg.calls[k].told = agg.calls[k].args

\* The adapter's takes the arguments as a whole each time.
Whole(agg) == \A k \in DOMAIN agg.calls : agg.calls[k].last \in {NoArgs, agg.calls[k].args}

\* The arguments of an item among the first n events.
Part(e, id) == IF e.kind = "args" /\ e.id = id THEN e.args ELSE <<>>

Spell(z, n, id) ==
  LET spell[j \in 0 .. n] == IF j = 0 THEN <<>> ELSE spell[j - 1] \o Part(z[j], id)
  IN spell[n]

Ended(e) == e.kind \in {"argsDone", "itemDone"}

\* The deltas of every item add up to its arguments, and its end has them all.
AddsUp(z, ids, texts) ==
  /\ \A i \in DOMAIN z : z[i].kind = "args" \/ Ended(z[i]) => \E k \in DOMAIN ids : ids[k] = z[i].id
  /\ \A k \in DOMAIN ids : Spell(z, Len(z), ids[k]) = texts[k]
  /\ \A i \in DOMAIN z : \A k \in DOMAIN ids : Ended(z[i]) /\ z[i].id = ids[k] =>
       z[i].args = texts[k] /\ Spell(z, i, ids[k]) = texts[k]

Texts == TextsOf(chat.agg.calls)

ArgsInv ==
  /\ Hears(chat.agg, backend.truth, backend.sent)
  /\ backend.style = "chunks" => Placed(chat.agg, backend.truth, backend.sent)
  /\ Settled(chat.agg) /\ Settled(adapter.agg) /\ Whole(adapter.agg)
  /\ TextsOf(adapter.agg.calls) = Texts /\ LastsOf(adapter.items) = Texts
  /\ IF out.ended THEN ArgumentsAddUp ELSE AddsUp(Given \o out.chain, ToldIds, Texts)

\* A part of a sequence, and the two parts together.
Splits(S, t, m, n) ==
  /\ SubSeq(t, m + 1, n) \in Seq(S) /\ Len(SubSeq(t, m + 1, n)) = n - m
  /\ SubSeq(t, 1, m) \in Seq(S) /\ Len(SubSeq(t, 1, m)) = m
  /\ SubSeq(t, 1, m) \o SubSeq(t, m + 1, n) = SubSeq(t, 1, n)

LEMMA PartIs ==
  ASSUME NEW S, NEW t \in Seq(S), NEW m \in Nat, NEW n \in Nat, m <= n, n <= Len(t)
  PROVE  Splits(S, t, m, n)
<1>1. Len(t) \in Nat /\ \A i \in 1 .. Len(t) : t[i] \in S
  BY LenProperties, ElementOfSeq
<1>2. SubSeq(t, 1, m) \o SubSeq(t, m + 1, n) = SubSeq(t, 1, n)
  <2>1. 1 \in 1 .. Len(t) + 1 /\ m \in 1 - 1 .. Len(t) /\ n \in m .. Len(t)
    BY <1>1
  <2> QED BY <2>1, ConcatAdjacentSubSeq
<1>3. SubSeq(t, m + 1, n) \in Seq(S) /\ Len(SubSeq(t, m + 1, n)) = n - m
  <2>1. m + 1 \in Int /\ n \in Int /\ \A i \in m + 1 .. n : t[i] \in S
    BY <1>1
  <2>2. /\ SubSeq(t, m + 1, n) \in Seq(S)
        /\ Len(SubSeq(t, m + 1, n)) = IF m + 1 <= n THEN n - (m + 1) + 1 ELSE 0
        /\ \A i \in 1 .. n - (m + 1) + 1 : SubSeq(t, m + 1, n)[i] = t[m + 1 + i - 1]
    BY <2>1, SubSeqProperties
  <2> QED BY <2>2
<1>4. SubSeq(t, 1, m) \in Seq(S) /\ Len(SubSeq(t, 1, m)) = m
  <2>1. 1 \in Int /\ m \in Int /\ \A i \in 1 .. m : t[i] \in S
    BY <1>1
  <2>2. /\ SubSeq(t, 1, m) \in Seq(S)
        /\ Len(SubSeq(t, 1, m)) = IF 1 <= m THEN m - 1 + 1 ELSE 0
        /\ \A i \in 1 .. m - 1 + 1 : SubSeq(t, 1, m)[i] = t[1 + i - 1]
    BY <2>1, SubSeqProperties
  <2> QED BY <2>2
<1> QED BY <1>2, <1>3, <1>4 DEF Splits

\* A fragment and what was said do not begin alike.
Unlike(said, part) == ~(said # <<>> /\ (IsPrefix(said, part) \/ IsPrefix(part, said)))

\* The fragment has the k tokens after the first s, and they look new to the call.
Continues(call, f, t, s, k) ==
  /\ k > 0 /\ s + k <= Len(t) /\ call.args = SubSeq(t, 1, s)
  /\ f.args = SubSeq(t, s + 1, s + k) /\ ~f.replace
  /\ f.args # call.last \/ call.last = NoArgs
  /\ Unlike(call.args, f.args)

\* They are added.
LEMMA NextPart ==
  ASSUME NEW t \in Args, NEW s \in Nat, NEW k \in Nat, NEW call \in Call, NEW f \in Frag,
         Continues(call, f, t, s, k)
  PROVE  AppendArgument(call, f).args = SubSeq(t, 1, s + k)
<1> DEFINE part == SubSeq(t, s + 1, s + k)
<1>0. /\ k > 0 /\ s + k <= Len(t) /\ call.args = SubSeq(t, 1, s)
      /\ f.args = SubSeq(t, s + 1, s + k) /\ ~f.replace
      /\ f.args # call.last \/ call.last = NoArgs
      /\ Unlike(call.args, f.args)
  BY DEF Continues
<1>1. part \in Args /\ Len(part) = k /\ SubSeq(t, 1, s) \o part = SubSeq(t, 1, s + k)
  <2> DEFINE n == s + k
  <2>1. t \in Seq(Tokens) /\ s <= n /\ n \in Nat /\ n <= Len(t) /\ n - s = k
    BY <1>0 DEF Args
  <2>2. part = SubSeq(t, s + 1, n) /\ n = s + k
    OBVIOUS
  <2> HIDE DEF part, n
  <2>3. Splits(Tokens, t, s, n)
    BY <2>1, PartIs
  <2> QED BY <2>1, <2>2, <2>3 DEF Splits, Args
<1> HIDE DEF part
<1>2. part # NoArgs /\ part # <<>>
  <2>1. Len(part) # 0
    BY <1>0, <1>1
  <2> QED BY <1>1, <2>1, ArgsAreNot, EmptySeq
<1>3. AppendArgument(call, f).args = call.args \o part
  <2>1. f.args = part
    BY <1>0 DEF part
  <2>2. AppendArgument(call, f) = [call EXCEPT !.args = @ \o f.args, !.last = f.args]
    BY <1>0, <1>2, <2>1 DEF AppendArgument, Unlike
  <2> QED BY <2>1, <2>2 DEF Call
<1>4. call.args \o part = SubSeq(t, 1, s + k)
  BY <1>0, <1>1
<1> QED BY <1>3, <1>4

\* A fragment that has them all.
LEMMA WholePart ==
  ASSUME NEW t \in Args, NEW call \in Call, NEW f \in Frag, f.args = t, f.replace
  PROVE  AppendArgument(call, f).args = SubSeq(t, 1, Len(t))
<1>1. t # NoArgs /\ Len(t) \in Nat /\ SubSeq(t, 1, Len(t)) = t
  BY ArgsAreNot, LenProperties DEF Args
<1>2. AppendArgument(call, f) = [call EXCEPT !.args = f.args, !.last = f.args]
  BY <1>1 DEF AppendArgument
<1> QED BY <1>1, <1>2 DEF Call

\* One that the arguments so far begin.
LEMMA LongerPart ==
  ASSUME NEW call \in Call, call.last \in {NoArgs, call.args}, NEW f \in Frag, ~f.replace,
         f.args # NoArgs => IsPrefix(call.args, f.args) /\ f.args # call.args
  PROVE  /\ AppendArgument(call, f).args = IF f.args = NoArgs THEN call.args ELSE f.args
         /\ AppendArgument(call, f).last \in {NoArgs, AppendArgument(call, f).args}
<1>1. CASE f.args = NoArgs
  <2>1. AppendArgument(call, f) = call
    BY <1>1 DEF AppendArgument
  <2> QED BY <1>1, <2>1
<1>2. CASE f.args # NoArgs
  <2>1. f.args \in Args /\ call.args \in Args /\ f.args # call.last
    BY <1>2 DEF Frag, Call
  <2>2. f.args # <<>>
    <3> SUFFICES ASSUME f.args = <<>> PROVE FALSE
      OBVIOUS
    <3>1. Len(call.args) <= 0 /\ Len(call.args) \in Nat
      BY <1>2, <2>1, LenProperties DEF IsPrefix, Args
    <3>2. call.args = <<>>
      BY <2>1, <3>1, EmptySeq DEF Args
    <3> QED BY <1>2, <3>2
  <2>3. CASE call.args = <<>>
    <3>1. AppendArgument(call, f) = [call EXCEPT !.args = @ \o f.args, !.last = f.args]
      BY <1>2, <2>1, <2>3 DEF AppendArgument
    <3>2. <<>> \o f.args = f.args
      BY <2>1, ConcatEmptySeq DEF Args
    <3> QED BY <1>2, <2>3, <3>1, <3>2 DEF Call
  <2>4. CASE call.args # <<>>
    <3>1. AppendArgument(call, f) = [call EXCEPT !.args = f.args, !.last = f.args]
      BY <1>2, <2>1, <2>2, <2>4 DEF AppendArgument
    <3> QED BY <1>2, <3>1 DEF Call
  <2> QED BY <2>3, <2>4
<1> QED BY <1>1, <1>2

-----------------------------------------------------------------------------
(* The arguments an aggregator has, and what it passes on of them.          *)

LEMMA TextsAre ==
  ASSUME NEW s \in Seq(Call)
  PROVE  /\ TextsOf(s) \in Seq(Args) /\ Len(TextsOf(s)) = Len(s) /\ DOMAIN TextsOf(s) = 1 .. Len(s)
         /\ Len(s) \in Nat /\ DOMAIN s = 1 .. Len(s)
         /\ \A i \in 1 .. Len(s) : TextsOf(s)[i] = s[i].args /\ s[i] \in Call
<1>1. Len(s) \in Nat /\ DOMAIN s = 1 .. Len(s) /\ \A i \in 1 .. Len(s) : s[i] \in Call
  BY LenProperties, ElementOfSeq
<1>2. TextsOf(s) = [i \in 1 .. Len(s) |-> s[i].args]
  BY <1>1 DEF TextsOf
<1>3. \A i \in 1 .. Len(s) : s[i].args \in Args
  BY <1>1 DEF Call
<1> QED BY <1>1, <1>2, <1>3

LEMMA LastsAre ==
  ASSUME NEW s \in Seq(Item)
  PROVE  /\ LastsOf(s) \in Seq(Args) /\ Len(LastsOf(s)) = Len(s) /\ DOMAIN LastsOf(s) = 1 .. Len(s)
         /\ Len(s) \in Nat /\ DOMAIN s = 1 .. Len(s)
         /\ \A i \in 1 .. Len(s) : LastsOf(s)[i] = s[i].last /\ s[i] \in Item
<1>1. Len(s) \in Nat /\ DOMAIN s = 1 .. Len(s) /\ \A i \in 1 .. Len(s) : s[i] \in Item
  BY LenProperties, ElementOfSeq
<1>2. LastsOf(s) = [i \in 1 .. Len(s) |-> s[i].last]
  BY <1>1 DEF LastsOf
<1>3. \A i \in 1 .. Len(s) : s[i].last \in Args
  BY <1>1 DEF Item
<1> QED BY <1>1, <1>2, <1>3

LEMMA PutTexts ==
  ASSUME NEW s \in Seq(Call), NEW k \in 1 .. Len(s) + 1, NEW x \in Call
  PROVE  TextsOf(Put(s, k, x)) = Put(TextsOf(s), k, x.args)
<1> DEFINE n == IF k > Len(s) THEN k ELSE Len(s)
<1>1. /\ Len(s) \in Nat /\ Len(TextsOf(s)) = Len(s)
      /\ \A i \in 1 .. Len(s) : TextsOf(s)[i] = s[i].args
  BY TextsAre
<1>2. \A i \in 1 .. n : i # k => i \in 1 .. Len(s)
  BY <1>1
<1>3. /\ Put(s, k, x) = [i \in 1 .. n |-> IF i # k THEN s[i] ELSE x]
      /\ Put(TextsOf(s), k, x.args) = [i \in 1 .. n |-> IF i # k THEN TextsOf(s)[i] ELSE x.args]
  BY <1>1 DEF Put
<1> HIDE DEF n
<1>4. DOMAIN Put(s, k, x) = 1 .. n /\ \A i \in 1 .. n : Put(s, k, x)[i] = IF i # k THEN s[i] ELSE x
  BY <1>3
<1>5. TextsOf(Put(s, k, x)) = [i \in 1 .. n |-> Put(s, k, x)[i].args]
  BY <1>4 DEF TextsOf
<1>6. ASSUME NEW i \in 1 .. n PROVE Put(s, k, x)[i].args = IF i # k THEN TextsOf(s)[i] ELSE x.args
  BY <1>1, <1>2, <1>4
<1> QED BY <1>3, <1>5, <1>6

LEMMA PutLasts ==
  ASSUME NEW s \in Seq(Item), NEW k \in 1 .. Len(s) + 1, NEW x \in Item
  PROVE  LastsOf(Put(s, k, x)) = Put(LastsOf(s), k, x.last)
<1> DEFINE n == IF k > Len(s) THEN k ELSE Len(s)
<1>1. /\ Len(s) \in Nat /\ Len(LastsOf(s)) = Len(s)
      /\ \A i \in 1 .. Len(s) : LastsOf(s)[i] = s[i].last
  BY LastsAre
<1>2. \A i \in 1 .. n : i # k => i \in 1 .. Len(s)
  BY <1>1
<1>3. /\ Put(s, k, x) = [i \in 1 .. n |-> IF i # k THEN s[i] ELSE x]
      /\ Put(LastsOf(s), k, x.last) = [i \in 1 .. n |-> IF i # k THEN LastsOf(s)[i] ELSE x.last]
  BY <1>1 DEF Put
<1> HIDE DEF n
<1>4. DOMAIN Put(s, k, x) = 1 .. n /\ \A i \in 1 .. n : Put(s, k, x)[i] = IF i # k THEN s[i] ELSE x
  BY <1>3
<1>5. LastsOf(Put(s, k, x)) = [i \in 1 .. n |-> Put(s, k, x)[i].last]
  BY <1>4 DEF LastsOf
<1>6. ASSUME NEW i \in 1 .. n PROVE Put(s, k, x)[i].last = IF i # k THEN LastsOf(s)[i] ELSE x.last
  BY <1>1, <1>2, <1>4
<1> QED BY <1>3, <1>5, <1>6

LEMMA PutSame ==
  ASSUME NEW S, NEW s \in Seq(S), NEW k \in 1 .. Len(s)
  PROVE  Put(s, k, s[k]) = s
<1>1. Len(s) \in Nat /\ s \in [1 .. Len(s) -> S]
  BY LenProperties
<1>2. s = [i \in 1 .. Len(s) |-> s[i]]
  BY <1>1
<1>3. Put(s, k, s[k]) = [i \in 1 .. Len(s) |-> IF i # k THEN s[i] ELSE s[k]]
  <2> DEFINE n == Len(s)
  <2>1. n \in Nat /\ k \in 1 .. n
    BY <1>1
  <2> HIDE DEF n
  <2>2. (IF k > n THEN k ELSE n) = n
    BY <2>1
  <2> QED BY <2>2 DEF Put, n
<1>4. ASSUME NEW i \in 1 .. Len(s) PROVE s[i] = IF i # k THEN s[i] ELSE s[k]
  OBVIOUS
<1> QED BY <1>2, <1>3, <1>4

\* What a delta makes of the arguments of the calls: those of one of them go on,
\* or it is a new one.
TextAt(as, k) == IF k \in DOMAIN as THEN as[k] ELSE <<>>

Gives(as, d, bs) ==
  /\ d.index \in 1 .. Len(as) + 1
  /\ d.args # NoArgs => IsPrefix(TextAt(as, d.index), d.args) /\ d.args # TextAt(as, d.index)
  /\ bs = Put(as, d.index, IF d.args = NoArgs THEN TextAt(as, d.index) ELSE d.args)

\* What a fragment makes of them.
TextMoves(r, s, k, call) ==
  /\ Settled(s.agg)
  /\ TextsOf(s.agg.calls) = Put(TextsOf(r.agg.calls), k, call.args)
  /\ k \in DOMAIN s.agg.calls /\ s.agg.calls[k].args = call.args /\ s.agg.calls[k].last = call.last
  /\ \A i \in DOMAIN r.agg.calls : i # k => s.agg.calls[i] = r.agg.calls[i]
  /\ \/ s.deltas = r.deltas /\ TextsOf(s.agg.calls) = TextsOf(r.agg.calls)
     \/ \E d \in Dlt : s.deltas = Append(r.deltas, d) /\ Gives(TextsOf(r.agg.calls), d, TextsOf(s.agg.calls))

LEMMA TextStep ==
  ASSUME NEW r, Formed(r.agg), Settled(r.agg), r.deltas \in Seq(Dlt), NEW f \in Frag, NEW message \in BOOLEAN,
         f.backend = NoName \/ f.id = NoName,
         f.id \in {NoName, OldCall(r.agg, f, Resolve(r.agg, f)).id},
         IsPrefix(OldCall(r.agg, f, Resolve(r.agg, f)).args, Heard(r.agg, f, Resolve(r.agg, f)).args),
         message /\ Resolve(r.agg, f) \in DOMAIN r.agg.calls =>
           Heard(r.agg, f, Resolve(r.agg, f)).args = OldCall(r.agg, f, Resolve(r.agg, f)).args
  PROVE  TextMoves(r, Apply(r, f, message), Resolve(r.agg, f), Heard(r.agg, f, Resolve(r.agg, f)))
<1> DEFINE k == Resolve(r.agg, f)
           n == Len(r.agg.calls)
           old == OldCall(r.agg, f, k)
           s == Apply(r, f, message)
           call == Heard(r.agg, f, k)
           d == Delta(call, k)
           tells == Tells(call, d, message)
           new == IF tells THEN Kept(call, d) ELSE call
           as == TextsOf(r.agg.calls)
<1>1. k \in 1 .. n + 1
  BY ResolveIs
<1>2. /\ n \in Nat /\ DOMAIN r.agg.calls = 1 .. n /\ r.agg.calls \in Seq(Call)
      /\ \A i \in 1 .. n : /\ r.agg.calls[i] \in Call /\ r.agg.calls[i].toldId /\ r.agg.calls[i].emitted
                           /\ r.agg.calls[i].told = r.agg.calls[i].args
  BY FormedIs DEF Formed, Settled
<1>3. old \in Call /\ (k \in DOMAIN r.agg.calls => old = r.agg.calls[k]) /\ old.told = old.args
      /\ (k \notin DOMAIN r.agg.calls => k = n + 1 /\ ~old.toldId /\ ~old.emitted /\ old.args = <<>>)
  <2> DEFINE id == IF f.id # NoName THEN f.id ELSE Synthetic(k)
  <2> HIDE DEF k
  <2>1. /\ old \in Call
        /\ k \in DOMAIN r.agg.calls => old = r.agg.calls[k]
        /\ k = n + 1 => k \notin DOMAIN r.agg.calls /\ old = NewCall(id)
    BY <1>1, OldCallIs
  <2>2. k \notin DOMAIN r.agg.calls => k = n + 1
    BY <1>1, <1>2
  <2>3. ~NewCall(id).toldId /\ ~NewCall(id).emitted /\ NewCall(id).told = <<>> /\ NewCall(id).args = <<>>
    BY DEF NewCall
  <2> HIDE DEF old, id
  <2> QED BY <1>2, <2>1, <2>2, <2>3
<1>3a. /\ IsPrefix(old.args, call.args)
       /\ message /\ k \in DOMAIN r.agg.calls => call.args = old.args
  OBVIOUS
<1> HIDE DEF k, n, old
<1>4. /\ s.agg.calls = Put(r.agg.calls, k, new)
      /\ s.deltas = IF tells THEN Append(r.deltas, d) ELSE r.deltas
      /\ call \in Call /\ d \in Dlt /\ Kept(call, d) \in Call
  BY <1>1, <1>2, <1>3, ApplyIs DEF k, n, old
<1>5. /\ call.id = old.id /\ call.toldId = old.toldId /\ call.emitted = old.emitted
      /\ call.told = old.args
  BY <1>3, AppendArgumentIs DEF Heard, old
<1>6. /\ d.index = k /\ d.id = (IF call.toldId THEN NoName ELSE call.id)
      /\ d.args = (IF call.args # <<>> /\ call.args # call.told THEN call.args ELSE NoArgs)
      /\ Kept(call, d).args = call.args /\ Kept(call, d).last = call.last
      /\ Kept(call, d).told = IF d.args # NoArgs THEN d.args ELSE call.told
  BY <1>4 DEF Delta, Kept, Call
<1>7. tells <=> (~message \/ ~call.emitted) /\ (d.id # NoName \/ d.args # NoArgs)
  BY DEF Tells
<1>8. old.id # NoName
  BY <1>3, NamesDiffer, Idents DEF Call
<1>9. call.args = <<>> => old.args = <<>>
  <2>1. old.args \in Seq(Tokens) /\ Len(old.args) \in Nat
    BY <1>3, LenProperties DEF Call, Args
  <2>2. Len(old.args) <= Len(call.args)
    BY <1>3a DEF IsPrefix
  <2> HIDE DEF call
  <2> QED BY <2>1, <2>2, EmptySeq
<1>10. NoArgs \notin Args /\ call.args \in Args
  BY <1>4, ArgsAreNot DEF Call
<1> HIDE DEF call, d, s
<1>11. /\ new \in Call /\ new.args = call.args /\ new.last = call.last
       /\ new.told = call.args
  <2>1. d.args = NoArgs => call.args = old.args
    BY <1>5, <1>6, <1>9, <1>10
  <2>2. d.args # NoArgs => d.args = call.args
    BY <1>6
  <2>3. CASE tells
    BY <1>4, <1>5, <1>6, <2>1, <2>2, <2>3
  <2>4. CASE ~tells
    <3>1. call.args = old.args
      <4>1. CASE d.args = NoArgs
        BY <2>1, <4>1
      <4>2. CASE d.args # NoArgs
        <5>1. message /\ call.emitted
          BY <1>7, <2>4, <4>2
        <5>2. k \in DOMAIN r.agg.calls
          BY <1>3, <1>5, <5>1
        <5> QED BY <1>3a, <5>1, <5>2
      <4> QED BY <4>1, <4>2
    <3> QED BY <1>4, <1>5, <2>4, <3>1
  <2> QED BY <2>3, <2>4
<1>12. /\ s.agg.calls \in Seq(Call) /\ s.agg.calls[k] = new /\ k \in DOMAIN s.agg.calls
       /\ \A i \in DOMAIN s.agg.calls : i # k => i \in 1 .. n
       /\ \A i \in 1 .. n : i # k => s.agg.calls[i] = r.agg.calls[i]
       /\ TextsOf(s.agg.calls) = Put(as, k, call.args)
  <2> HIDE DEF new
  <2>1. r.agg.calls \in Seq(Call) /\ k \in 1 .. Len(r.agg.calls) + 1 /\ new \in Call
    BY <1>1, <1>2, <1>11 DEF n
  <2>2. HasPut(Put(r.agg.calls, k, new), Call, r.agg.calls, k, new)
    BY <2>1, PutOf
  <2>3. TextsOf(Put(r.agg.calls, k, new)) = Put(TextsOf(r.agg.calls), k, new.args)
    BY <2>1, PutTexts
  <2> DEFINE p == Put(r.agg.calls, k, new)
  <2>4. /\ p \in Seq(Call) /\ Len(p) = (IF k > n THEN k ELSE n) /\ p[k] = new
        /\ \A i \in 1 .. n : i # k => p[i] = r.agg.calls[i]
    BY <1>2, <2>2 DEF HasPut, n
  <2> HIDE DEF p
  <2>5. DOMAIN p = 1 .. Len(p)
    BY <2>4, LenProperties
  <2>6. k \in DOMAIN p /\ \A i \in DOMAIN p : i # k => i \in 1 .. n
    BY <1>1, <1>2, <2>4, <2>5
  <2>7. s.agg.calls = p
    BY <1>4 DEF p
  <2> QED BY <1>11, <2>3, <2>4, <2>6, <2>7 DEF p
<1> HIDE DEF new
<1>13. Settled(s.agg)
  BY <1>2, <1>11, <1>12 DEF Settled
<1>14. as \in Seq(Args) /\ DOMAIN as = 1 .. n /\ Len(as) = n /\ \A i \in 1 .. n : as[i] = r.agg.calls[i].args
  BY <1>2, TextsAre DEF n
<1>15. TextAt(as, k) = old.args
  BY <1>2, <1>3, <1>14 DEF TextAt
<1> HIDE DEF as
<1>16. CASE tells
  <2>1. d.args = NoArgs => call.args = TextAt(as, k)
    BY <1>5, <1>6, <1>9, <1>10, <1>15
  <2>2. d.args # NoArgs => d.args = call.args /\ d.args # TextAt(as, k)
    BY <1>5, <1>6, <1>15
  <2>3. Gives(as, d, TextsOf(s.agg.calls))
    BY <1>1, <1>3a, <1>6, <1>12, <1>14, <1>15, <2>1, <2>2 DEF Gives
  <2>4. s.deltas = Append(r.deltas, d) /\ d \in Dlt
    BY <1>4, <1>16
  <2>5. \E e \in Dlt : s.deltas = Append(r.deltas, e) /\ Gives(as, e, TextsOf(s.agg.calls))
    BY <2>3, <2>4
  <2>6. TextMoves(r, s, k, call)
    BY <1>2, <1>11, <1>12, <1>13, <2>5 DEF TextMoves, as
  <2> QED BY <2>6 DEF s, k, call
<1>17. CASE ~tells
  <2>1. k \in DOMAIN r.agg.calls
    BY <1>3, <1>5, <1>6, <1>7, <1>8, <1>17
  <2>2. call.args = old.args
    <3>1. CASE d.args = NoArgs
      BY <1>5, <1>6, <1>9, <1>10, <3>1
    <3>2. CASE d.args # NoArgs
      BY <1>3a, <1>7, <1>17, <2>1, <3>2
    <3> QED BY <3>1, <3>2
  <2>3. Put(as, k, as[k]) = as
    BY <1>2, <1>14, <2>1, PutSame
  <2>4. as[k] = call.args
    BY <1>2, <1>3, <1>14, <2>1, <2>2
  <2>5. TextsOf(s.agg.calls) = as
    BY <1>12, <2>3, <2>4
  <2>6. s.deltas = r.deltas
    BY <1>4, <1>17
  <2>7. TextMoves(r, s, k, call)
    BY <1>2, <1>11, <1>12, <1>13, <2>5, <2>6 DEF TextMoves, as
  <2> QED BY <2>7 DEF s, k, call
<1> QED BY <1>16, <1>17

\* The deltas lead from the arguments as to the arguments bs.
Gained(m, ds, as, bs) ==
  /\ m \in [0 .. Len(ds) -> Seq(Args)] /\ m[0] = as /\ m[Len(ds)] = bs
  /\ \A j \in 1 .. Len(ds) : Gives(m[j - 1], ds[j], m[j])

Gets(as, ds, bs) == \E m : Gained(m, ds, as, bs)

LEMMA OneOf ==
  ASSUME NEW T, NEW c \in T
  PROVE  \E m \in [0 .. 0 -> T] : m[0] = c
<1>1. [j \in 0 .. 0 |-> c] \in [0 .. 0 -> T] /\ [j \in 0 .. 0 |-> c][0] = c
  OBVIOUS
<1> QED BY <1>1

\* A function on 0 .. n with one more value.
Longer(h, m, n, T, c) ==
  h \in [0 .. n + 1 -> T] /\ h[n + 1] = c /\ \A j \in 0 .. n : h[j] = m[j]

LEMMA OneMore ==
  ASSUME NEW T, NEW n \in Nat, NEW m \in [0 .. n -> T], NEW c \in T
  PROVE  \E h : Longer(h, m, n, T, c)
<1> DEFINE h == [j \in 0 .. n + 1 |-> IF j <= n THEN m[j] ELSE c]
<1>1. h \in [0 .. n + 1 -> T] /\ h[n + 1] = c /\ \A j \in 0 .. n : h[j] = m[j]
  OBVIOUS
<1> HIDE DEF h
<1>2. Longer(h, m, n, T, c)
  BY <1>1 DEF Longer
<1> QED BY <1>2

LEMMA GetsNone ==
  ASSUME NEW as \in Seq(Args)
  PROVE  Gets(as, <<>>, as)
<1>1. PICK m \in [0 .. 0 -> Seq(Args)] : m[0] = as
  BY OneOf
<1>2. Len(<<>>) = 0
  BY EmptySeq
<1>3. Gained(m, <<>>, as, as)
  BY <1>1, <1>2 DEF Gained
<1> QED BY <1>3 DEF Gets

LEMMA GivesTexts ==
  ASSUME NEW as \in Seq(Args), NEW d \in Dlt, NEW bs, Gives(as, d, bs)
  PROVE  bs \in Seq(Args)
<1>1. TextAt(as, d.index) \in Args
  BY ElementOfSeq, LenProperties, ArgsAreNot DEF TextAt
<1> DEFINE x == IF d.args = NoArgs THEN TextAt(as, d.index) ELSE d.args
<1>2. x \in Args
  BY <1>1 DEF Dlt
<1>3. d.index \in 1 .. Len(as) + 1 /\ bs = Put(as, d.index, x)
  BY DEF Gives
<1> HIDE DEF x
<1>4. HasPut(Put(as, d.index, x), Args, as, d.index, x)
  BY <1>2, <1>3, PutOf
<1> QED BY <1>3, <1>4 DEF HasPut

LEMMA GetsOn ==
  ASSUME NEW as, NEW ds \in Seq(Dlt), NEW bs, Gets(as, ds, bs), NEW d \in Dlt, NEW cs, Gives(bs, d, cs)
  PROVE  Gets(as, Append(ds, d), cs)
<1>1. PICK m : Gained(m, ds, as, bs)
  BY DEF Gets
<1> DEFINE n == Len(ds)
           es == Append(ds, d)
<1>2. /\ n \in Nat /\ Len(es) = n + 1 /\ es[n + 1] = d
      /\ \A j \in 1 .. n : es[j] = ds[j]
  BY Appended
<1>3. /\ m \in [0 .. n -> Seq(Args)] /\ m[0] = as /\ m[n] = bs
      /\ \A j \in 1 .. n : Gives(m[j - 1], es[j], m[j])
  BY <1>1, <1>2 DEF Gained
<1>3a. cs \in Seq(Args)
  <2>1. bs \in Seq(Args)
    BY <1>2, <1>3
  <2> QED BY <2>1, GivesTexts
<1> HIDE DEF n, es
<1>4a. \E h : Longer(h, m, n, Seq(Args), cs)
  <2> DEFINE T == Seq(Args)
  <2>1. n \in Nat /\ m \in [0 .. n -> T] /\ cs \in T
    BY <1>2, <1>3, <1>3a
  <2> HIDE DEF T
  <2>2. \E h : Longer(h, m, n, T, cs)
    BY <2>1, OneMore
  <2> QED BY <2>2 DEF T
<1>4b. PICK h : Longer(h, m, n, Seq(Args), cs)
  BY <1>4a
<1>4. h \in [0 .. n + 1 -> Seq(Args)] /\ h[0] = as /\ h[n + 1] = cs /\ (\A j \in 0 .. n : h[j] = m[j])
  <2>1. 0 \in 0 .. n
    BY <1>2
  <2> QED BY <1>3, <1>4b, <2>1 DEF Longer
<1>5. ASSUME NEW j \in 1 .. n + 1 PROVE Gives(h[j - 1], es[j], h[j])
  <2>1. CASE j \in 1 .. n
    <3>1. j \in 0 .. n /\ j - 1 \in 0 .. n
      BY <1>2, <2>1
    <3>2. h[j] = m[j] /\ h[j - 1] = m[j - 1]
      BY <1>4, <3>1
    <3> QED BY <1>3, <2>1, <3>2
  <2>2. CASE j = n + 1
    <3>1. h[j] = cs /\ h[j - 1] = bs /\ es[j] = d
      BY <1>2, <1>3, <1>4, <2>2
    <3> QED BY <3>1
  <2> QED BY <1>2, <2>1, <2>2
<1>6. Gained(h, es, as, cs)
  BY <1>2, <1>4, <1>5 DEF Gained
<1>7. Gets(as, es, cs)
  BY <1>6 DEF Gets
<1> QED BY <1>7 DEF es

\* What TextStep says, for the deltas so far.
LEMMA TextGets ==
  ASSUME NEW as, NEW r, NEW s, NEW k, NEW call, r.deltas \in Seq(Dlt), TextMoves(r, s, k, call),
         Gets(as, r.deltas, TextsOf(r.agg.calls))
  PROVE  Gets(as, s.deltas, TextsOf(s.agg.calls))
<1>1. CASE s.deltas = r.deltas /\ TextsOf(s.agg.calls) = TextsOf(r.agg.calls)
  BY <1>1
<1>2. ASSUME NEW d \in Dlt, s.deltas = Append(r.deltas, d), Gives(TextsOf(r.agg.calls), d, TextsOf(s.agg.calls))
      PROVE  Gets(as, s.deltas, TextsOf(s.agg.calls))
  <2> DEFINE bs == TextsOf(r.agg.calls)
             cs == TextsOf(s.agg.calls)
             ds == r.deltas
  <2>1. Gets(as, ds, bs) /\ Gives(bs, d, cs) /\ ds \in Seq(Dlt)
    BY <1>2
  <2> HIDE DEF bs, cs, ds
  <2>2. Gets(as, Append(ds, d), cs)
    BY <2>1, GetsOn
  <2> QED BY <1>2, <2>2 DEF ds, cs
<1> QED BY <1>1, <1>2 DEF TextMoves

-----------------------------------------------------------------------------
(* What the chat handler has heard.                                         *)

LEMMA PrefixOfParts ==
  ASSUME NEW t \in Args, NEW s \in Nat, NEW e \in Nat, s <= e, e <= Len(t)
  PROVE  IsPrefix(SubSeq(t, 1, s), SubSeq(t, 1, e))
<1>1. Splits(Tokens, t, s, e)
  BY PartIs DEF Args
<1>2. e <= e
  OBVIOUS
<1>3. Splits(Tokens, t, e, e)
  BY <1>2, PartIs DEF Args
<1>4. /\ Len(SubSeq(t, 1, s)) = s /\ Len(SubSeq(t, 1, e)) = e
      /\ SubSeq(t, 1, s) \in Seq(Tokens) /\ SubSeq(t, 1, e) \in Seq(Tokens)
  BY <1>1, <1>3 DEF Splits
<1>5. SubSeq(SubSeq(t, 1, s), 1, s) = SubSeq(t, 1, s)
  BY <1>4, SubSeqFull
<1>6. SubSeq(SubSeq(t, 1, e), 1, s) = SubSeq(t, 1, s)
  <2>1. CASE s = 0
    <3>1. SubSeq(SubSeq(t, 1, e), 1, 0) = <<>> /\ SubSeq(t, 1, 0) = <<>>
      BY SubSeqEmpty
    <3> QED BY <2>1, <3>1
  <2>2. CASE s # 0
    <3> DEFINE j == e
    <3>1. /\ t \in Seq(Tokens) /\ 1 \in 1 .. Len(t) /\ j \in 1 .. Len(t)
          /\ 1 \in 1 .. j - 1 + 1 /\ s \in 1 .. j - 1 + 1
      BY <2>2, LenProperties DEF Args
    <3> HIDE DEF j
    <3>2. SubSeq(SubSeq(t, 1, j), 1, s) = SubSeq(t, 1 + 1 - 1, 1 + s - 1)
      BY <3>1, SubSeqOfSubSeq
    <3> QED BY <3>2 DEF j
  <2> QED BY <2>1, <2>2
<1> QED BY <1>4, <1>5, <1>6 DEF IsPrefix

\* A fragment that does not look like what a call's aggregator has.
Fresh(agg, n, said, part) ==
  /\ Id(n) \in DOMAIN agg.alias => part # agg.calls[agg.alias[Id(n)]].last
  /\ Unlike(said, part)

\* A fragment of the call n, which had s tokens and then has e.
Speaks(agg, f, n, t, s, e, message) ==
  /\ {f.backend, f.id} \subseteq {NoName, Id(n)}
  /\ Resolve(agg, f) = IF Id(n) \in DOMAIN agg.alias THEN agg.alias[Id(n)] ELSE Len(agg.calls) + 1
  /\ Id(n) \in DOMAIN agg.alias \cup NamesOf(f)
  /\ s <= e /\ e <= Len(t)
  /\ \/ ~f.replace /\ ~message /\ s < e /\ f.args = SubSeq(t, s + 1, e) /\ Fresh(agg, n, SubSeq(t, 1, s), f.args)
     \/ f.replace /\ f.args = t /\ e = Len(t) /\ (message => s \in {0, Len(t)})

\* The call of a fragment, then: nothing that was said of it is lost.
LEMMA Understood ==
  ASSUME NEW agg, Formed(agg), NEW f \in Frag, NEW n \in Names, NEW t \in Args,
         NEW s \in Nat, NEW e \in Nat, NEW message \in BOOLEAN, Speaks(agg, f, n, t, s, e, message),
         IF Id(n) \in DOMAIN agg.alias THEN Knows(agg.calls[agg.alias[Id(n)]], t, s) ELSE s = 0
  PROVE  LET k == Resolve(agg, f)
             old == OldCall(agg, f, k)
             call == Heard(agg, f, k)
         IN /\ IsPrefix(old.args, call.args)
            /\ message /\ k \in DOMAIN agg.calls => call.args = old.args
            /\ Knows(call, t, e)
<1> DEFINE k == Resolve(agg, f)
           old == OldCall(agg, f, k)
           call == Heard(agg, f, k)
<1>1. /\ k = IF Id(n) \in DOMAIN agg.alias THEN agg.alias[Id(n)] ELSE Len(agg.calls) + 1
      /\ Len(agg.calls) \in Nat /\ DOMAIN agg.calls = 1 .. Len(agg.calls)
      /\ Id(n) \in DOMAIN agg.alias => agg.alias[Id(n)] \in DOMAIN agg.calls
  BY FormedIs DEF Speaks, Formed
<1>2. k \in 1 .. Len(agg.calls) + 1
  BY <1>1
<1>3. k \in DOMAIN agg.calls <=> Id(n) \in DOMAIN agg.alias
  BY <1>1
<1>4. Len(t) \in Nat /\ SubSeq(t, 1, 0) = <<>> /\ SubSeq(t, 1, Len(t)) = t /\ (t = <<>> <=> Len(t) = 0)
  BY LenProperties, EmptySeq, SubSeqEmpty, SubSeqFull DEF Args
<1>5. /\ old \in Call /\ old.args = SubSeq(t, 1, s)
      /\ Id(n) \in DOMAIN agg.alias => old.last = agg.calls[agg.alias[Id(n)]].last
      /\ Id(n) \notin DOMAIN agg.alias => old.last = NoArgs
      /\ k \in DOMAIN agg.calls => s > 0 \/ t = <<>>
  <2> DEFINE id == IF f.id # NoName THEN f.id ELSE Synthetic(k)
  <2> HIDE DEF k
  <2>1. /\ old \in Call
        /\ k \in DOMAIN agg.calls => old = agg.calls[k]
        /\ k = Len(agg.calls) + 1 => old = NewCall(id)
    BY <1>2, OldCallIs
  <2>2. NewCall(id).args = <<>> /\ NewCall(id).last = NoArgs
    BY DEF NewCall
  <2> HIDE DEF old, id
  <2>3. CASE Id(n) \in DOMAIN agg.alias
    BY <1>1, <2>1, <2>3 DEF Knows
  <2>4. CASE Id(n) \notin DOMAIN agg.alias
    <3>1. old = NewCall(id) /\ s = 0
      BY <1>1, <2>1, <2>4
    <3>2. k \notin DOMAIN agg.calls
      BY <1>3, <2>4
    <3> QED BY <1>4, <2>1, <2>2, <2>4, <3>1, <3>2
  <2> QED BY <2>3, <2>4
<1>6. call = AppendArgument(old, f)
  BY DEF Heard
<1> HIDE DEF call, old, k
<1>7. s <= e /\ e <= Len(t)
  BY DEF Speaks
<1>8. call.args = SubSeq(t, 1, e) /\ (e > 0 \/ t = <<>>)
  <2>1. CASE ~f.replace /\ ~message /\ s < e /\ f.args = SubSeq(t, s + 1, e) /\ Fresh(agg, n, SubSeq(t, 1, s), f.args)
    <3> DEFINE d == e - s
    <3>1. d \in Nat /\ d > 0 /\ s + d = e
      BY <2>1
    <3> HIDE DEF d
    <3>2. s + d <= Len(t) /\ f.args = SubSeq(t, s + 1, s + d)
      BY <1>7, <2>1, <3>1
    <3>2a. Unlike(old.args, f.args)
      BY <1>5, <2>1 DEF Fresh
    <3>2b. f.args # old.last \/ old.last = NoArgs
      BY <1>5, <2>1 DEF Fresh
    <3>2c. old \in Call /\ old.args = SubSeq(t, 1, s) /\ ~f.replace
      BY <1>5, <2>1
    <3>2d. Continues(old, f, t, s, d)
      BY <3>1, <3>2, <3>2a, <3>2b, <3>2c DEF Continues
    <3>3. AppendArgument(old, f).args = SubSeq(t, 1, s + d)
      BY <3>1, <3>2c, <3>2d, NextPart
    <3> QED BY <1>6, <2>1, <3>1, <3>3
  <2>2. CASE f.replace /\ f.args = t /\ e = Len(t)
    <3>1. AppendArgument(old, f).args = SubSeq(t, 1, Len(t))
      BY <1>5, <2>2, WholePart
    <3> QED BY <1>4, <1>6, <2>2, <3>1
  <2> QED BY <2>1, <2>2 DEF Speaks
<1>9. IsPrefix(old.args, call.args)
  <2>1. IsPrefix(SubSeq(t, 1, s), SubSeq(t, 1, e))
    BY <1>7, PrefixOfParts
  <2> QED BY <1>5, <1>8, <2>1
<1>10. ASSUME message, k \in DOMAIN agg.calls PROVE call.args = old.args
  <2>1. s \in {0, Len(t)} /\ e = Len(t)
    BY <1>10 DEF Speaks
  <2>2. s = Len(t)
    <3>1. CASE s = 0
      <4>1. t = <<>>
        <5>1. s > 0 \/ t = <<>>
          BY <1>5, <1>10
        <5>2. ~(s > 0)
          BY <3>1
        <5> QED BY <5>1, <5>2
      <4>2. Len(t) = 0
        BY <1>4, <4>1
      <4> QED BY <3>1, <4>2
    <3>2. CASE s = Len(t)
      BY <3>2
    <3> QED BY <2>1, <3>1, <3>2
  <2> QED BY <1>5, <1>8, <2>1, <2>2
<1> QED BY <1>8, <1>9, <1>10 DEF Knows, call, old, k

\* Nothing changes for the other calls.
LEMMA StillHears ==
  ASSUME NEW r, NEW u, Formed(r.agg), NEW f \in Frag, NEW k, NEW call, TextMoves(r, u, k, call),
         u.agg.alias = Known(r.agg.alias, f, k), NEW message,
         NEW truth, NEW sent \in [Names -> Nat], Hears(r.agg, truth, sent),
         NEW n \in Names, NEW e \in Nat, Speaks(r.agg, f, n, truth[n], sent[n], e, message),
         k = Resolve(r.agg, f), Knows(call, truth[n], e)
  PROVE  Hears(u.agg, truth, [sent EXCEPT ![n] = e])
<1> DEFINE alias == r.agg.alias
           next == u.agg.alias
           calls == r.agg.calls
           after == u.agg.calls
           told == [sent EXCEPT ![n] = e]
<1>1. /\ k = IF Id(n) \in DOMAIN alias THEN alias[Id(n)] ELSE Len(calls) + 1
      /\ Len(calls) \in Nat /\ DOMAIN calls = 1 .. Len(calls)
      /\ \A a \in DOMAIN alias : alias[a] \in DOMAIN calls
  BY FormedIs DEF Speaks, Formed
<1>2. /\ next = [a \in DOMAIN alias \cup NamesOf(f) |-> IF a \in NamesOf(f) THEN k ELSE alias[a]]
  BY DEF Known
<1>3. \A m \in Names : Id(m) \in NamesOf(f) => m = n
  <2>1. ASSUME NEW m \in Names, Id(m) \in NamesOf(f) PROVE m = n
    <3>1. Id(m) # NoName /\ f.index \in Nat /\ Id(m) # Index(f.index)
      BY NamesDiffer, Idents DEF Frag
    <3>2. Id(m) \in {f.backend, f.id}
      BY <2>1, <3>1 DEF NamesOf
    <3>3. Id(m) = Id(n)
      BY <3>1, <3>2 DEF Speaks
    <3> QED BY <3>3, NamesDiffer
  <2> QED BY <2>1
<1>4. Id(n) \in DOMAIN next /\ next[Id(n)] = k
  <2>1. Id(n) \in DOMAIN alias \cup NamesOf(f)
    BY DEF Speaks
  <2> QED BY <1>1, <1>2, <2>1
<1>5. ASSUME NEW m \in Names, m # n
      PROVE  /\ Id(m) \in DOMAIN next <=> Id(m) \in DOMAIN alias
             /\ Id(m) \in DOMAIN alias =>
                  next[Id(m)] = alias[Id(m)] /\ alias[Id(m)] \in DOMAIN calls /\ alias[Id(m)] # k
  <2>1. Id(m) \notin NamesOf(f)
    BY <1>3, <1>5
  <2>2. ASSUME Id(m) \in DOMAIN alias PROVE alias[Id(m)] # k
    <3>1. alias[Id(m)] \in 1 .. Len(calls)
      BY <1>1, <2>2
    <3>2. CASE Id(n) \in DOMAIN alias
      BY <1>1, <1>5, <2>2, <3>2 DEF Hears
    <3>3. CASE Id(n) \notin DOMAIN alias
      BY <1>1, <3>1, <3>3
    <3> QED BY <3>2, <3>3
  <2> QED BY <1>1, <1>2, <2>1, <2>2
<1>6. /\ after[k].args = call.args /\ after[k].last = call.last
      /\ \A i \in DOMAIN calls : i # k => after[i] = calls[i]
  BY DEF TextMoves
<1>7. told[n] = e /\ \A m \in Names : m # n => told[m] = sent[m]
  OBVIOUS
<1>8. /\ \A m \in Names : IF Id(m) \in DOMAIN alias THEN Knows(calls[alias[Id(m)]], truth[m], sent[m]) ELSE sent[m] = 0
      /\ \A l, m \in Names : Id(l) \in DOMAIN alias /\ Id(m) \in DOMAIN alias /\ alias[Id(l)] = alias[Id(m)] => l = m
  BY DEF Hears
<1> HIDE DEF alias, next, calls, after, told
<1>9. ASSUME NEW m \in Names
      PROVE  IF Id(m) \in DOMAIN next THEN Knows(after[next[Id(m)]], truth[m], told[m]) ELSE told[m] = 0
  <2>1. CASE m = n
    <3>1. Knows(after[k], truth[n], e)
      BY <1>6 DEF Knows
    <3> QED BY <1>4, <1>7, <2>1, <3>1
  <2>2. CASE m # n
    BY <1>5, <1>6, <1>7, <1>8, <2>2
  <2> QED BY <2>1, <2>2
<1>10. ASSUME NEW l \in Names, NEW m \in Names, Id(l) \in DOMAIN next, Id(m) \in DOMAIN next, next[Id(l)] = next[Id(m)]
       PROVE  l = m
  <2>1. CASE l = n
    BY <1>4, <1>5, <1>10, <2>1
  <2>2. CASE m = n
    BY <1>4, <1>5, <1>10, <2>2
  <2>3. CASE l # n /\ m # n
    BY <1>5, <1>8, <1>10, <2>3
  <2> QED BY <2>1, <2>2, <2>3
<1> QED BY <1>9, <1>10 DEF Hears, next, after, told

\* What the chat handler does with a fragment.
LEMMA ChatFragment ==
  ASSUME NEW r, NEW style, ChatOf(style, r.agg), Settled(r.agg), r.deltas \in Seq(Dlt),
         NEW f \in Frag, Fitting(style, f), NEW message \in BOOLEAN,
         NEW truth, NEW sent \in [Names -> Nat], Hears(r.agg, truth, sent),
         NEW n \in Names, truth[n] \in Args, NEW e \in Nat,
         Speaks(r.agg, f, n, truth[n], sent[n], e, message)
  PROVE  /\ TextMoves(r, Apply(r, f, message), Resolve(r.agg, f), Heard(r.agg, f, Resolve(r.agg, f)))
         /\ Hears(Apply(r, f, message).agg, truth, [sent EXCEPT ![n] = e])
         /\ Apply(r, f, message).agg.alias = Known(r.agg.alias, f, Resolve(r.agg, f))
         /\ Apply(r, f, message).deltas \in Seq(Dlt)
<1> DEFINE k == Resolve(r.agg, f)
           old == OldCall(r.agg, f, k)
           call == Heard(r.agg, f, k)
           u == Apply(r, f, message)
           t == truth[n]
           s == sent[n]
<1>1. Formed(r.agg) /\ s \in Nat /\ t \in Args /\ Speaks(r.agg, f, n, t, s, e, message)
  BY DEF ChatOf, Chatted
<1>2. IF Id(n) \in DOMAIN r.agg.alias THEN Knows(r.agg.calls[r.agg.alias[Id(n)]], t, s) ELSE s = 0
  BY DEF Hears
<1> HIDE DEF t, s
<1>3. /\ IsPrefix(old.args, call.args)
      /\ message /\ k \in DOMAIN r.agg.calls => call.args = old.args
      /\ Knows(call, t, e)
  BY <1>1, <1>2, Understood
<1>4. (f.backend = NoName \/ f.id = NoName) /\ f.id \in {NoName, old.id}
  BY ChatKeepsName
<1>5. TextMoves(r, u, k, call)
  BY <1>1, <1>3, <1>4, TextStep
<1>6. u.agg.alias = Known(r.agg.alias, f, k) /\ u.deltas \in Seq(Dlt)
  BY <1>1, <1>4, StepIs
<1> HIDE DEF k, old, call, u
<1>7. Hears(u.agg, truth, [sent EXCEPT ![n] = e])
  <2>1. Speaks(r.agg, f, n, truth[n], sent[n], e, message) /\ Knows(call, truth[n], e) /\ k = Resolve(r.agg, f)
    BY <1>1, <1>3 DEF t, s, k
  <2> QED BY <1>1, <1>5, <1>6, <2>1, StillHears
<1> QED BY <1>5, <1>6, <1>7 DEF k, call, u

\* What a list of fragments does to the arguments.
Tidings(agg, r, truth, sent) ==
  /\ Settled(r.agg) /\ r.deltas \in Seq(Dlt)
  /\ Gets(TextsOf(agg.calls), r.deltas, TextsOf(r.agg.calls))
  /\ Hears(r.agg, truth, sent)

LEMMA IngestOne ==
  ASSUME NEW agg, NEW f, NEW message
  PROVE  Ingest(agg, <<f>>, message) = Apply([agg |-> agg, deltas |-> <<>>], f, message)
<1>1. Len(<<f>>) = 1 /\ <<f>>[1] = f
  OBVIOUS
<1> DEFINE fs == <<f>>
<1>2. Len(fs) \in Nat
  BY <1>1
<1> HIDE DEF fs
<1>3. PICK after : IngestRun(after, agg, fs, message)
  BY <1>2, IngestSteps
<1>4. Len(fs) = 1 /\ fs[1] = f
  BY <1>1 DEF fs
<1>5. Ingest(agg, fs, message) = after[1] /\ after[1] = Apply(after[0], f, message)
      /\ after[0] = [agg |-> agg, deltas |-> <<>>]
  BY <1>3, <1>4 DEF IngestRun
<1> QED BY <1>5 DEF fs

LEMMA OneTells ==
  ASSUME NEW agg, NEW style, ChatOf(style, agg), Settled(agg),
         NEW f \in Frag, Fitting(style, f), NEW message \in BOOLEAN,
         NEW truth, NEW sent \in [Names -> Nat], Hears(agg, truth, sent),
         NEW n \in Names, truth[n] \in Args, NEW e \in Nat,
         Speaks(agg, f, n, truth[n], sent[n], e, message)
  PROVE  /\ Tidings(agg, Ingest(agg, <<f>>, message), truth, [sent EXCEPT ![n] = e])
         /\ Ingest(agg, <<f>>, message).agg.alias = Known(agg.alias, f, Resolve(agg, f))
<1> DEFINE r == [agg |-> agg, deltas |-> <<>>]
           u == Apply(r, f, message)
<1>1. r.agg = agg /\ r.deltas = <<>> /\ r.deltas \in Seq(Dlt)
  OBVIOUS
<1>2. Ingest(agg, <<f>>, message) = u
  BY IngestOne
<1> HIDE DEF r
<1>3. /\ TextMoves(r, u, Resolve(r.agg, f), Heard(r.agg, f, Resolve(r.agg, f)))
      /\ Hears(u.agg, truth, [sent EXCEPT ![n] = e])
      /\ u.agg.alias = Known(r.agg.alias, f, Resolve(r.agg, f))
      /\ u.deltas \in Seq(Dlt)
  BY <1>1, ChatFragment
<1> HIDE DEF u
<1>4. TextsOf(agg.calls) \in Seq(Args)
  BY TextsAre DEF ChatOf, Chatted, Formed
<1>5. Gets(TextsOf(agg.calls), r.deltas, TextsOf(r.agg.calls))
  BY <1>1, <1>4, GetsNone
<1>6. Gets(TextsOf(agg.calls), u.deltas, TextsOf(u.agg.calls))
  <2> DEFINE as == TextsOf(agg.calls)
             k == Resolve(r.agg, f)
             call == Heard(r.agg, f, k)
  <2>1. Gets(as, r.deltas, TextsOf(r.agg.calls)) /\ TextMoves(r, u, k, call)
    BY <1>3, <1>5
  <2> HIDE DEF as, k, call
  <2>2. Gets(as, u.deltas, TextsOf(u.agg.calls))
    BY <1>1, <2>1, TextGets
  <2> QED BY <2>2 DEF as
<1>7. Settled(u.agg)
  BY <1>3 DEF TextMoves
<1> QED BY <1>1, <1>2, <1>3, <1>6, <1>7 DEF Tidings

\* An order has every name.
LEMMA OrderHasAll ==
  ASSUME NEW named \in SUBSET Names, NEW n \in named
  PROVE  \E i \in 1 .. Cardinality(named) : SetToSeq(named)[i] = n
<1>1. Cardinality(named) \in Nat /\ ExistsBijection(1 .. Cardinality(named), named) /\ IsFiniteSet(named)
  BY FS_Subset, FS_CardinalityType, ToolCallsAssumption
<1> DEFINE N == Cardinality(named)
           D == 1 .. N
<1>2. \E f \in [D -> named] : IsInjective(f)
  BY <1>1 DEF ExistsBijection, Bijection, Injection, IsInjective
<1>3. SetToSeq(named) \in [D -> named] /\ IsInjective(SetToSeq(named))
  BY <1>2 DEF SetToSeq
<1>4. Cardinality(D) = N
  <2>1. 1 \in Int /\ N \in Int
    BY <1>1
  <2>2. Cardinality(1 .. N) = IF 1 > N THEN 0 ELSE N - 1 + 1
    BY <2>1, FS_Interval
  <2> QED BY <1>1, <2>2
<1> DEFINE g == SetToSeq(named)
<1>5. g \in Injection(D, named)
  BY <1>3 DEF Injection, IsInjective
<1> HIDE DEF g, N, D
<1>6. g \in Surjection(D, named)
  BY <1>1, <1>4, <1>5, FS_Injection DEF N
<1>7. \E i \in D : g[i] = n
  BY <1>6 DEF Surjection
<1> QED BY <1>7 DEF g, D, N

\* A call of the final message.
OfMessage(agg, f, n, t, s, message) ==
  f \in Frag /\ Fitting("chunks", f) /\ Speaks(agg, f, n, t, s, Len(t), message)

LEMMA MessageSpeaks ==
  ASSUME NEW agg, Formed(agg), NEW n \in Names, NEW t \in Args, NEW f \in Frag, f.backend = NoName, f.id = Id(n),
         f.args = t, f.replace, NEW s \in {0, Len(t)}, NEW message \in BOOLEAN
  PROVE  OfMessage(agg, f, n, t, s, message)
<1>1. Id(n) \in Ids /\ Id(n) \in Ident /\ Id(n) # NoName /\ Len(t) \in Nat
  BY Idents, NamesDiffer, LenProperties DEF Args
<1>2. /\ f \in Frag /\ f.backend = NoName /\ f.id = Id(n) /\ f.args = t /\ f.replace
  OBVIOUS
<1>3. Fitting("chunks", f)
  BY <1>1, <1>2 DEF Fitting
<1>4. Resolve(agg, f) = IF Id(n) \in DOMAIN agg.alias THEN agg.alias[Id(n)] ELSE Len(agg.calls) + 1
  BY <1>1, <1>2, ResolveIs
<1>5. Id(n) \in NamesOf(f)
  BY <1>1, <1>2 DEF NamesOf
<1>6. s <= Len(t) /\ Len(t) <= Len(t)
  BY <1>1
<1> QED BY <1>2, <1>3, <1>4, <1>5, <1>6 DEF Speaks, OfMessage

\* What the calls have been sent once the first j of a message are in.
SentBy(order, j, truth, sent) ==
  [n \in Names |-> IF \E i \in 1 .. j : order[i] = n THEN Len(truth[n]) ELSE sent[n]]

\* What the backend's calls say.
AllArgs(truth) == \A n \in Names : truth[n] \in Args

\* A message has the calls of which something was said, and they are complete.
HasAll(named, truth, sent) == \A n \in Names : sent[n] > 0 => n \in named /\ sent[n] = Len(truth[n])

MessageOf(named, truth) ==
  [i \in DOMAIN SetToSeq(named) |->
     Fragment(NoName, Id(SetToSeq(named)[i]), i, truth[SetToSeq(named)[i]], TRUE)]

SentIn(named, truth) == [n \in Names |-> IF n \in named THEN Len(truth[n]) ELSE 0]

LEMMA MessageTells ==
  ASSUME NEW agg, NEW style, style = "chunks", ChatOf(style, agg), Settled(agg), NEW message \in BOOLEAN,
         NEW truth, AllArgs(truth), NEW sent \in [Names -> Nat], Hears(agg, truth, sent),
         NEW named \in SUBSET Names, HasAll(named, truth, sent), NEW fs, fs = MessageOf(named, truth)
  PROVE  Tidings(agg, Ingest(agg, fs, message), truth, SentIn(named, truth))
<1> DEFINE order == SetToSeq(named)
           N == Cardinality(named)
           end == SentIn(named, truth)
<1>1. DOMAIN order = 1 .. N /\ N \in Nat /\ \A i \in 1 .. N : order[i] \in named
  BY OrderIs
<1>2. \A n \in named : \E i \in 1 .. N : order[i] = n
  BY OrderHasAll
<1>3. /\ fs = [i \in 1 .. N |-> Fragment(NoName, Id(order[i]), i, truth[order[i]], TRUE)]
  BY <1>1 DEF MessageOf
<1> HIDE DEF order, N
<1>4a. ASSUME NEW i \in 1 .. N
       PROVE  /\ fs[i] \in Frag /\ fs[i].backend = NoName /\ fs[i].id = Id(order[i])
              /\ fs[i].args = truth[order[i]] /\ fs[i].replace
  <2> DEFINE n == order[i]
             f == fs[i]
             t == truth[n]
  <2>1. n \in Names /\ i \in Nat /\ t \in Args /\ f = Fragment(NoName, Id(n), i, t, TRUE)
    BY <1>1, <1>3 DEF AllArgs
  <2> HIDE DEF n, f, t
  <2>2. Id(n) \in Ident
    BY <2>1, Idents
  <2>3. f \in Frag /\ f.backend = NoName /\ f.id = Id(n) /\ f.args = t /\ f.replace
    BY <2>1, <2>2 DEF Fragment, Frag
  <2> QED BY <2>3 DEF n, f, t
<1>4. Len(fs) = N /\ Len(fs) \in Nat
  <2>1. DOMAIN fs = 1 .. N
    BY <1>3
  <2>2. fs = [i \in 1 .. N |-> fs[i]]
    BY <1>3
  <2> DEFINE gs == fs
  <2>3. gs = [i \in 1 .. N |-> gs[i]] /\ \A i \in 1 .. N : gs[i] \in Frag
    BY <1>4a, <2>2
  <2> HIDE DEF gs
  <2>4. gs \in Seq(Frag)
    BY <1>1, <2>3, IsASeq
  <2>5. Len(gs) \in Nat /\ DOMAIN gs = 1 .. Len(gs)
    BY <2>4, LenProperties
  <2> QED BY <1>1, <2>1, <2>5 DEF gs
<1>5. \A n \in Names : Len(truth[n]) \in Nat /\ sent[n] \in Nat
  BY LenProperties DEF Args, AllArgs
<1>6. PICK after : IngestRun(after, agg, fs, message)
  BY <1>4, IngestSteps
<1>7. /\ after[0] = [agg |-> agg, deltas |-> <<>>]
      /\ \A i \in 1 .. N : after[i] = Apply(after[i - 1], fs[i], message)
      /\ Ingest(agg, fs, message) = after[N]
  BY <1>4, <1>6 DEF IngestRun
<1> DEFINE as == TextsOf(agg.calls)
           Good(r, told) == ChatOf(style, r.agg) /\ Tidings(agg, r, truth, told)
           S == {j \in Nat : j <= N => Good(after[j], SentBy(order, j, truth, sent))}
<1>8. 0 \in S
  <2>1. as \in Seq(Args)
    BY TextsAre DEF ChatOf, Chatted, Formed
  <2>2. Gets(as, <<>>, as)
    BY <2>1, GetsNone
  <2>3. after[0].agg = agg /\ after[0].deltas = <<>>
    BY <1>7
  <2>4. SentBy(order, 0, truth, sent) = sent
    <3>1. 1 .. 0 = {}
      OBVIOUS
    <3>2. SentBy(order, 0, truth, sent) = [n \in Names |-> sent[n]]
      BY <3>1 DEF SentBy
    <3> QED BY <3>2
  <2>5. <<>> \in Seq(Dlt)
    OBVIOUS
  <2> HIDE DEF as
  <2>6. Tidings(agg, after[0], truth, sent)
    BY <2>2, <2>3, <2>5 DEF Tidings, as
  <2>7. Good(after[0], SentBy(order, 0, truth, sent))
    BY <2>3, <2>4, <2>6
  <2> QED BY <2>7
<1>9. ASSUME NEW i \in Nat, i \in S PROVE i + 1 \in S
  <2> SUFFICES ASSUME i + 1 <= N PROVE Good(after[i + 1], SentBy(order, i + 1, truth, sent))
    OBVIOUS
  <2> DEFINE j == i + 1
             told == SentBy(order, i, truth, sent)
             n == order[j]
             r == after[i]
             f == fs[j]
             t == truth[n]
  <2>1. j \in 1 .. N /\ i <= N /\ j \in Nat /\ j - 1 = i
    BY <1>1
  <2>2. Good(r, told)
    BY <1>9, <2>1
  <2>3. after[j] = Apply(r, f, message)
    BY <1>7, <2>1
  <2>4. /\ n \in named /\ n \in Names
        /\ f \in Frag /\ f.backend = NoName /\ f.id = Id(n) /\ f.args = t /\ f.replace
    BY <1>1, <1>4a, <2>1
  <2>5. told \in [Names -> Nat] /\ \A m \in Names : told[m] \in {sent[m], Len(truth[m])}
    BY <1>5 DEF SentBy
  <2>5a. told[n] \in {0, Len(t)}
    BY <1>5, <2>4, <2>5 DEF HasAll
  <2>6. told[n] \in {0, Len(t)} /\ t \in Args /\ Len(t) \in Nat
    BY <1>5, <2>4, <2>5, <2>5a DEF AllArgs
  <2>7. SentBy(order, j, truth, sent) = [told EXCEPT ![n] = Len(t)]
    <3>1. \A m \in Names : (\E l \in 1 .. j : order[l] = m) <=> (\E l \in 1 .. i : order[l] = m) \/ m = n
      <4>1. 1 .. j = (1 .. i) \cup {j}
        OBVIOUS
      <4> HIDE DEF j
      <4> QED BY <4>1
    <3>2. SentBy(order, j, truth, sent)
            = [m \in Names |-> IF \E l \in 1 .. j : order[l] = m THEN Len(truth[m]) ELSE sent[m]]
      BY DEF SentBy
    <3>3. told = [m \in Names |-> IF \E l \in 1 .. i : order[l] = m THEN Len(truth[m]) ELSE sent[m]]
      BY DEF SentBy
    <3>4. [told EXCEPT ![n] = Len(t)] = [m \in Names |-> IF m = n THEN Len(t) ELSE told[m]]
      BY <2>5
    <3> HIDE DEF j, n, told
    <3>5. ASSUME NEW m \in Names
          PROVE  (IF \E l \in 1 .. j : order[l] = m THEN Len(truth[m]) ELSE sent[m])
                   = (IF m = n THEN Len(t) ELSE told[m])
      BY <3>1, <3>3
    <3> QED BY <3>2, <3>4, <3>5
  <2> HIDE DEF j, told, n, r, f, t, Good
  <2>8. ChatOf(style, r.agg) /\ Settled(r.agg) /\ r.deltas \in Seq(Dlt) /\ Gets(as, r.deltas, TextsOf(r.agg.calls))
        /\ Hears(r.agg, truth, told)
    BY <2>2 DEF Good, Tidings
  <2>9. f \in Frag /\ Fitting(style, f) /\ Speaks(r.agg, f, n, t, told[n], Len(t), message)
    <3>1. Formed(r.agg)
      BY <2>8 DEF ChatOf, Chatted
    <3> DEFINE s == told[n]
    <3>2. s \in {0, Len(t)}
      BY <2>6
    <3> HIDE DEF s
    <3>3. n \in Names /\ t \in Args /\ f \in Frag /\ f.backend = NoName /\ f.id = Id(n) /\ f.args = t /\ f.replace
      BY <2>1, <2>4, <2>6
    <3>4. OfMessage(r.agg, f, n, t, s, message)
      BY <3>1, <3>2, <3>3, MessageSpeaks
    <3> QED BY <3>4 DEF s, OfMessage
  <2>10. ChatOf(style, Apply(r, f, message).agg)
    BY <2>8, <2>9, ChatStep
  <2>11. /\ TextMoves(r, Apply(r, f, message), Resolve(r.agg, f), Heard(r.agg, f, Resolve(r.agg, f)))
         /\ Hears(Apply(r, f, message).agg, truth, [told EXCEPT ![n] = Len(t)])
         /\ Apply(r, f, message).deltas \in Seq(Dlt)
    <3> DEFINE e == Len(t)
    <3>1. e \in Nat /\ Speaks(r.agg, f, n, truth[n], told[n], e, message) /\ truth[n] \in Args
      BY <2>6, <2>9 DEF t
    <3> HIDE DEF e
    <3>2. /\ TextMoves(r, Apply(r, f, message), Resolve(r.agg, f), Heard(r.agg, f, Resolve(r.agg, f)))
          /\ Hears(Apply(r, f, message).agg, truth, [told EXCEPT ![n] = e])
          /\ Apply(r, f, message).deltas \in Seq(Dlt)
      BY <2>4, <2>5, <2>8, <2>9, <3>1, ChatFragment
    <3> QED BY <3>2 DEF e
  <2> DEFINE u == Apply(r, f, message)
  <2>12. Gets(as, u.deltas, TextsOf(u.agg.calls))
    <3> DEFINE k == Resolve(r.agg, f)
               call == Heard(r.agg, f, k)
    <3>1. TextMoves(r, u, k, call)
      BY <2>11
    <3> HIDE DEF as, k, call, u
    <3> QED BY <2>8, <3>1, TextGets
  <2>13. Settled(u.agg)
    BY <2>11 DEF TextMoves
  <2>14. Good(u, [told EXCEPT ![n] = Len(t)])
    BY <2>10, <2>11, <2>12, <2>13 DEF Good, Tidings
  <2> HIDE DEF u
  <2> QED BY <2>3, <2>7, <2>14 DEF j, u
<1> HIDE DEF S, Good
<1>10. N \in S
  BY <1>1, <1>8, <1>9, SetInduction
<1>11. Good(after[N], SentBy(order, N, truth, sent))
  BY <1>1, <1>10 DEF S
<1>12. SentBy(order, N, truth, sent) = end
  <2>1. ASSUME NEW n \in Names
        PROVE  (IF \E i \in 1 .. N : order[i] = n THEN Len(truth[n]) ELSE sent[n])
                 = (IF n \in named THEN Len(truth[n]) ELSE 0)
    <3>1. (\E i \in 1 .. N : order[i] = n) <=> n \in named
      BY <1>1, <1>2
    <3>2. n \notin named => sent[n] = 0
      BY <1>5 DEF HasAll
    <3> QED BY <3>1, <3>2
  <2> QED BY <2>1 DEF SentBy, SentIn
<1> HIDE DEF end
<1>13. Tidings(agg, after[N], truth, end)
  BY <1>11, <1>12 DEF Good
<1> QED BY <1>7, <1>13 DEF end

\* A part of a call's arguments, by the call's id or its index.
PartBy(agg, style, f, n, s) ==
  IF style = "items" THEN f.backend = Id(n) /\ f.id = NoName /\ f.index = 0
  ELSE /\ f.backend = NoName
       /\ f.id = (IF s = 0 THEN Id(n) ELSE NoName)
       /\ f.index = (IF s = 0 THEN Len(agg.calls) + 1 ELSE Alias(agg, Id(n)))

LEMMA PartSpeaks ==
  ASSUME NEW agg, Formed(agg), NEW style, NEW truth, NEW sent \in [Names -> Nat], Hears(agg, truth, sent),
         style # "items" => Placed(agg, truth, sent), NEW n \in Names, truth[n] \in Args,
         NEW e \in Nat, sent[n] < e, e <= Len(truth[n]),
         NEW f \in Frag, ~f.replace, f.args = SubSeq(truth[n], sent[n] + 1, e), PartBy(agg, style, f, n, sent[n]),
         Fresh(agg, n, SubSeq(truth[n], 1, sent[n]), f.args), NEW message \in BOOLEAN, ~message
  PROVE  Speaks(agg, f, n, truth[n], sent[n], e, message)
<1> DEFINE t == truth[n]
           s == sent[n]
           k == agg.alias[Id(n)]
<1>1. s \in Nat /\ t \in Args /\ Len(t) \in Nat /\ Id(n) \in Ids /\ Id(n) \in Ident /\ Id(n) # NoName
  BY Idents, NamesDiffer, LenProperties DEF Args
<1>2. s = 0 => Id(n) \notin DOMAIN agg.alias
  <2> SUFFICES ASSUME s = 0, Id(n) \in DOMAIN agg.alias PROVE FALSE
    OBVIOUS
  <2>1. t = <<>>
    BY DEF Hears, Knows
  <2>2. Len(t) = 0
    BY <2>1, EmptySeq
  <2> HIDE DEF t, s
  <2>3. 0 < e /\ e <= 0
    BY <2>2 DEF t, s
  <2> QED BY <2>3
<1>3. s # 0 => Id(n) \in DOMAIN agg.alias /\ k \in Nat /\ k # 0
  <2>1. s # 0 => Id(n) \in DOMAIN agg.alias
    BY DEF Hears
  <2>2. Id(n) \in DOMAIN agg.alias => k \in DOMAIN agg.calls
    BY DEF Formed
  <2>3. DOMAIN agg.calls = 1 .. Len(agg.calls) /\ Len(agg.calls) \in Nat
    BY FormedIs
  <2> HIDE DEF s, k
  <2> QED BY <2>1, <2>2, <2>3
<1>4. /\ ~f.replace /\ f.args = SubSeq(t, s + 1, e) /\ s < e /\ e <= Len(t) /\ s <= e
      /\ PartBy(agg, style, f, n, s) /\ Fresh(agg, n, SubSeq(t, 1, s), f.args)
  BY <1>1
<1>5. style # "items" /\ s # 0 => Index(k) \in DOMAIN agg.alias /\ agg.alias[Index(k)] = k
  <2>1. s < Len(t)
    BY <1>1, <1>4
  <2>2. s # 0 => 0 < s
    BY <1>1
  <2> QED BY <2>1, <2>2 DEF Placed
<1> HIDE DEF s, t, k
<1>6. CASE style = "items"
  <2>1. f.backend = Id(n) /\ f.id = NoName
    BY <1>4, <1>6 DEF PartBy
  <2>2. Resolve(agg, f) = IF Id(n) \in DOMAIN agg.alias THEN agg.alias[Id(n)] ELSE Len(agg.calls) + 1
    BY <1>1, <2>1, ResolveIs
  <2>3. Id(n) \in NamesOf(f)
    BY <1>1, <2>1 DEF NamesOf
  <2>4. Speaks(agg, f, n, t, s, e, message)
    BY <1>4, <2>1, <2>2, <2>3 DEF Speaks
  <2> QED BY <2>4 DEF s, t
<1>7. CASE style # "items" /\ s = 0
  <2>1. f.backend = NoName /\ f.id = Id(n)
    BY <1>4, <1>7 DEF PartBy
  <2>2. Resolve(agg, f) = IF Id(n) \in DOMAIN agg.alias THEN agg.alias[Id(n)] ELSE Len(agg.calls) + 1
    BY <1>1, <2>1, ResolveIs
  <2>3. Id(n) \in NamesOf(f)
    BY <1>1, <2>1 DEF NamesOf
  <2>4. Speaks(agg, f, n, t, s, e, message)
    BY <1>4, <2>1, <2>2, <2>3 DEF Speaks
  <2> QED BY <2>4 DEF s, t
<1>8. CASE style # "items" /\ s # 0
  <2>1. f.backend = NoName /\ f.id = NoName /\ f.index = k /\ f.index # 0
    BY <1>3, <1>4, <1>8 DEF PartBy, Alias, k
  <2>2. Resolve(agg, f) = k
    BY <1>5, <1>8, <2>1, ResolveIs
  <2>3. Id(n) \in DOMAIN agg.alias
    BY <1>3, <1>8
  <2>4. Speaks(agg, f, n, t, s, e, message)
    BY <1>4, <2>1, <2>2, <2>3 DEF Speaks, k
  <2> QED BY <2>4 DEF s, t
<1> QED BY <1>6, <1>7, <1>8

LEMMA PartPlaced ==
  ASSUME NEW agg, Formed(agg), NEW u, NEW truth, NEW sent \in [Names -> Nat], Hears(agg, truth, sent),
         Placed(agg, truth, sent), NEW n \in Names, truth[n] \in Args,
         NEW e \in Nat, sent[n] < e, e <= Len(truth[n]),
         NEW f \in Frag, NEW style, style # "items", PartBy(agg, style, f, n, sent[n]),
         u.alias = Known(agg.alias, f, Resolve(agg, f))
  PROVE  Placed(u, truth, [sent EXCEPT ![n] = e])
<1> DEFINE k == Resolve(agg, f)
           alias == agg.alias
           told == [sent EXCEPT ![n] = e]
<1>1. /\ Id(n) \in Ids /\ Id(n) \in Ident /\ Id(n) # NoName /\ sent[n] \in Nat
      /\ Len(agg.calls) \in Nat /\ DOMAIN agg.calls = 1 .. Len(agg.calls)
      /\ \A m \in Names : Id(m) \in DOMAIN alias => alias[Id(m)] \in 1 .. Len(agg.calls)
  BY Idents, NamesDiffer, FormedIs DEF Formed
<1>2. u.alias = [a \in DOMAIN alias \cup NamesOf(f) |-> IF a \in NamesOf(f) THEN k ELSE alias[a]]
  BY DEF Known
<1>3. \A m \in Names : told[m] = IF m = n THEN e ELSE sent[m]
  OBVIOUS
<1>4. CASE sent[n] = 0
  <2>1. f.backend = NoName /\ f.id = Id(n) /\ f.index = Len(agg.calls) + 1
    BY <1>4 DEF PartBy
  <2>2. Id(n) \notin DOMAIN alias
    <3> SUFFICES ASSUME Id(n) \in DOMAIN alias PROVE FALSE
      OBVIOUS
    <3>1. truth[n] = <<>>
      BY <1>4 DEF Hears, Knows
    <3>2. Len(truth[n]) = 0
      BY <3>1, EmptySeq
    <3> QED BY <1>4, <3>2
  <2>3. k = Len(agg.calls) + 1
    BY <1>1, <2>1, <2>2, ResolveIs
  <2>4. NamesOf(f) = {Id(n), Index(k)}
    BY <1>1, <2>1, <2>3 DEF NamesOf
  <2> HIDE DEF k, told, alias
  <2>5. ASSUME NEW m \in Names, 0 < told[m], told[m] < Len(truth[m])
        PROVE  Index(u.alias[Id(m)]) \in DOMAIN u.alias /\ u.alias[Index(u.alias[Id(m)])] = u.alias[Id(m)]
    <3>1. CASE m = n
      <4>1. u.alias[Id(m)] = k /\ Index(k) \in DOMAIN u.alias /\ u.alias[Index(k)] = k
        BY <1>2, <2>4, <3>1
      <4> QED BY <4>1
    <3>2. CASE m # n
      <4>1. 0 < sent[m] /\ sent[m] < Len(truth[m])
        BY <1>3, <2>5, <3>2
      <4>2. Id(m) \in DOMAIN alias
        BY <4>1 DEF Hears, alias
      <4> DEFINE j == alias[Id(m)]
      <4>3. j \in 1 .. Len(agg.calls) /\ Index(j) \in DOMAIN alias /\ alias[Index(j)] = j
        BY <1>1, <4>1, <4>2 DEF Placed, alias
      <4>4. Id(m) \notin NamesOf(f) /\ Index(j) \notin NamesOf(f)
        <5>1. j \in Nat /\ k \in Nat /\ j # k
          BY <1>1, <2>3, <4>3
        <5> HIDE DEF j
        <5> QED BY <2>4, <3>2, <5>1, NamesDiffer
      <4>5. u.alias[Id(m)] = j /\ Index(j) \in DOMAIN u.alias /\ u.alias[Index(j)] = j
        BY <1>2, <4>2, <4>3, <4>4
      <4> QED BY <4>5
    <3> QED BY <3>1, <3>2
  <2> QED BY <2>5 DEF Placed, told
<1>5. CASE sent[n] # 0
  <2> DEFINE j == alias[Id(n)]
  <2>1. Id(n) \in DOMAIN alias
    BY <1>5 DEF Hears
  <2>2. j \in Nat /\ j # 0
    BY <1>1, <2>1
  <2>3. Index(j) \in DOMAIN alias /\ alias[Index(j)] = j
    <3>1. 0 < sent[n] /\ sent[n] < Len(truth[n])
      <4>1. Len(truth[n]) \in Nat
        BY LenProperties DEF Args
      <4> QED BY <1>1, <1>5, <4>1
    <3> QED BY <3>1 DEF Placed
  <2>4. f.backend = NoName /\ f.id = NoName /\ f.index = j
    BY <1>5, <2>1 DEF PartBy, Alias
  <2>5. k = j
    BY <2>2, <2>3, <2>4, ResolveIs
  <2>6. NamesOf(f) = {Index(j)}
    BY <2>2, <2>4 DEF NamesOf
  <2> HIDE DEF j, k, told
  <2>7. DOMAIN u.alias = DOMAIN alias /\ \A a \in DOMAIN alias : u.alias[a] = alias[a]
    BY <1>2, <2>3, <2>5, <2>6
  <2>8. ASSUME NEW m \in Names, 0 < told[m], told[m] < Len(truth[m])
        PROVE  Index(u.alias[Id(m)]) \in DOMAIN u.alias /\ u.alias[Index(u.alias[Id(m)])] = u.alias[Id(m)]
    <3>1. CASE m = n
      BY <2>1, <2>3, <2>7, <3>1 DEF j
    <3>2. CASE m # n
      <4>1. 0 < sent[m] /\ sent[m] < Len(truth[m])
        BY <1>3, <2>8, <3>2
      <4>2. Id(m) \in DOMAIN alias
        BY <4>1 DEF Hears
      <4>3. Index(alias[Id(m)]) \in DOMAIN alias /\ alias[Index(alias[Id(m)])] = alias[Id(m)]
        BY <4>1 DEF Placed
      <4> QED BY <2>7, <4>2, <4>3
    <3> QED BY <3>1, <3>2
  <2> QED BY <2>8 DEF Placed, told
<1> QED BY <1>4, <1>5

\* All of a call's arguments again.
LEMMA DoneSpeaks ==
  ASSUME NEW agg, Formed(agg), NEW n \in Names, NEW t \in Args, NEW s \in Nat, s <= Len(t),
         NEW f \in Frag, f.backend = Id(n), f.id = NoName, f.replace, f.args = t,
         NEW message \in BOOLEAN, ~message
  PROVE  Speaks(agg, f, n, t, s, Len(t), message)
<1>1. Id(n) # NoName /\ Len(t) \in Nat
  BY Idents, NamesDiffer, LenProperties DEF Args
<1>2. Resolve(agg, f) = IF Id(n) \in DOMAIN agg.alias THEN agg.alias[Id(n)] ELSE Len(agg.calls) + 1
  BY <1>1, ResolveIs
<1>3. Id(n) \in NamesOf(f)
  BY <1>1 DEF NamesOf
<1> QED BY <1>1, <1>2, <1>3 DEF Speaks

-----------------------------------------------------------------------------
(* The arguments in the adapter.                                            *)

\* The adapter has taken in a delta: the fragment it is.
Sends(f, d) ==
  f.backend = NoName /\ f.id = d.id /\ f.index = d.index /\ f.args = d.args /\ ~f.replace

\* Its aggregator has the arguments bs, and what it has passed on leads there.
Relays(as, r, bs) ==
  /\ Settled(r.agg) /\ Whole(r.agg) /\ r.deltas \in Seq(Dlt)
  /\ TextsOf(r.agg.calls) = bs /\ Gets(as, r.deltas, bs)

LEMMA SameBegins ==
  ASSUME NEW a \in Args
  PROVE  IsPrefix(a, a)
<1>1. Len(a) \in Nat /\ SubSeq(a, 1, Len(a)) = a
  BY LenProperties DEF Args
<1> QED BY <1>1 DEF IsPrefix

\* The call of a delta in the adapter's aggregator.
LEMMA MirrorResolves ==
  ASSUME NEW agg, NEW ids \in Seq(Ident), Mirrors(agg, ids), NEW d \in Dlt, Fits(ids, d),
         NEW f \in Frag, Sends(f, d)
  PROVE  /\ Resolve(agg, f) = d.index /\ d.index \in 1 .. Len(ids) + 1 /\ Len(agg.calls) = Len(ids)
         /\ d.index \notin DOMAIN agg.calls => f.id # NoName
<1>1. /\ Formed(agg) /\ IdsOf(agg.calls) = ids /\ DOMAIN ids = 1 .. Len(ids) /\ Len(ids) \in Nat
      /\ DOMAIN agg.alias = UNION {{ids[i], Index(i)} : i \in DOMAIN ids}
      /\ \A i \in DOMAIN ids : agg.alias[ids[i]] = i /\ agg.alias[Index(i)] = i
  BY LenProperties DEF Mirrors
<1>2. Len(agg.calls) = Len(ids) /\ DOMAIN agg.calls = 1 .. Len(ids)
  BY <1>1, FormedIs, IdsAre DEF Formed
<1>3. f.backend = NoName /\ f.id = d.id /\ f.index = d.index
  BY DEF Sends
<1>4. CASE d.id = NoName /\ d.index \in 1 .. Len(ids)
  <2>1. Index(d.index) \in DOMAIN agg.alias /\ agg.alias[Index(d.index)] = d.index /\ d.index # 0
    BY <1>1, <1>4
  <2> QED BY <1>1, <1>2, <1>3, <1>4, <2>1, ResolveIs
<1>5. CASE d.id \in Ident /\ (\A i \in DOMAIN ids : ids[i] # d.id) /\ d.index = Len(ids) + 1
  <2>1. d.id # NoName
    BY <1>5, NamesDiffer, Idents
  <2>2. ASSUME NEW i \in DOMAIN ids PROVE d.id # ids[i] /\ d.id # Index(i)
    <3>1. i \in Nat
      BY <1>1
    <3> QED BY <1>5, <3>1, Idents
  <2>3. d.id \notin DOMAIN agg.alias
    BY <1>1, <2>2
  <2>4. Resolve(agg, f) = Len(agg.calls) + 1
    BY <1>1, <1>3, <2>1, <2>3, ResolveIs
  <2> QED BY <1>1, <1>2, <1>3, <1>5, <2>1, <2>4
<1> QED BY <1>4, <1>5 DEF Fits

LEMMA RelayStep ==
  ASSUME NEW r, NEW ids \in Seq(Ident), Mirrors(r.agg, ids), NEW d \in Dlt, Fits(ids, d),
         NEW as, NEW bs, NEW cs, Relays(as, r, bs), Gives(bs, d, cs),
         NEW f \in Frag, Sends(f, d), NEW no \in BOOLEAN, ~no
  PROVE  Relays(as, Apply(r, f, no), cs)
<1> DEFINE k == Resolve(r.agg, f)
           old == OldCall(r.agg, f, k)
           call == Heard(r.agg, f, k)
           s == Apply(r, f, no)
<1>1. /\ k = d.index /\ k \in 1 .. Len(r.agg.calls) + 1
      /\ k \notin DOMAIN r.agg.calls => f.id # NoName
  BY MirrorResolves
<1>2. /\ Formed(r.agg) /\ r.agg.calls \in Seq(Call) /\ Settled(r.agg) /\ Whole(r.agg) /\ r.deltas \in Seq(Dlt)
      /\ TextsOf(r.agg.calls) = bs /\ Gets(as, r.deltas, bs)
      /\ Len(r.agg.calls) \in Nat /\ DOMAIN r.agg.calls = 1 .. Len(r.agg.calls)
  BY FormedIs DEF Relays, Mirrors, Formed
<1>3. f.backend = NoName /\ f.id = d.id /\ f.args = d.args /\ ~f.replace
  BY DEF Sends
<1>4. /\ old \in Call /\ old.args = TextAt(bs, k) /\ old.last \in {NoArgs, old.args}
      /\ f.id \in {NoName, old.id}
  <2>1. /\ DOMAIN bs = DOMAIN r.agg.calls
        /\ \A i \in DOMAIN r.agg.calls : bs[i] = r.agg.calls[i].args
    BY <1>2 DEF TextsOf
  <2>2. CASE k \in DOMAIN r.agg.calls
    <3>1. old \in Call /\ old = r.agg.calls[k]
      BY <1>1, <1>2, <2>2, OldCallIs
    <3>2. f.id = NoName
      <4>1. d.index # Len(ids) + 1
        BY <1>1, <1>2, <2>2, MirrorResolves
      <4> QED BY <1>3, <4>1 DEF Fits
    <3> QED BY <1>2, <2>1, <2>2, <3>1, <3>2 DEF TextAt, Whole
  <2>3. CASE k \notin DOMAIN r.agg.calls
    <3>1. old \in Call /\ old = NewCall(f.id)
      BY <1>1, <1>2, <2>3, OldCallIs
    <3> QED BY <2>1, <2>3, <3>1 DEF TextAt, NewCall
  <2> QED BY <2>2, <2>3
<1>5. /\ f.args # NoArgs => IsPrefix(old.args, f.args) /\ f.args # old.args
      /\ cs = Put(bs, k, IF f.args = NoArgs THEN old.args ELSE f.args)
  BY <1>1, <1>3, <1>4 DEF Gives
<1> HIDE DEF k, old
<1>6. /\ call.args = IF f.args = NoArgs THEN old.args ELSE f.args
      /\ call.last \in {NoArgs, call.args}
  <2>1. /\ AppendArgument(old, f).args = IF f.args = NoArgs THEN old.args ELSE f.args
        /\ AppendArgument(old, f).last \in {NoArgs, AppendArgument(old, f).args}
    BY <1>3, <1>4, <1>5, LongerPart
  <2> QED BY <2>1 DEF Heard, old
<1>7. IsPrefix(old.args, call.args)
  BY <1>4, <1>5, <1>6, SameBegins DEF Call
<1>8. TextMoves(r, s, k, call)
  <2>1. no \in BOOLEAN /\ ~(no /\ k \in DOMAIN r.agg.calls)
    OBVIOUS
  <2> QED BY <1>2, <1>3, <1>4, <1>7, <2>1, TextStep DEF k, old
<1>9. Formed(s.agg) /\ s.deltas \in Seq(Dlt)
  BY <1>2, <1>3, <1>4, StepIs DEF k, old
<1> HIDE DEF s, call
<1>10. TextsOf(s.agg.calls) = cs
  BY <1>2, <1>5, <1>6, <1>8 DEF TextMoves
<1>11. Gets(as, s.deltas, cs)
  <2>1. Gets(as, r.deltas, TextsOf(r.agg.calls)) /\ r.deltas \in Seq(Dlt)
    BY <1>2
  <2>2. Gets(as, s.deltas, TextsOf(s.agg.calls))
    BY <1>8, <2>1, TextGets
  <2> QED BY <1>10, <2>2
<1>12. ASSUME NEW i \in DOMAIN s.agg.calls
       PROVE  s.agg.calls[i].last \in {NoArgs, s.agg.calls[i].args}
  <2>1. CASE i = k
    BY <1>6, <1>8, <2>1 DEF TextMoves
  <2>2. CASE i # k
    <3>1. bs \in Seq(Args) /\ Len(bs) = Len(r.agg.calls)
      BY <1>2, TextsAre
    <3>2. call.args \in Args
      BY <1>3, <1>4, <1>6 DEF Call, Frag
    <3>3. DOMAIN s.agg.calls = DOMAIN Put(bs, k, call.args)
      BY <1>2, <1>8 DEF TextMoves, TextsOf
    <3>4. i \in DOMAIN r.agg.calls
      BY <1>1, <1>2, <2>2, <3>1, <3>3 DEF Put
    <3> QED BY <1>2, <1>8, <2>2, <3>4 DEF TextMoves, Whole
  <2> QED BY <2>1, <2>2
<1>13. Relays(as, s, cs)
  BY <1>8, <1>9, <1>10, <1>11, <1>12 DEF Relays, TextMoves, Whole
<1> QED BY <1>13 DEF s

LEMMA MirrorStep ==
  ASSUME NEW r, NEW p \in Seq(Ident), Mirrors(r.agg, p), r.deltas \in Seq(Dlt), NEW d \in Dlt, Fits(p, d)
  PROVE  Mirrors(Apply(r, AsFragment(d), FALSE).agg, With(p, d))
<1>1. NoName \notin Ident
  BY NamesDiffer, Idents
<1>2. CASE d.id = NoName /\ d.index \in 1 .. Len(p)
  <2>1. With(p, d) = p
    BY <1>2 DEF With
  <2> QED BY <1>2, <2>1, MirrorsOld
<1>3. CASE d.id \in Ident /\ (\A k \in DOMAIN p : p[k] # d.id) /\ d.index = Len(p) + 1
  <2>1. With(p, d) = Append(p, d.id)
    BY <1>1, <1>3 DEF With
  <2> QED BY <1>3, <2>1, MirrorsNew
<1> QED BY <1>2, <1>3 DEF Fits

\* What the chat handler passes on of the arguments, the adapter does.
LEMMA AdapterRelays ==
  ASSUME NEW agg, NEW ids0, NEW ids \in Seq(Ident), Distinct(ids), Mirrors(agg, ids0),
         NEW ds \in Seq(Dlt), LeadsTo(ids0, ds, ids), Settled(agg), Whole(agg),
         NEW as, as = TextsOf(agg.calls), NEW bs, Gets(as, ds, bs)
  PROVE  Relays(as, Ingest(agg, AsFragments(ds), FALSE), bs)
<1> DEFINE n == Len(ds)
<1>1. n \in Nat /\ DOMAIN ds = 1 .. n /\ \A j \in 1 .. n : ds[j] \in Dlt
  BY LenProperties, ElementOfSeq
<1>2. PICK fs, no : fs = AsFragments(ds) /\ no = FALSE
  OBVIOUS
<1>2a. Len(fs) = n /\ \A j \in 1 .. n : fs[j] = AsFragment(ds[j])
  <2>1. fs = [j \in 1 .. n |-> AsFragment(ds[j])]
    BY <1>1, <1>2 DEF AsFragments, AsFragment
  <2>2. fs \in Seq(Frag)
    BY <1>1, <2>1, AsFragmentIs
  <2> QED BY <1>1, <2>1, <2>2
<1>2b. Len(fs) \in Nat
  BY <1>1, <1>2a
<1>2c. PICK after : IngestRun(after, agg, fs, no)
  BY <1>2b, IngestSteps
<1>3. /\ after[0] = [agg |-> agg, deltas |-> <<>>]
      /\ \A i \in 1 .. Len(fs) : after[i] = Apply(after[i - 1], fs[i], no)
      /\ Ingest(agg, fs, no) = after[Len(fs)]
  BY <1>2c DEF IngestRun
<1>4. PICK m : Passes(m, ds, ids) /\ ids0 = SubSeq(ids, 1, m[0])
  BY DEF LeadsTo
<1>4a. PICK t : Gained(t, ds, as, bs)
  BY DEF Gets
<1> DEFINE Pre(j) == SubSeq(ids, 1, m[j])
           Good(r, p, x) == Mirrors(r.agg, p) /\ Relays(as, r, x)
           S == {j \in Nat : j <= n => Good(after[j], Pre(j), t[j])}
<1>5. 0 \in S
  <2>1. as \in Seq(Args)
    BY TextsAre DEF Mirrors, Formed
  <2>2. Gets(as, <<>>, as)
    BY <2>1, GetsNone
  <2>3. after[0].agg = agg /\ after[0].deltas = <<>> /\ Pre(0) = ids0 /\ t[0] = as /\ <<>> \in Seq(Dlt)
    BY <1>3, <1>4, <1>4a DEF Gained
  <2> HIDE DEF Pre
  <2>4. Good(after[0], Pre(0), t[0])
    BY <2>2, <2>3 DEF Relays
  <2> QED BY <2>4
<1>6. ASSUME NEW i \in Nat, i \in S PROVE i + 1 \in S
  <2> SUFFICES ASSUME i + 1 <= n PROVE Good(after[i + 1], Pre(i + 1), t[i + 1])
    OBVIOUS
  <2> DEFINE j == i + 1
             p == Pre(i)
             q == Pre(j)
             d == ds[j]
             r == after[i]
             x == t[i]
             y == t[j]
             f == AsFragment(d)
  <2>1. j \in 1 .. n /\ i <= n /\ j - 1 = i
    BY <1>1
  <2>2. Good(r, p, x)
    BY <1>6, <2>1
  <2>3. after[j] = Apply(r, f, no)
    BY <1>2a, <1>3, <2>1
  <2>4. d \in Dlt /\ p \in Seq(Ident) /\ Fits(p, d) /\ q = With(p, d)
    BY <1>4, PassesNext
  <2>5. Gives(x, d, y)
    BY <1>4a, <2>1 DEF Gained
  <2> HIDE DEF j, p, q, d, r, x, y, Good, Pre
  <2>6. Mirrors(r.agg, p) /\ r.deltas \in Seq(Dlt) /\ Relays(as, r, x)
    BY <2>2 DEF Good, Relays
  <2>7. f \in Frag /\ Sends(f, d)
    BY <2>4, AsFragmentIs DEF AsFragment, Fragment, Sends
  <2>8. Mirrors(Apply(r, f, no).agg, q)
    BY <1>2, <2>4, <2>6, MirrorStep
  <2> HIDE DEF f
  <2>9. Relays(as, Apply(r, f, no), y)
    <3>1. no \in BOOLEAN /\ ~no
      BY <1>2
    <3> QED BY <2>4, <2>5, <2>6, <2>7, <3>1, RelayStep
  <2>10. Good(Apply(r, f, no), q, y)
    BY <2>8, <2>9 DEF Good
  <2> QED BY <2>3, <2>10 DEF j, q, y
<1> HIDE DEF S, Good
<1>7. n \in S
  BY <1>1, <1>5, <1>6, SetInduction
<1>8. Good(after[n], Pre(n), t[n])
  BY <1>1, <1>7 DEF S
<1>9. t[n] = bs
  BY <1>4a DEF Gained
<1> QED BY <1>2, <1>2a, <1>3, <1>8, <1>9 DEF Good

-----------------------------------------------------------------------------
(* The arguments of an item, event by event.                                *)

\* The spelling of a sequence of events.
SpellsBy(g, z, id, n) ==
  g = [i \in 0 .. n |-> IF i = 0 THEN <<>> ELSE g[i - 1] \o Part(z[i], id)]

SpellRun(after, z, id, k) ==
  /\ after[0] = <<>>
  /\ \A i \in 1 .. k : after[i] = after[i - 1] \o Part(z[i], id)
  /\ Spell(z, k, id) = after[k]

LEMMA SpellSteps ==
  ASSUME NEW z, NEW id, NEW k, k \in Nat
  PROVE  \E after : SpellRun(after, z, id, k)
<1> DEFINE n == k
           S == {m \in Nat : \E g : SpellsBy(g, z, id, m)}
<1>1. 0 \in S
  <2> DEFINE g == [i \in 0 .. 0 |-> <<>>]
  <2>1. SpellsBy(g, z, id, 0)
    BY DEF SpellsBy
  <2> QED BY <2>1
<1>2. ASSUME NEW m \in Nat, m \in S PROVE m + 1 \in S
  <2>1. PICK g : SpellsBy(g, z, id, m)
    BY <1>2
  <2>1a. PICK c : c = g[m] \o Part(z[m + 1], id)
    OBVIOUS
  <2> DEFINE h == [i \in 0 .. m + 1 |-> IF i <= m THEN g[i] ELSE c]
  <2>2. \A i \in 0 .. m : g[i] = IF i = 0 THEN <<>> ELSE g[i - 1] \o Part(z[i], id)
    BY <2>1 DEF SpellsBy
  <2>3. (\A i \in 0 .. m : h[i] = g[i]) /\ h[m + 1] = g[m] \o Part(z[m + 1], id)
    <3>1. (\A i \in 0 .. m : h[i] = g[i]) /\ h[m + 1] = c
      OBVIOUS
    <3> QED BY <2>1a, <3>1
  <2>4. h = [i \in 0 .. m + 1 |-> h[i]]
    OBVIOUS
  <2> HIDE DEF h
  <2>5. ASSUME NEW i \in 0 .. m + 1
        PROVE h[i] = IF i = 0 THEN <<>> ELSE h[i - 1] \o Part(z[i], id)
    <3>1. CASE i = 0
      BY <2>2, <2>3, <3>1
    <3>2. CASE i \in 1 .. m
      <4>1. i \in 0 .. m /\ i - 1 \in 0 .. m /\ i # 0
        BY <3>2
      <4> QED BY <2>2, <2>3, <4>1
    <3>3. CASE i = m + 1
      <4>1. m \in 0 .. m /\ i # 0 /\ i - 1 = m
        BY <3>3
      <4> QED BY <2>3, <3>3, <4>1
    <3> QED BY <3>1, <3>2, <3>3
  <2>6. [i \in 0 .. m + 1 |-> h[i]] = [i \in 0 .. m + 1 |-> IF i = 0 THEN <<>> ELSE h[i - 1] \o Part(z[i], id)]
    BY <2>5
  <2>7. SpellsBy(h, z, id, m + 1)
    BY <2>4, <2>6 DEF SpellsBy
  <2> QED BY <2>7
<1> HIDE DEF S
<1>3. \E g : SpellsBy(g, z, id, n)
  BY <1>1, <1>2, SetInduction DEF S
<1> DEFINE after == CHOOSE g : SpellsBy(g, z, id, n)
<1>4. SpellsBy(after, z, id, n)
  BY <1>3
<1>5. Spell(z, k, id) = after[n]
  BY DEF Spell, SpellsBy
<1> HIDE DEF after
<1>6. \A i \in 0 .. n : after[i] = IF i = 0 THEN <<>> ELSE after[i - 1] \o Part(z[i], id)
  BY <1>4 DEF SpellsBy
<1>7. after[0] = <<>>
  BY <1>6
<1>8. ASSUME NEW i \in 1 .. n PROVE after[i] = after[i - 1] \o Part(z[i], id)
  <2>1. i \in 0 .. n /\ i # 0
    OBVIOUS
  <2> HIDE DEF n
  <2> QED BY <1>6, <2>1
<1> QED BY <1>5, <1>7, <1>8 DEF SpellRun

\* Two of them, as long as the events are the same.
LEMMA SpellsAlike ==
  ASSUME NEW y, NEW z, NEW id, NEW k \in Nat, NEW n \in Nat, k <= n, NEW a, NEW b,
         SpellRun(a, y, id, k), SpellRun(b, z, id, n), \A i \in 1 .. k : y[i] = z[i]
  PROVE  a[k] = b[k]
<1> DEFINE S == {i \in Nat : i <= k => a[i] = b[i]}
<1>1. 0 \in S
  BY DEF SpellRun
<1>2. ASSUME NEW i \in Nat, i \in S PROVE i + 1 \in S
  <2> SUFFICES ASSUME i + 1 <= k PROVE a[i + 1] = b[i + 1]
    OBVIOUS
  <2> DEFINE j == i + 1
  <2>1. j \in 1 .. k /\ j \in 1 .. n /\ j - 1 = i /\ i <= k
    OBVIOUS
  <2> HIDE DEF j
  <2>2. a[j] = a[i] \o Part(y[j], id) /\ b[j] = b[i] \o Part(z[j], id)
    BY <2>1 DEF SpellRun
  <2>3. a[j] = b[j]
    BY <1>2, <2>1, <2>2
  <2> QED BY <2>3 DEF j
<1> HIDE DEF S
<1>3. k \in S
  BY <1>1, <1>2, SetInduction
<1> QED BY <1>3 DEF S

LEMMA SpellSame ==
  ASSUME NEW y, NEW z, NEW id, NEW k \in Nat, \A i \in 1 .. k : y[i] = z[i]
  PROVE  Spell(y, k, id) = Spell(z, k, id)
<1>1. PICK a : SpellRun(a, y, id, k)
  BY SpellSteps
<1>2. PICK b : SpellRun(b, z, id, k)
  BY SpellSteps
<1>3. a[k] = b[k]
  BY <1>1, <1>2, SpellsAlike
<1> QED BY <1>1, <1>2, <1>3 DEF SpellRun

LEMMA SpellNone ==
  ASSUME NEW z, NEW id
  PROVE  Spell(z, 0, id) = <<>>
<1>1. PICK a : SpellRun(a, z, id, 0)
  BY SpellSteps
<1> QED BY <1>1 DEF SpellRun

LEMMA SpellNext ==
  ASSUME NEW z, NEW id, NEW k \in Nat, NEW n, n = k + 1
  PROVE  Spell(z, n, id) = Spell(z, k, id) \o Part(z[n], id)
<1>0. n \in Nat /\ n \in 1 .. n /\ n - 1 = k /\ k <= n
  OBVIOUS
<1>1. PICK a : SpellRun(a, z, id, k)
  BY SpellSteps
<1>2. PICK b : SpellRun(b, z, id, n)
  BY <1>0, SpellSteps
<1>3. a[k] = b[k]
  <2>1. \A i \in 1 .. k : z[i] = z[i]
    OBVIOUS
  <2> QED BY <1>0, <1>1, <1>2, <2>1, SpellsAlike
<1>4. b[n] = b[k] \o Part(z[n], id)
  BY <1>0, <1>2 DEF SpellRun
<1> QED BY <1>1, <1>2, <1>3, <1>4 DEF SpellRun

LEMMA PartsAre ==
  ASSUME NEW e \in Ev, NEW id
  PROVE  Part(e, id) \in Args
BY ArgsAreNot DEF Part, Ev

LEMMA SpellIs ==
  ASSUME NEW z \in Seq(Ev), NEW id, NEW k \in 0 .. Len(z)
  PROVE  Spell(z, k, id) \in Args
<1> DEFINE S == {i \in Nat : i <= Len(z) => Spell(z, i, id) \in Args}
<1>0. Len(z) \in Nat
  BY LenProperties
<1>1. 0 \in S
  <2>1. Spell(z, 0, id) = <<>>
    BY SpellNone
  <2> QED BY <2>1, ArgsAreNot
<1>2. ASSUME NEW i \in Nat, i \in S PROVE i + 1 \in S
  <2> SUFFICES ASSUME i + 1 <= Len(z) PROVE Spell(z, i + 1, id) \in Args
    OBVIOUS
  <2> DEFINE j == i + 1
  <2>1. j \in 1 .. Len(z) /\ i <= Len(z) /\ j = i + 1
    BY <1>0
  <2> HIDE DEF j
  <2>2. Spell(z, j, id) = Spell(z, i, id) \o Part(z[j], id)
    BY <2>1, SpellNext
  <2>3. Spell(z, i, id) \in Args
    BY <1>2, <2>1
  <2>4. Part(z[j], id) \in Args
    BY <2>1, ElementOfSeq, PartsAre
  <2>5. Spell(z, j, id) \in Args
    BY <2>2, <2>3, <2>4 DEF Args
  <2> QED BY <2>5 DEF j
<1> HIDE DEF S
<1>3. k \in S
  BY <1>0, <1>1, <1>2, SetInduction
<1> QED BY <1>0, <1>3 DEF S

\* Events that have no arguments of the item.
LEMMA SpellRests ==
  ASSUME NEW z \in Seq(Ev), NEW id, NEW k \in 0 .. Len(z), NEW n \in k .. Len(z),
         \A i \in k + 1 .. n : Part(z[i], id) = <<>>
  PROVE  Spell(z, n, id) = Spell(z, k, id)
<1> DEFINE S == {i \in Nat : k + i <= n => Spell(z, k + i, id) = Spell(z, k, id)}
<1>0. Len(z) \in Nat /\ k \in Nat /\ n \in Nat /\ n - k \in Nat
  BY LenProperties
<1>1. 0 \in S
  BY <1>0
<1>2. ASSUME NEW i \in Nat, i \in S PROVE i + 1 \in S
  <2> SUFFICES ASSUME k + (i + 1) <= n PROVE Spell(z, k + (i + 1), id) = Spell(z, k, id)
    OBVIOUS
  <2> DEFINE l == k + i
             j == k + (i + 1)
  <2>1. j \in k + 1 .. n /\ l \in Nat /\ j = l + 1 /\ l <= n /\ l \in 0 .. Len(z)
    BY <1>0
  <2>1a. Spell(z, l, id) = Spell(z, k, id)
    BY <1>2, <2>1
  <2> HIDE DEF j, l
  <2>2. Spell(z, j, id) = Spell(z, l, id) \o Part(z[j], id)
    BY <2>1, SpellNext
  <2>3. Spell(z, l, id) \in Args /\ Part(z[j], id) = <<>>
    BY <2>1, SpellIs
  <2>4. Spell(z, j, id) = Spell(z, l, id)
    BY <2>2, <2>3, ConcatEmptySeq DEF Args
  <2> QED BY <2>1a, <2>4 DEF j
<1> HIDE DEF S
<1>3. n - k \in S
  BY <1>0, <1>1, <1>2, SetInduction
<1>4. k + (n - k) = n
  BY <1>0
<1> QED BY <1>3, <1>4 DEF S

-----------------------------------------------------------------------------
(* Events whose arguments add up.                                           *)

\* What an event makes of the arguments: each item's are behind it what they
\* were and the event's part, and the end of an item has them all.
LeadsUp(z, e, jds, uexts) ==
  /\ \A k \in DOMAIN jds : Spell(z, Len(z), jds[k]) \o Part(e, jds[k]) = uexts[k]
  /\ e.kind = "args" \/ Ended(e) =>
       \E k \in DOMAIN jds : jds[k] = e.id /\ (Ended(e) => e.args = uexts[k])

\* No item has ended whose arguments change.
NoneEnded(z) == \A i \in DOMAIN z : ~Ended(z[i])

Extends(jds, ids) == \A k \in DOMAIN ids : k \in DOMAIN jds /\ jds[k] = ids[k]

LEMMA UpsOn ==
  ASSUME NEW z \in Seq(Ev), NEW ids, NEW jds, Distinct(jds), Extends(jds, ids), NEW texts, NEW uexts,
         AddsUp(z, ids, texts), NoneEnded(z), NEW e \in Ev, LeadsUp(z, e, jds, uexts)
  PROVE  AddsUp(Append(z, e), jds, uexts)
<1> DEFINE y == Append(z, e)
           n == Len(z)
           m == n + 1
<1>1. /\ y \in Seq(Ev) /\ Len(y) = m /\ n \in Nat /\ y[m] = e /\ DOMAIN y = 1 .. m /\ DOMAIN z = 1 .. n
      /\ m \in Nat /\ m = n + 1 /\ \A i \in 1 .. n : y[i] = z[i]
  BY Appended, LenProperties
<1> HIDE DEF y, n, m
<1>2. \A i \in 1 .. m : i \in 1 .. n \/ i = m
  BY <1>1
<1>3. ASSUME NEW i \in DOMAIN y, y[i].kind = "args" \/ Ended(y[i])
      PROVE  \E k \in DOMAIN jds : jds[k] = y[i].id
  <2>1. CASE i \in 1 .. n
    <3>1. PICK k \in DOMAIN ids : ids[k] = z[i].id
      BY <1>1, <1>3, <2>1 DEF AddsUp
    <3> QED BY <1>1, <2>1, <3>1 DEF Extends
  <2>2. CASE i = m
    BY <1>1, <1>3, <2>2 DEF LeadsUp
  <2> QED BY <1>1, <1>2, <2>1, <2>2
<1>4. ASSUME NEW k \in DOMAIN jds PROVE Spell(y, m, jds[k]) = uexts[k]
  <2>0. PICK x : x = jds[k]
    OBVIOUS
  <2>1. Spell(y, m, x) = Spell(y, n, x) \o Part(y[m], x)
    <3>1. n \in Nat /\ m = n + 1
      BY <1>1
    <3> QED BY <3>1, SpellNext
  <2>2. Spell(y, n, jds[k]) = Spell(z, n, jds[k])
    BY <1>1, SpellSame
  <2> QED BY <1>1, <2>0, <2>1, <2>2 DEF LeadsUp, n
<1>5. ASSUME NEW i \in DOMAIN y, NEW k \in DOMAIN jds, Ended(y[i]), y[i].id = jds[k]
      PROVE  y[i].args = uexts[k] /\ Spell(y, i, jds[k]) = uexts[k]
  <2>1. i = m
    BY <1>1, <1>2, <1>5 DEF NoneEnded
  <2>2. PICK l \in DOMAIN jds : jds[l] = e.id /\ e.args = uexts[l]
    BY <1>1, <1>5, <2>1 DEF LeadsUp
  <2>3. l = k
    BY <1>1, <1>5, <2>1, <2>2 DEF Distinct
  <2> QED BY <1>1, <1>4, <2>1, <2>2, <2>3
<1>6. AddsUp(y, jds, uexts)
  BY <1>1, <1>3, <1>4, <1>5 DEF AddsUp
<1> QED BY <1>6 DEF y

\* Events that bring no arguments, and the ends of items that have them all.
EndsWell(w, ids, texts) ==
  /\ w \in Seq(Ev)
  /\ \A i \in DOMAIN w : w[i].kind # "args"
                         /\ (Ended(w[i]) => \E k \in DOMAIN ids : ids[k] = w[i].id /\ w[i].args = texts[k])

LEMMA UpsEnd ==
  ASSUME NEW z \in Seq(Ev), NEW ids, Distinct(ids), NEW texts, AddsUp(z, ids, texts),
         NEW w, EndsWell(w, ids, texts)
  PROVE  AddsUp(z \o w, ids, texts)
<1> DEFINE y == z \o w
           n == Len(z)
           m == n + Len(w)
<1>0. w \in Seq(Ev)
  BY DEF EndsWell
<1>1. /\ y \in Seq(Ev) /\ Len(y) = m /\ n \in Nat /\ DOMAIN y = 1 .. m /\ DOMAIN z = 1 .. n
      /\ m \in Nat /\ n <= m /\ \A i \in 1 .. n : y[i] = z[i]
  BY <1>0, Joined, LenProperties
<1>2. ASSUME NEW i \in n + 1 .. m
      PROVE  /\ y[i].kind # "args"
             /\ Ended(y[i]) => \E k \in DOMAIN ids : ids[k] = y[i].id /\ y[i].args = texts[k]
  <2>1. y[i] = w[i - n] /\ i - n \in DOMAIN w
    BY <1>0, Joined, LenProperties
  <2> QED BY <2>1 DEF EndsWell
<1> HIDE DEF y, n, m
<1>3. \A i \in 1 .. m : i \in 1 .. n \/ i \in n + 1 .. m
  BY <1>1
<1>4. ASSUME NEW k \in DOMAIN ids, NEW i \in n .. m PROVE Spell(y, i, ids[k]) = texts[k]
  <2>1. \A j \in n + 1 .. i : Part(y[j], ids[k]) = <<>>
    <3>1. \A j \in n + 1 .. i : j \in n + 1 .. m
      BY <1>1
    <3> QED BY <1>2, <3>1 DEF Part
  <2>2. n \in 0 .. Len(y) /\ i \in n .. Len(y)
    BY <1>1
  <2>3. Spell(y, i, ids[k]) = Spell(y, n, ids[k])
    BY <1>1, <2>1, <2>2, SpellRests
  <2>4. Spell(y, n, ids[k]) = Spell(z, n, ids[k])
    BY <1>1, SpellSame
  <2> QED BY <2>3, <2>4 DEF AddsUp, n
<1>5. ASSUME NEW i \in DOMAIN y, y[i].kind = "args" \/ Ended(y[i])
      PROVE  \E k \in DOMAIN ids : ids[k] = y[i].id
  BY <1>1, <1>2, <1>3, <1>5 DEF AddsUp
<1>6. ASSUME NEW i \in DOMAIN y, NEW k \in DOMAIN ids, Ended(y[i]), y[i].id = ids[k]
      PROVE  y[i].args = texts[k] /\ Spell(y, i, ids[k]) = texts[k]
  <2>1. CASE i \in 1 .. n
    <3>1. z[i].args = texts[k] /\ Spell(z, i, ids[k]) = texts[k]
      BY <1>1, <1>6, <2>1 DEF AddsUp
    <3>2. Spell(y, i, ids[k]) = Spell(z, i, ids[k])
      <4>1. i \in Nat /\ \A j \in 1 .. i : j \in 1 .. n
        BY <1>1, <2>1
      <4> QED BY <1>1, <4>1, SpellSame
    <3> QED BY <1>1, <2>1, <3>1, <3>2
  <2>2. CASE i \in n + 1 .. m
    <3>1. PICK l \in DOMAIN ids : ids[l] = y[i].id /\ y[i].args = texts[l]
      BY <1>2, <1>6, <2>2
    <3>2. l = k
      BY <1>6, <3>1 DEF Distinct
    <3>3. i \in n .. m
      BY <1>1, <2>2
    <3> QED BY <1>4, <3>1, <3>2, <3>3
  <2> QED BY <1>1, <1>3, <2>1, <2>2
<1>7. m \in n .. m
  BY <1>1
<1>8. AddsUp(y, ids, texts)
  BY <1>1, <1>4, <1>5, <1>6, <1>7 DEF AddsUp
<1> QED BY <1>8 DEF y

LEMMA EndsJoin ==
  ASSUME NEW ids, NEW texts, NEW s, NEW t, EndsWell(s, ids, texts), EndsWell(t, ids, texts)
  PROVE  EndsWell(s \o t, ids, texts)
<1> DEFINE Good(e) == e.kind # "args"
                      /\ (Ended(e) => \E k \in DOMAIN ids : ids[k] = e.id /\ e.args = texts[k])
<1>0. /\ s \in Seq(Ev) /\ t \in Seq(Ev)
      /\ \A i \in DOMAIN s : Good(s[i])
      /\ \A i \in DOMAIN t : Good(t[i])
  BY DEF EndsWell
<1> HIDE DEF Good
<1>1. /\ s \o t \in Seq(Ev) /\ Len(s) \in Nat /\ Len(t) \in Nat /\ DOMAIN (s \o t) = 1 .. Len(s) + Len(t)
      /\ DOMAIN s = 1 .. Len(s) /\ DOMAIN t = 1 .. Len(t)
      /\ \A i \in 1 .. Len(s) : (s \o t)[i] = s[i]
      /\ \A i \in Len(s) + 1 .. Len(s) + Len(t) : (s \o t)[i] = t[i - Len(s)]
  BY <1>0, Joined, LenProperties
<1>2. ASSUME NEW i \in 1 .. Len(s) + Len(t) PROVE Good((s \o t)[i])
  <2>1. CASE i \in 1 .. Len(s)
    BY <1>0, <1>1, <2>1
  <2>2. CASE i \in Len(s) + 1 .. Len(s) + Len(t)
    <3>1. i - Len(s) \in 1 .. Len(t)
      BY <1>1, <2>2
    <3> QED BY <1>0, <1>1, <2>2, <3>1
  <2> QED BY <1>1, <2>1, <2>2
<1> QED BY <1>1, <1>2 DEF EndsWell, Good

\* Events of other kinds.
LEMMA EndsOther ==
  ASSUME NEW ids, NEW texts, NEW K, NEW w, OfKinds(w, K),
         "args" \notin K, "argsDone" \notin K, "itemDone" \notin K
  PROVE  EndsWell(w, ids, texts)
BY DEF OfKinds, EndsWell, Ended

\* The rest of the arguments completes them.
LEMMA RestAdds ==
  ASSUME NEW last \in Args, NEW args \in Args, IsPrefix(last, args), args # last
  PROVE  /\ Remainder(last, args) \in Args /\ Remainder(last, args) # <<>>
         /\ last \o Remainder(last, args) = args
<1> DEFINE m == Len(last)
           n == Len(args)
           rest == SubSeq(args, m + 1, n)
<1>1. m \in Nat /\ n \in Nat /\ m <= n /\ last = SubSeq(args, 1, m) /\ SubSeq(args, 1, n) = args
  BY LenProperties DEF IsPrefix, Args
<1>2. Remainder(last, args) = rest
  BY <1>1 DEF Remainder
<1>3. Splits(Tokens, args, m, n)
  <2>1. args \in Seq(Tokens)
    BY DEF Args
  <2> HIDE DEF m, n
  <2> QED BY <1>1, <2>1, PartIs
<1> HIDE DEF rest, m, n
<1>4. rest \in Args /\ last \o rest = args
  BY <1>1, <1>3 DEF Splits, rest, Args
<1>5. rest # <<>>
  <2>1. last \o <<>> = last
    BY ConcatEmptySeq DEF Args
  <2> QED BY <1>4, <2>1
<1> QED BY <1>2, <1>4, <1>5

\* An item that is added has no arguments.
LEMMA UpsAdded ==
  ASSUME NEW z \in Seq(Ev), NEW ids \in Seq(Ident), NEW texts \in Seq(Args), Len(texts) = Len(ids),
         AddsUp(z, ids, texts), NoneEnded(z), NEW x \in Ident, \A i \in DOMAIN ids : ids[i] # x,
         NEW jds, jds = Append(ids, x), Distinct(jds), NEW uexts, uexts = Append(texts, <<>>)
  PROVE  AddsUp(z \o <<Event("added", x, <<>>)>>, jds, uexts)
<1> DEFINE e == Event("added", x, <<>>)
           n == Len(ids)
<1>1. e \in Ev /\ e.kind = "added" /\ e.id = x
  BY EventIs, ArgsAreNot DEF Kinds
<1>2. /\ n \in Nat /\ DOMAIN ids = 1 .. n /\ DOMAIN jds = 1 .. n + 1 /\ DOMAIN texts = 1 .. n
      /\ (\A i \in 1 .. n : jds[i] = ids[i] /\ uexts[i] = texts[i] /\ texts[i] \in Args)
      /\ jds[n + 1] = x /\ uexts[n + 1] = <<>>
  <2>1. /\ n \in Nat /\ DOMAIN ids = 1 .. n /\ DOMAIN jds = 1 .. n + 1
        /\ (\A i \in 1 .. n : jds[i] = ids[i]) /\ jds[n + 1] = x
    BY Appended, LenProperties
  <2>2. <<>> \in Args /\ Len(texts) = n
    BY ArgsAreNot
  <2>3. /\ DOMAIN texts = 1 .. n /\ (\A i \in 1 .. n : uexts[i] = texts[i] /\ texts[i] \in Args)
        /\ uexts[n + 1] = <<>>
    BY <2>2, Appended, LenProperties, ElementOfSeq
  <2> QED BY <2>1, <2>3
<1> HIDE DEF e, n
<1>3. Spell(z, Len(z), x) = <<>>
  <2>1. Len(z) \in Nat /\ DOMAIN z = 1 .. Len(z)
    BY LenProperties
  <2>2. 0 \in 0 .. Len(z) /\ Len(z) \in 0 .. Len(z)
    BY <2>1
  <2>3. \A i \in 0 + 1 .. Len(z) : Part(z[i], x) = <<>>
    BY <2>1 DEF Part, AddsUp
  <2>4. Spell(z, Len(z), x) = Spell(z, 0, x)
    BY <2>2, <2>3, SpellRests
  <2> QED BY <2>4, SpellNone
<1>4. \A id : Part(e, id) = <<>>
  BY <1>1 DEF Part
<1>5. ASSUME NEW k \in DOMAIN jds PROVE Spell(z, Len(z), jds[k]) \o Part(e, jds[k]) = uexts[k]
  <2>1. Spell(z, Len(z), jds[k]) = uexts[k] /\ uexts[k] \in Args
    <3>1. CASE k \in 1 .. n
      BY <1>2, <3>1 DEF AddsUp
    <3>2. CASE k = n + 1
      BY <1>2, <1>3, <3>2, ArgsAreNot
    <3> QED BY <1>2, <3>1, <3>2
  <2>2. uexts[k] \o <<>> = uexts[k]
    BY <2>1, ConcatEmptySeq DEF Args
  <2> QED BY <1>4, <2>1, <2>2
<1>6. LeadsUp(z, e, jds, uexts)
  BY <1>1, <1>5 DEF LeadsUp, Ended
<1>7. Extends(jds, ids)
  BY <1>2 DEF Extends
<1>8. AddsUp(Append(z, e), jds, uexts)
  BY <1>1, <1>6, <1>7, UpsOn
<1>9. z \o <<e>> = Append(z, e)
  BY <1>1, JoinedOn
<1> QED BY <1>8, <1>9 DEF e

\* One that is sent some has them behind what it had.
LEMMA UpsArgs ==
  ASSUME NEW z \in Seq(Ev), NEW ids \in Seq(Ident), NEW texts \in Seq(Args), Len(texts) = Len(ids),
         Distinct(ids), AddsUp(z, ids, texts), NoneEnded(z), NEW k \in DOMAIN ids, NEW rest \in Args,
         NEW uexts, uexts = Put(texts, k, texts[k] \o rest)
  PROVE  AddsUp(z \o <<Event("args", ids[k], rest)>>, ids, uexts)
<1> DEFINE x == ids[k]
           e == Event("args", x, rest)
           n == Len(ids)
<1>1. n \in Nat /\ DOMAIN ids = 1 .. n /\ DOMAIN texts = 1 .. n /\ x \in Ident /\ k \in 1 .. n
  BY LenProperties, ElementOfSeq
<1>2. e \in Ev /\ e.kind = "args" /\ e.id = x /\ e.args = rest
  BY <1>1, EventIs DEF Kinds
<1>3. \A i \in 1 .. n : texts[i] \in Args /\ uexts[i] = IF i # k THEN texts[i] ELSE texts[k] \o rest
  BY <1>1, ElementOfSeq DEF Put
<1> HIDE DEF e, n
<1>4. ASSUME NEW i \in DOMAIN ids PROVE Spell(z, Len(z), ids[i]) \o Part(e, ids[i]) = uexts[i]
  <2>1. Spell(z, Len(z), ids[i]) = texts[i] /\ texts[i] \in Args
    BY <1>1, <1>3 DEF AddsUp
  <2>2. CASE i = k
    BY <1>1, <1>2, <1>3, <2>1, <2>2 DEF Part
  <2>3. CASE i # k
    <3>1. Part(e, ids[i]) = <<>>
      BY <1>2, <2>3 DEF Part, Distinct
    <3>2. texts[i] \o <<>> = texts[i]
      BY <2>1, ConcatEmptySeq DEF Args
    <3> QED BY <1>1, <1>3, <2>1, <2>3, <3>1, <3>2
  <2> QED BY <2>2, <2>3
<1>5. LeadsUp(z, e, ids, uexts)
  BY <1>2, <1>4 DEF LeadsUp, Ended
<1>6. Extends(ids, ids)
  BY DEF Extends
<1> HIDE DEF x
<1>7. AddsUp(Append(z, e), ids, uexts)
  BY <1>2, <1>5, <1>6, UpsOn
<1>8. z \o <<e>> = Append(z, e)
  BY <1>2, JoinedOn
<1> QED BY <1>7, <1>8 DEF e, x

Prolongs(t, S, s, e, n) ==
  /\ t \in Seq(S) /\ Len(t) = n + 1 /\ n \in Nat /\ DOMAIN t = 1 .. n + 1 /\ t[n + 1] = e
  /\ \A i \in 1 .. n : t[i] = s[i]

LEMMA AppendedTo ==
  ASSUME NEW S, NEW s \in Seq(S), NEW e \in S
  PROVE  Prolongs(Append(s, e), S, s, e, Len(s))
<1> DEFINE t == Append(s, e)
           n == Len(s)
<1>1. t \in Seq(S) /\ Len(t) = n + 1 /\ n \in Nat /\ t[n + 1] = e /\ \A i \in 1 .. n : t[i] = s[i]
  BY Appended
<1>2. DOMAIN t = 1 .. Len(t)
  BY <1>1, LenProperties
<1> HIDE DEF t, n
<1>3. Prolongs(t, S, s, e, n)
  BY <1>1, <1>2 DEF Prolongs
<1> QED BY <1>3 DEF t, n

\* The item of a delta before it is sent any, and one whose arguments go on.
Opens(z1, jds, vs, as, k) ==
  /\ z1 \in Seq(Ev) /\ NoneEnded(z1) /\ AddsUp(z1, jds, vs)
  /\ jds \in Seq(Ident) /\ vs \in Seq(Args) /\ Len(vs) = Len(jds)
  /\ k \in DOMAIN jds /\ vs[k] = TextAt(as, k) /\ DOMAIN vs = DOMAIN jds
  /\ \A c \in Args : Put(vs, k, c) = Put(as, k, c)

LEMMA UpsOpen ==
  ASSUME NEW z \in Seq(Ev), NEW ids \in Seq(Ident), NEW as \in Seq(Args), Len(as) = Len(ids),
         AddsUp(z, ids, as), NoneEnded(z), NEW d \in Dlt, Fits(ids, d),
         NEW jds, jds = With(ids, d), Distinct(jds), NEW k, k = d.index, NEW x, x = jds[k]
  PROVE  \E vs : Opens(z \o AddedOf(d, x), jds, vs, as, k)
<1> DEFINE n == Len(ids)
<1>1. n \in Nat /\ DOMAIN ids = 1 .. n /\ DOMAIN as = 1 .. n
  BY LenProperties
<1>2. CASE d.id = NoName
  <2>1. k \in 1 .. n /\ jds = ids
    <3>1. NoName \notin Ident
      BY NamesDiffer, Idents
    <3> QED BY <1>2, <3>1 DEF Fits, With
  <2>2. z \o AddedOf(d, x) = z
    <3>1. z \o <<>> = z
      BY ConcatEmptySeq
    <3> QED BY <1>2, <3>1 DEF AddedOf
  <2>3. Opens(z, jds, as, as, k)
    BY <1>1, <2>1 DEF Opens, TextAt
  <2> QED BY <2>2, <2>3
<1>3. CASE d.id # NoName
  <2>1. d.id \in Ident /\ k = n + 1 /\ jds = Append(ids, d.id) /\ (\A i \in DOMAIN ids : ids[i] # d.id)
    BY <1>3 DEF Fits, With
  <2>2. /\ jds \in Seq(Ident) /\ Len(jds) = n + 1 /\ DOMAIN jds = 1 .. n + 1 /\ jds[k] = d.id /\ x = d.id
    <3>1. d.id \in Ident /\ jds = Append(ids, d.id) /\ n = Len(ids)
      BY <2>1
    <3>2. Prolongs(Append(ids, d.id), Ident, ids, d.id, Len(ids))
      BY <3>1, AppendedTo
    <3>3. Prolongs(jds, Ident, ids, d.id, n)
      BY <3>1, <3>2
    <3> QED BY <2>1, <3>3 DEF Prolongs
  <2> DEFINE vs == Append(as, <<>>)
             e == Event("added", x, <<>>)
  <2>3. /\ vs \in Seq(Args) /\ Len(vs) = n + 1 /\ DOMAIN vs = 1 .. n + 1
        /\ (\A i \in 1 .. n : vs[i] = as[i]) /\ vs[n + 1] = <<>>
    <3>1. <<>> \in Args /\ vs = Append(as, <<>>) /\ n = Len(as)
      BY ArgsAreNot
    <3>2. Prolongs(Append(as, <<>>), Args, as, <<>>, Len(as))
      BY <3>1, AppendedTo
    <3> HIDE DEF vs, n
    <3>3. Prolongs(vs, Args, as, <<>>, n)
      BY <3>1, <3>2
    <3> QED BY <3>3 DEF Prolongs
  <2>4. AddsUp(z \o <<e>>, jds, vs)
    BY <2>1, <2>2, UpsAdded
  <2>5. e \in Ev /\ e.kind = "added"
    BY <2>1, <2>2, EventIs, ArgsAreNot DEF Kinds
  <2> HIDE DEF vs, e
  <2>6. z \o <<e>> = Append(z, e) /\ z \o <<e>> \in Seq(Ev)
    BY <2>5, JoinedOn
  <2>7. NoneEnded(z \o <<e>>)
    <3>1. /\ Len(z) \in Nat /\ DOMAIN z = 1 .. Len(z) /\ DOMAIN Append(z, e) = 1 .. Len(z) + 1
          /\ (\A i \in 1 .. Len(z) : Append(z, e)[i] = z[i]) /\ Append(z, e)[Len(z) + 1] = e
      BY <2>5, Appended, LenProperties
    <3>2. \A i \in 1 .. Len(z) + 1 : i \in 1 .. Len(z) \/ i = Len(z) + 1
      BY <3>1
    <3> QED BY <2>5, <2>6, <3>1, <3>2 DEF NoneEnded, Ended
  <2>8. ASSUME NEW c \in Args PROVE Put(vs, k, c) = Put(as, k, c)
    <3>1. Len(as) = n
      OBVIOUS
    <3> HIDE DEF n
    <3>2. /\ Put(vs, k, c) = [i \in 1 .. n + 1 |-> IF i # k THEN vs[i] ELSE c]
          /\ Put(as, k, c) = [i \in 1 .. n + 1 |-> IF i # k THEN as[i] ELSE c]
      BY <1>1, <2>1, <2>3, <3>1 DEF Put
    <3>3. \A i \in 1 .. n + 1 : i # k => vs[i] = as[i]
      <4>1. \A i \in 1 .. n + 1 : i # k => i \in 1 .. n
        BY <1>1, <2>1
      <4> QED BY <2>3, <4>1
    <3> QED BY <3>2, <3>3
  <2>9. k \in DOMAIN jds /\ vs[k] = TextAt(as, k) /\ DOMAIN vs = DOMAIN jds
    <3>1. k \notin 1 .. n /\ k \in 1 .. n + 1
      BY <1>1, <2>1
    <3> QED BY <1>1, <2>1, <2>2, <2>3, <3>1 DEF TextAt
  <2>10. z \o AddedOf(d, x) = z \o <<e>>
    BY <1>3 DEF AddedOf, e
  <2>11. Opens(z \o <<e>>, jds, vs, as, k)
    BY <2>2, <2>3, <2>4, <2>6, <2>7, <2>8, <2>9 DEF Opens
  <2> QED BY <2>10, <2>11
<1> QED BY <1>2, <1>3

LEMMA UpsDelta ==
  ASSUME NEW z \in Seq(Ev), NEW ids \in Seq(Ident), NEW as \in Seq(Args), Len(as) = Len(ids),
         AddsUp(z, ids, as), NoneEnded(z), NEW d \in Dlt, Fits(ids, d),
         NEW jds, jds = With(ids, d), Distinct(jds), NEW k, k = d.index, NEW x, x = jds[k],
         NEW bs, Gives(as, d, bs),
         NEW rest, rest = IF d.args = NoArgs THEN <<>> ELSE Remainder(TextAt(as, k), d.args)
  PROVE  AddsUp((z \o AddedOf(d, x)) \o ArgsOf(x, rest), jds, bs)
<1> DEFINE z1 == z \o AddedOf(d, x)
           old == TextAt(as, k)
<1>1. PICK vs : Opens(z1, jds, vs, as, k)
  BY UpsOpen
<1> HIDE DEF z1
<1>2. /\ z1 \in Seq(Ev) /\ NoneEnded(z1) /\ AddsUp(z1, jds, vs)
      /\ jds \in Seq(Ident) /\ vs \in Seq(Args) /\ Len(vs) = Len(jds)
      /\ k \in DOMAIN jds /\ vs[k] = old /\ DOMAIN vs = DOMAIN jds
      /\ \A c \in Args : Put(vs, k, c) = Put(as, k, c)
  BY <1>1 DEF Opens
<1>3. old \in Args /\ k \in 1 .. Len(vs)
  <2>1. DOMAIN vs = 1 .. Len(vs)
    BY <1>2, LenProperties
  <2>2. k \in 1 .. Len(vs)
    BY <1>2, <2>1
  <2>3. vs[k] \in Args
    BY <1>2, <2>2, ElementOfSeq
  <2> QED BY <1>2, <2>2, <2>3
<1>4. CASE d.args = NoArgs
  <2>1. bs = Put(vs, k, vs[k])
    BY <1>2, <1>3, <1>4 DEF Gives
  <2>2. bs = vs
    BY <1>2, <1>3, <2>1, PutSame
  <2>3. z1 \o ArgsOf(x, rest) = z1
    <3>1. z1 \o <<>> = z1
      BY <1>2, ConcatEmptySeq
    <3> QED BY <1>4, <3>1 DEF ArgsOf
  <2> QED BY <1>2, <2>2, <2>3 DEF z1
<1>5. CASE d.args # NoArgs
  <2>1. d.args \in Args /\ IsPrefix(old, d.args) /\ d.args # old /\ bs = Put(as, k, d.args)
    BY <1>5 DEF Gives, Dlt
  <2> HIDE DEF old
  <2>2. rest \in Args /\ rest # <<>> /\ old \o rest = d.args
    <3>1. rest = Remainder(old, d.args)
      BY <1>5 DEF old
    <3> QED BY <1>3, <2>1, <3>1, RestAdds
  <2>3. bs = Put(vs, k, vs[k] \o rest)
    BY <1>2, <2>1, <2>2
  <2>4. AddsUp(z1 \o <<Event("args", jds[k], rest)>>, jds, bs)
    BY <1>2, <2>2, <2>3, UpsArgs
  <2> QED BY <2>2, <2>4 DEF ArgsOf, z1
<1> QED BY <1>4, <1>5

LEMMA DistinctBegins ==
  ASSUME NEW ids \in Seq(Ident), Distinct(ids), NEW m \in 0 .. Len(ids)
  PROVE  Distinct(SubSeq(ids, 1, m))
<1> DEFINE p == SubSeq(ids, 1, m)
<1>1. Len(ids) \in Nat /\ DOMAIN ids = 1 .. Len(ids)
  BY LenProperties
<1>2. DOMAIN p = 1 .. m /\ \A i \in 1 .. m : p[i] = ids[i]
  BY <1>1
<1>3. \A i \in 1 .. m : i \in 1 .. Len(ids)
  BY <1>1
<1> HIDE DEF p
<1>4. Distinct(p)
  BY <1>1, <1>2, <1>3 DEF Distinct
<1> QED BY <1>4 DEF p

\* The events of all the deltas of a chunk, which lead to the arguments bs.
Ups(z, r, p, x) ==
  /\ r.items \in Seq(Item) /\ IdsOf(r.items) = p /\ LastsOf(r.items) = x
  /\ OfKinds(r.events, {"added", "args"}) /\ AddsUp(z \o r.events, p, x)

NoneEndedYet(z, w) == NoneEnded(z) /\ OfKinds(w, {"added", "args"})

LEMMA StillOpen ==
  ASSUME NEW z \in Seq(Ev), NEW w, NoneEndedYet(z, w)
  PROVE  z \o w \in Seq(Ev) /\ NoneEnded(z \o w)
<1>0. w \in Seq(Ev) /\ \A i \in DOMAIN w : ~Ended(w[i])
  BY DEF NoneEndedYet, OfKinds, Ended
<1>1. /\ z \o w \in Seq(Ev) /\ Len(z) \in Nat /\ Len(w) \in Nat /\ DOMAIN (z \o w) = 1 .. Len(z) + Len(w)
      /\ DOMAIN z = 1 .. Len(z) /\ DOMAIN w = 1 .. Len(w)
      /\ \A i \in 1 .. Len(z) : (z \o w)[i] = z[i]
      /\ \A i \in Len(z) + 1 .. Len(z) + Len(w) : (z \o w)[i] = w[i - Len(z)]
  BY <1>0, Joined, LenProperties
<1>2. ASSUME NEW i \in 1 .. Len(z) + Len(w) PROVE ~Ended((z \o w)[i])
  <2>1. CASE i \in 1 .. Len(z)
    BY <1>1, <2>1 DEF NoneEndedYet, NoneEnded
  <2>2. CASE i \in Len(z) + 1 .. Len(z) + Len(w)
    <3>1. i - Len(z) \in 1 .. Len(w)
      BY <1>1, <2>2
    <3> QED BY <1>0, <1>1, <2>2, <3>1
  <2> QED BY <1>1, <2>1, <2>2
<1> QED BY <1>1, <1>2 DEF NoneEnded

LEMMA UpsStep ==
  ASSUME NEW z \in Seq(Ev), NoneEnded(z), NEW r, NEW p \in Seq(Ident), NEW as, Ups(z, r, p, as),
         NEW d \in Dlt, Fits(p, d), NEW q, q = With(p, d), Distinct(q), NEW bs, Gives(as, d, bs)
  PROVE  Ups(z, EmitDelta(r, d), q, bs)
<1> DEFINE item == ItemAt(r.items, d)
           rest == RestOf(r.items, d)
           k == d.index
           x == item.id
           added == AddedOf(d, x)
           args == ArgsOf(x, rest)
           s == EmitDelta(r, d)
           w == z \o r.events
           new == IF rest = <<>> THEN item ELSE [item EXCEPT !.last = d.args]
           old == TextAt(as, k)
<1>1. /\ r.items \in Seq(Item) /\ IdsOf(r.items) = p /\ LastsOf(r.items) = as
      /\ OfKinds(r.events, {"added", "args"}) /\ AddsUp(w, p, as)
      /\ r.events \in Seq(Ev)
  BY DEF Ups, OfKinds
<1>2. /\ item \in Item /\ rest \in Args /\ s.items \in Seq(Item)
      /\ s.items = Put(r.items, k, new) /\ IdsOf(s.items) = q
      /\ k \in DOMAIN q /\ x = q[k]
      /\ s.events = (r.events \o added) \o args
  <2>1. Fits(IdsOf(r.items), d)
    BY <1>1
  <2>2. /\ item \in Item /\ rest \in Args /\ s.items \in Seq(Item)
        /\ s.items = Put(r.items, d.index, new)
        /\ IdsOf(s.items) = With(IdsOf(r.items), d)
        /\ d.index \in DOMAIN IdsOf(s.items) /\ item.id = IdsOf(s.items)[d.index]
        /\ s.events = (r.events \o added) \o args
    BY <1>1, <2>1, EmitDeltaIs
  <2> HIDE DEF item, rest, added, args, s, new
  <2> QED BY <1>1, <2>2 DEF x
<1>3. /\ as \in Seq(Args) /\ Len(as) = Len(p) /\ Len(r.items) = Len(p) /\ Len(p) \in Nat
      /\ DOMAIN as = 1 .. Len(p) /\ \A i \in 1 .. Len(p) : as[i] = r.items[i].last
  <2>1. Len(IdsOf(r.items)) = Len(r.items)
    BY <1>1, ItemIdsAre
  <2>2. /\ LastsOf(r.items) \in Seq(Args) /\ Len(LastsOf(r.items)) = Len(r.items)
        /\ DOMAIN LastsOf(r.items) = 1 .. Len(r.items) /\ Len(r.items) \in Nat
        /\ \A i \in 1 .. Len(r.items) : LastsOf(r.items)[i] = r.items[i].last
    BY <1>1, LastsAre
  <2> QED BY <1>1, <2>1, <2>2
<1>4. k \in 1 .. Len(p) + 1
  <2>1. Len(p) \in Nat
    BY <1>3
  <2> QED BY <2>1 DEF Fits
<1>5. item.last = old /\ rest = (IF d.args = NoArgs THEN <<>> ELSE Remainder(old, d.args))
  <2>1. item.last = old
    <3>1. CASE k > Len(p)
      <4>1. k \notin DOMAIN as /\ k > Len(r.items)
        BY <1>3, <3>1
      <4> QED BY <4>1 DEF ItemAt, NewItem, TextAt
    <3>2. CASE ~(k > Len(p))
      <4>1. k \in 1 .. Len(p)
        BY <1>3, <1>4, <3>2
      <4> QED BY <1>3, <3>2, <4>1 DEF ItemAt, TextAt
    <3> QED BY <3>1, <3>2
  <2> QED BY <2>1 DEF RestOf
<1>6. /\ r.events \in Seq(Ev) /\ added \in Seq(Ev) /\ args \in Seq(Ev)
      /\ OfKinds(added, {"added", "args"}) /\ OfKinds(args, {"added", "args"})
  <2>1. x \in Ident
    BY <1>2 DEF Item
  <2> HIDE DEF x, rest, item
  <2>2. /\ AddedOf(d, x) \in Seq(Ev) /\ ArgsOf(x, rest) \in Seq(Ev)
        /\ \A i \in DOMAIN AddedOf(d, x) : AddedOf(d, x)[i].kind \in {"added", "args"}
        /\ \A i \in DOMAIN ArgsOf(x, rest) : ArgsOf(x, rest)[i].kind \in {"added", "args"}
    BY <1>2, <2>1, DeltaEvents
  <2> QED BY <1>1, <2>2 DEF OfKinds
<1>7. w \in Seq(Ev) /\ NoneEnded(w)
  <2>1. NoneEndedYet(z, r.events)
    BY <1>1 DEF NoneEndedYet
  <2> QED BY <2>1, StillOpen
<1> HIDE DEF item, rest, x, w, s, new, k
<1>8. AddsUp((w \o added) \o args, q, bs)
  <2>1. rest = (IF d.args = NoArgs THEN <<>> ELSE Remainder(TextAt(as, k), d.args))
    BY <1>5
  <2>2. k = d.index
    BY DEF k
  <2>3. AddsUp((w \o AddedOf(d, x)) \o ArgsOf(x, rest), q, bs)
    BY <1>1, <1>2, <1>3, <1>7, <2>1, <2>2, UpsDelta, ZenonT(40)
  <2> QED BY <2>3
<1> HIDE DEF added, args
<1>9. z \o s.events = (w \o added) \o args
  <2>1. Joins(z, r.events, added)
    BY <1>6, JoinedThree
  <2>2. r.events \o added \in Seq(Ev)
    BY <1>6
  <2>3. Joins(z, r.events \o added, args)
    BY <1>6, <2>2, JoinedThree
  <2> QED BY <1>2, <2>1, <2>3 DEF w, Joins
<1>10. OfKinds(s.events, {"added", "args"})
  <2> DEFINE K == {"added", "args"}
  <2>1. OfKinds(r.events, K) /\ OfKinds(added, K) /\ OfKinds(args, K)
    BY <1>1, <1>6
  <2> HIDE DEF K
  <2>2. OfKinds(r.events \o added, K)
    BY <2>1, KindsJoin
  <2>3. OfKinds((r.events \o added) \o args, K)
    BY <2>1, <2>2, KindsJoin
  <2> QED BY <1>2, <2>3 DEF K
<1>11. LastsOf(s.items) = bs
  <2>1. new \in Item
    BY <1>2, ArgsAreNot DEF new, Item, Dlt, RestOf, rest
  <2>2. new.last = IF d.args = NoArgs THEN old ELSE d.args
    <3>1. CASE d.args = NoArgs
      BY <1>5, <3>1 DEF new
    <3>2. CASE d.args # NoArgs
      <4>1. d.args \in Args /\ IsPrefix(old, d.args) /\ d.args # old /\ old \in Args
        <5>1. item.last \in Args
          BY <1>2 DEF Item
        <5> QED BY <1>5, <3>2, <5>1 DEF Gives, Dlt, k
      <4>2. rest # <<>>
        BY <1>5, <3>2, <4>1, RestAdds
      <4> QED BY <1>2, <3>2, <4>2 DEF new, Item
    <3> QED BY <3>1, <3>2
  <2>3. LastsOf(Put(r.items, k, new)) = Put(LastsOf(r.items), k, new.last)
    <3>1. k \in 1 .. Len(r.items) + 1
      BY <1>3, <1>4
    <3> QED BY <1>1, <2>1, <3>1, PutLasts
  <2>4. bs = Put(as, k, IF d.args = NoArgs THEN old ELSE d.args)
    BY DEF Gives, k
  <2> QED BY <1>1, <1>2, <2>2, <2>3, <2>4
<1>12. Ups(z, s, q, bs)
  BY <1>2, <1>8, <1>9, <1>10, <1>11 DEF Ups
<1> QED BY <1>12 DEF s

LEMMA EmitUps ==
  ASSUME NEW z \in Seq(Ev), NoneEnded(z), NEW ids0, NEW as, AddsUp(z, ids0, as),
         NEW items \in Seq(Item), IdsOf(items) = ids0, LastsOf(items) = as,
         NEW ids \in Seq(Ident), Distinct(ids), NEW ds \in Seq(Dlt), LeadsTo(ids0, ds, ids),
         NEW bs, Gets(as, ds, bs)
  PROVE  Ups(z, EmitDeltas(items, ds), ids, bs)
<1> DEFINE n == Len(ds)
<1>1. n \in Nat
  BY LenProperties
<1>2. PICK after : EmitRun(after, items, ds)
  BY <1>1, EmitSteps
<1>3. /\ after[0] = [items |-> items, events |-> <<>>]
      /\ \A i \in 1 .. n : after[i] = EmitDelta(after[i - 1], ds[i])
      /\ EmitDeltas(items, ds) = after[n]
  BY <1>2 DEF EmitRun
<1>4. PICK m : Passes(m, ds, ids) /\ ids0 = SubSeq(ids, 1, m[0])
  BY DEF LeadsTo
<1>4a. PICK t : Gained(t, ds, as, bs)
  BY DEF Gets
<1> DEFINE Pre(j) == SubSeq(ids, 1, m[j])
           S == {j \in Nat : j <= n => Ups(z, after[j], Pre(j), t[j])}
<1>5. 0 \in S
  <2>1. after[0].items = items /\ after[0].events = <<>> /\ Pre(0) = ids0 /\ t[0] = as
    BY <1>3, <1>4, <1>4a DEF Gained
  <2>2. z \o <<>> = z
    BY ConcatEmptySeq
  <2>3. OfKinds(<<>>, {"added", "args"})
    BY DEF OfKinds
  <2> HIDE DEF Pre
  <2>4. Ups(z, after[0], Pre(0), t[0])
    BY <2>1, <2>2, <2>3 DEF Ups
  <2> QED BY <2>4
<1>6. ASSUME NEW i \in Nat, i \in S PROVE i + 1 \in S
  <2> SUFFICES ASSUME i + 1 <= n PROVE Ups(z, after[i + 1], Pre(i + 1), t[i + 1])
    OBVIOUS
  <2> DEFINE j == i + 1
             p == Pre(i)
             q == Pre(j)
             d == ds[j]
             r == after[i]
             x == t[i]
             y == t[j]
  <2>1. j \in 1 .. n /\ i <= n /\ j - 1 = i
    BY <1>1
  <2>2. Ups(z, r, p, x)
    BY <1>6, <2>1
  <2>3. after[j] = EmitDelta(r, d)
    BY <1>3, <2>1
  <2>4. d \in Dlt /\ p \in Seq(Ident) /\ Fits(p, d) /\ q = With(p, d)
    BY <1>4, PassesNext
  <2>5. Gives(x, d, y)
    BY <1>4a, <2>1 DEF Gained
  <2>6. Distinct(q)
    <3>1. m[j] \in 0 .. Len(ids)
      <4>1. j \in 0 .. n
        BY <1>1, <2>1
      <4> QED BY <1>4, <4>1 DEF Passes
    <3> QED BY <3>1, DistinctBegins
  <2> HIDE DEF j, p, q, d, r, x, y, Pre
  <2>7. Ups(z, EmitDelta(r, d), q, y)
    BY <2>2, <2>4, <2>5, <2>6, UpsStep
  <2> QED BY <2>3, <2>7 DEF j, q, y
<1> HIDE DEF S
<1>7. n \in S
  BY <1>1, <1>5, <1>6, SetInduction
<1>8. Ups(z, after[n], Pre(n), t[n])
  BY <1>1, <1>7 DEF S
<1>9. Pre(n) = ids /\ t[n] = bs
  BY <1>4, <1>4a, LenProperties DEF Passes, Gained
<1> QED BY <1>3, <1>8, <1>9

-----------------------------------------------------------------------------
(* The arguments at the end of the stream.                                  *)

LEMMA NothingLeft ==
  ASSUME NEW a \in Args
  PROVE  SubSeq(a, Len(a) + 1, Len(a)) = <<>>
<1>1. Len(a) \in Nat /\ Len(a) <= Len(a)
  BY LenProperties DEF Args
<1>2. Splits(Tokens, a, Len(a), Len(a))
  <2>1. a \in Seq(Tokens)
    BY DEF Args
  <2>2. PICK n : n = Len(a)
    OBVIOUS
  <2>3. n \in Nat /\ n <= n /\ n <= Len(a)
    BY <1>1, <2>2
  <2>4. Splits(Tokens, a, n, n)
    BY <2>1, <2>3, PartIs
  <2> QED BY <2>2, <2>4
<1>3. SubSeq(a, Len(a) + 1, Len(a)) \in Seq(Tokens) /\ Len(SubSeq(a, Len(a) + 1, Len(a))) = 0
  BY <1>1, <1>2 DEF Splits
<1> QED BY <1>3, EmptySeq

\* Every item has what its call has.
Even(ids, texts) ==
  /\ Mirrors(adapter.agg, ids) /\ adapter.items \in Seq(Item) /\ IdsOf(adapter.items) = ids
  /\ TextsOf(adapter.agg.calls) = texts /\ LastsOf(adapter.items) = texts

LEMMA CallEndsWell ==
  ASSUME NEW ids, NEW texts, Even(ids, texts), NEW k \in 1 .. Len(ids)
  PROVE  EndsWell(CallEvents(k), ids, texts)
<1> DEFINE args == adapter.agg.calls[k].args
           x == ids[k]
<1>1. /\ args \in Args /\ x \in Ident /\ CallEvents(k) = ArgsOf(x, RestOfCall(k)) \o EndOf(x, args)
  BY CallEventsAre DEF Even
<1>2. texts[k] = args /\ adapter.items[k].last = args /\ k \in DOMAIN ids
  <2>1. /\ Len(adapter.agg.calls) = Len(ids) /\ ids \in Seq(Ident) /\ adapter.agg.calls \in Seq(Call)
    BY MirrorsDistinct DEF Even
  <2>2. Len(adapter.items) = Len(ids)
    BY ItemIdsAre DEF Even
  <2>3. DOMAIN adapter.items = 1 .. Len(ids) /\ DOMAIN ids = 1 .. Len(ids) /\ DOMAIN adapter.agg.calls = 1 .. Len(ids)
    BY <2>1, <2>2, LenProperties DEF Even
  <2>4. TextsOf(adapter.agg.calls)[k] = args /\ LastsOf(adapter.items)[k] = adapter.items[k].last
    BY <2>3, SMTT(30) DEF TextsOf, LastsOf
  <2> QED BY <2>3, <2>4 DEF Even
<1>3. RestOfCall(k) = <<>>
  <2>1. RestOfCall(k) = SubSeq(args, Len(args) + 1, Len(args))
    BY <1>2 DEF RestOfCall
  <2> QED BY <1>1, <2>1, NothingLeft
<1> HIDE DEF args, x
<1>4. /\ Event("argsDone", x, args) \in Ev /\ Event("argsDone", x, args).kind = "argsDone"
      /\ Event("argsDone", x, args).id = x /\ Event("argsDone", x, args).args = args
      /\ Event("itemDone", x, args) \in Ev /\ Event("itemDone", x, args).kind = "itemDone"
      /\ Event("itemDone", x, args).id = x /\ Event("itemDone", x, args).args = args
  BY <1>1, EventIs DEF Kinds
<1> DEFINE w == EndOf(x, args)
<1>5. w \in Seq(Ev) /\ DOMAIN w = {1, 2} /\ w[1] = Event("argsDone", x, args) /\ w[2] = Event("itemDone", x, args)
  BY <1>4 DEF EndOf
<1>6. CallEvents(k) = w
  <2>1. <<>> \o w = w
    BY <1>5, ConcatEmptySeq
  <2> QED BY <1>1, <1>3, <2>1 DEF ArgsOf
<1> HIDE DEF w
<1>7. ASSUME NEW i \in DOMAIN w
      PROVE  w[i].kind # "args" /\ w[i].id = x /\ w[i].args = texts[k]
  <2>1. CASE i = 1
    BY <1>2, <1>4, <1>5, <2>1 DEF args
  <2>2. CASE i = 2
    BY <1>2, <1>4, <1>5, <2>2 DEF args
  <2> QED BY <1>5, <2>1, <2>2
<1> QED BY <1>2, <1>5, <1>6, <1>7 DEF EndsWell, x

LEMMA FinalEndsWell ==
  ASSUME NEW ids, NEW texts, Even(ids, texts)
  PROVE  EndsWell(FinalEvents, ids, texts)
<1> DEFINE n == Len(ids)
<1>1. Len(adapter.agg.calls) = n /\ n \in Nat
  BY MirrorsDistinct, LenProperties DEF Even
<1>2. PICK after : FinalRun(after)
  BY <1>1, FinalSteps
<1>3. /\ after[0] = <<>> /\ FinalEvents = after[n]
      /\ \A i \in 1 .. n : after[i] = after[i - 1] \o CallEvents(i)
  BY <1>1, <1>2 DEF FinalRun
<1> DEFINE S == {i \in Nat : i <= n => EndsWell(after[i], ids, texts)}
<1>4. 0 \in S
  <2>1. EndsWell(<<>>, ids, texts)
    BY DEF EndsWell
  <2> QED BY <1>3, <2>1
<1>5. ASSUME NEW i \in Nat, i \in S PROVE i + 1 \in S
  <2> SUFFICES ASSUME i + 1 <= n PROVE EndsWell(after[i + 1], ids, texts)
    OBVIOUS
  <2> DEFINE j == i + 1
  <2>1. j \in 1 .. n /\ i <= n /\ j - 1 = i
    BY <1>1
  <2>2. EndsWell(after[i], ids, texts)
    BY <1>5, <2>1
  <2> HIDE DEF j
  <2>3. EndsWell(CallEvents(j), ids, texts)
    BY <2>1, CallEndsWell
  <2>4. after[j] = after[i] \o CallEvents(j)
    BY <1>3, <2>1
  <2>5. EndsWell(after[j], ids, texts)
    BY <2>2, <2>3, <2>4, EndsJoin
  <2> QED BY <2>5 DEF j
<1> HIDE DEF S
<1>6. n \in S
  BY <1>1, <1>4, <1>5, SetInduction
<1> QED BY <1>1, <1>3, <1>6 DEF S

LEMMA OnDoneUps ==
  ASSUME NEW g \in Seq(Ev), NEW ids, NEW texts, Even(ids, texts),
         NEW o, "chain" \in DOMAIN o, o.chain \in Seq(Ev), AddsUp(g \o o.chain, ids, texts)
  PROVE  AddsUp(g \o OnDone(o).chain, ids, texts)
<1> DEFINE c0 == o.chain
           t == <<Plain("textDone")>>
           f == FinalEvents
           d == AllDone
           e == IF o.ended THEN <<>> ELSE TheEnd
           z == g \o c0
           K == {"textDone", "completed", "done", "end"}
           w == t \o f \o d \o e
<1>1. OnDone(o) = [o EXCEPT !.chain = c0 \o t \o f \o d \o e]
  BY DEF OnDone, AllDone, TheEnd
<1>2. OnDone(o).chain = c0 \o t \o f \o d \o e
  BY <1>1
<1>3. OfKinds(t, K) /\ OfKinds(d, K) /\ OfKinds(e, K)
  BY EventIs DEF Kinds, AllDone, TheEnd, OfKinds
<1>3a. "args" \notin K /\ "argsDone" \notin K /\ "itemDone" \notin K
  OBVIOUS
<1>4. EndsWell(f, ids, texts)
  BY FinalEndsWell
<1>5. Distinct(ids)
  BY MirrorsDistinct DEF Even
<1> HIDE DEF t, f, d, e, c0, K
<1>6. EndsWell(t, ids, texts) /\ EndsWell(d, ids, texts) /\ EndsWell(e, ids, texts)
  BY <1>3, <1>3a, EndsOther
<1>7. t \in Seq(Ev) /\ f \in Seq(Ev) /\ d \in Seq(Ev) /\ e \in Seq(Ev) /\ c0 \in Seq(Ev)
  BY <1>4, <1>6 DEF EndsWell, c0
<1>8. z \in Seq(Ev) /\ AddsUp(z, ids, texts)
  BY <1>7 DEF c0
<1> HIDE DEF z
<1>9. z \o t \in Seq(Ev) /\ AddsUp(z \o t, ids, texts)
  BY <1>5, <1>6, <1>7, <1>8, UpsEnd
<1>9a. PICK z1 : z1 = z \o t
  OBVIOUS
<1>10. z1 \o f \in Seq(Ev) /\ AddsUp(z1 \o f, ids, texts)
  <2>1. z1 \in Seq(Ev) /\ AddsUp(z1, ids, texts)
    BY <1>9, <1>9a
  <2> QED BY <1>4, <1>5, <1>7, <2>1, UpsEnd
<1>10a. PICK z2 : z2 = z1 \o f
  OBVIOUS
<1>11. z2 \o d \in Seq(Ev) /\ AddsUp(z2 \o d, ids, texts)
  <2>1. z2 \in Seq(Ev) /\ AddsUp(z2, ids, texts)
    BY <1>10, <1>10a
  <2> QED BY <1>5, <1>6, <1>7, <2>1, UpsEnd
<1>11a. PICK z3 : z3 = z2 \o d
  OBVIOUS
<1>12. AddsUp(z3 \o e, ids, texts)
  <2>1. z3 \in Seq(Ev) /\ AddsUp(z3, ids, texts)
    BY <1>11, <1>11a
  <2> QED BY <1>5, <1>6, <1>7, <2>1, UpsEnd
<1>13. Flat(g, c0, t, f, d, e)
  BY <1>7, JoinedSix
<1> QED BY <1>2, <1>9a, <1>10a, <1>11a, <1>12, <1>13 DEF Flat, z

-----------------------------------------------------------------------------
(* The steps.                                                               *)

\* What the events of an open response add up to.
LEMMA ArgsAre ==
  ASSUME Inv, ArgsInv
  PROVE  /\ Even(ToldIds, Texts) /\ Distinct(ToldIds) /\ ToldIds \in Seq(Ident)
         /\ ~out.ended => AddsUp(Given \o out.chain, ToldIds, Texts)
<1>1. CallsInv
  BY DEF Inv
<1>2. ToldIds \in Seq(Ident) /\ Distinct(ToldIds)
  BY <1>1, ChatDistinct DEF CallsInv, ToldIds
<1>3. Even(ToldIds, Texts)
  BY <1>1 DEF CallsInv, Even, ArgsInv
<1>4. ~out.ended => AddsUp(Given \o out.chain, ToldIds, Texts)
  BY DEF ArgsInv
<1> QED BY <1>2, <1>3, <1>4

LEMMA TellsNoEnd ==
  ASSUME NEW z, NEW ids, Telling(z, ids)
  PROVE  NoneEnded(z)
BY DEF Telling, NoneEnded, Ended

\* emitDelta and emitMessage.
LEMMA TellKeeps ==
  ASSUME Inv, ArgsInv, Reading, NEW fs \in Seq(Frag), NEW message \in BOOLEAN, NEW text \in BOOLEAN,
         \A i \in DOMAIN fs : Fitting(backend.style, fs[i]),
         Tell(Ingest(chat.agg, fs, message), text), BackendOK, NEW sent,
         Tidings(chat.agg, Ingest(chat.agg, fs, message), backend.truth, sent),
         backend.style = "chunks" => Placed(Ingest(chat.agg, fs, message).agg, backend.truth, sent),
         backend' = [backend EXCEPT !.sent = sent]
  PROVE  ArgsInv'
<1> DEFINE r == Ingest(chat.agg, fs, message)
           t == OnToolDeltas(r.deltas)
           s == Ingest(adapter.agg, AsFragments(r.deltas), FALSE)
           em == EmitDeltas(adapter.items, s.deltas)
           ids == IdsOf(r.agg.calls)
           as == Texts
           bs == TextsOf(r.agg.calls)
           drop == chat.drop \/ r.deltas # <<>>
           shown == text /\ ~drop
           x == IF shown THEN <<Plain("text")>> ELSE <<>>
           g == Given
           c == out.chain
           z == g \o c
<1>1. /\ CallsInv /\ ~chat.responded
      /\ DOMAIN out = {"chain", "flying", "queue", "waiting", "ending", "ended", "conn", "wire"}
      /\ DOMAIN chat = {"agg", "texts", "any", "drop", "responded", "finalized"}
      /\ DOMAIN adapter = {"agg", "items", "finished"}
  BY DEF Inv, StateOK, Reading
<1>2. /\ ~out.ended /\ Sound(z, ToldIds) /\ c \in Seq(Ev) /\ g \in Seq(Ev)
  BY <1>1, InvTells
<1>3. /\ chat' = [chat EXCEPT !.agg = r.agg, !.drop = drop, !.any = @ \/ shown]
      /\ adapter' = t.adapter
      /\ out' = [out EXCEPT !.chain = @ \o t.events \o x]
  BY DEF Tell
<1>4. /\ ChatOf(backend.style, r.agg) /\ r.deltas \in Seq(Dlt)
      /\ LeadsTo(ToldIds, r.deltas, ids)
  <2>1. ChatOf(backend.style, chat.agg)
    BY <1>1 DEF CallsInv, ChatOf
  <2> QED BY <2>1, ChatIngest DEF ToldIds
<1>5. ids \in Seq(Ident) /\ Distinct(ids)
  BY <1>4, ChatDistinct DEF ChatOf
<1>6. t = [adapter |-> [adapter EXCEPT !.agg = s.agg, !.items = em.items], events |-> em.events]
  BY DEF OnToolDeltas, OnIngested
<1>6t. Settled(r.agg) /\ Gets(as, r.deltas, bs) /\ Hears(r.agg, backend.truth, sent)
  BY DEF Tidings, Texts
<1>6p. backend.style = "chunks" => Placed(r.agg, backend.truth, sent)
  OBVIOUS
<1> HIDE DEF r, t, s, em
<1>6a. t.adapter = [adapter EXCEPT !.agg = s.agg, !.items = em.items] /\ t.events = em.events
  BY <1>6
<1>7. chat'.agg = r.agg
  BY <1>1, <1>3
<1>8. adapter'.agg = s.agg /\ adapter'.items = em.items
  BY <1>1, <1>3, <1>6a
<1>9. /\ out'.ended = out.ended /\ out'.queue = out.queue
      /\ out'.wire = out.wire /\ out'.chain = (c \o em.events) \o x
  BY <1>1, <1>3, <1>6a
<1>10. /\ Mirrors(adapter.agg, ToldIds) /\ adapter.items \in Seq(Item) /\ IdsOf(adapter.items) = ToldIds
       /\ Settled(adapter.agg) /\ Whole(adapter.agg)
       /\ as = TextsOf(adapter.agg.calls) /\ LastsOf(adapter.items) = as
       /\ AddsUp(z, ToldIds, as)
  BY <1>1, <1>2 DEF CallsInv, ArgsInv
<1>10a. ToldIds' = ids /\ Texts' = bs /\ Given' = Given
  BY <1>7, <1>9 DEF ToldIds, Texts, Given
<1>10b. backend'.style = backend.style /\ backend'.truth = backend.truth /\ backend'.sent = sent
  BY DEF BackendOK
<1> HIDE DEF ids, as, bs, drop, g, c
<1>11. s.deltas \in Seq(Dlt) /\ LeadsTo(ToldIds, s.deltas, ids)
  BY <1>4, <1>5, <1>10, AdapterIngest DEF s
<1>12. Relays(as, s, bs)
  BY <1>4, <1>5, <1>6t, <1>10, AdapterRelays DEF s
<1>13. Settled(s.agg) /\ Whole(s.agg) /\ TextsOf(s.agg.calls) = bs /\ Gets(as, s.deltas, bs)
  BY <1>12 DEF Relays
<1>14. z \in Seq(Ev) /\ NoneEnded(z)
  BY <1>2, TellsNoEnd DEF Sound
<1> HIDE DEF z
<1>15. Ups(z, em, ids, bs)
  BY <1>5, <1>10, <1>11, <1>13, <1>14, EmitUps DEF em
<1>16. /\ LastsOf(em.items) = bs /\ OfKinds(em.events, {"added", "args"})
       /\ AddsUp(z \o em.events, ids, bs)
  BY <1>15 DEF Ups
<1>17. OfKinds(x, {"text"})
  BY EventIs DEF Kinds, OfKinds
<1>18. x \in Seq(Ev) /\ EndsWell(x, ids, bs)
  <2> HIDE DEF x
  <2>1. PICK K : K = {"text"}
    OBVIOUS
  <2>2. OfKinds(x, K) /\ "args" \notin K /\ "argsDone" \notin K /\ "itemDone" \notin K
    BY <1>17, <2>1
  <2>3. EndsWell(x, ids, bs)
    BY <2>2, EndsOther
  <2> QED BY <2>2, <2>3 DEF OfKinds
<1> HIDE DEF x
<1>19. PICK y : y = z \o em.events
  OBVIOUS
<1>20. em.events \in Seq(Ev) /\ y \in Seq(Ev)
  <2> DEFINE e == em.events
  <2>1. e \in Seq(Ev)
    BY <1>16 DEF OfKinds
  <2> HIDE DEF e
  <2>2. z \o e \in Seq(Ev)
    BY <1>14, <2>1
  <2> QED BY <1>19, <2>1, <2>2 DEF e
<1>21. AddsUp(y \o x, ids, bs)
  <2>1. AddsUp(y, ids, bs)
    BY <1>16, <1>19
  <2> QED BY <1>5, <1>18, <1>20, <2>1, UpsEnd
<1>22. Given \o out'.chain = y \o x
  <2> DEFINE e == em.events
  <2>1. g \in Seq(Ev) /\ c \in Seq(Ev) /\ e \in Seq(Ev) /\ x \in Seq(Ev)
    BY <1>2, <1>18, <1>20
  <2>2. out'.chain = (c \o e) \o x
    BY <1>9
  <2> HIDE DEF e
  <2>3. g \o ((c \o e) \o x) = ((g \o c) \o e) \o x
    <3>1. Gains(g, c, e, x)
      BY <2>1, ChainGains
    <3> QED BY <3>1 DEF Gains
  <2> QED BY <1>19, <2>2, <2>3 DEF z, g, e
<1>23. AddsUp(Given' \o out'.chain, ToldIds', Texts')
  BY <1>10a, <1>21, <1>22
<1>24. Hears(chat'.agg, backend'.truth, backend'.sent)
  BY <1>6t, <1>7, <1>10b
<1>25. backend'.style = "chunks" => Placed(chat'.agg, backend'.truth, backend'.sent)
  BY <1>6p, <1>7, <1>10b
<1>26. /\ Settled(chat'.agg) /\ Settled(adapter'.agg) /\ Whole(adapter'.agg)
       /\ TextsOf(adapter'.agg.calls) = Texts' /\ LastsOf(adapter'.items) = Texts'
  BY <1>6t, <1>7, <1>8, <1>10a, <1>13, <1>16
<1> QED BY <1>2, <1>9, <1>23, <1>24, <1>25, <1>26 DEF ArgsInv

LEMMA TruthIsArgs ==
  ASSUME BackendOK
  PROVE  AllArgs(backend.truth) /\ backend.sent \in [Names -> Nat]
<1>1. ASSUME NEW n \in Names PROVE backend.truth[n] \in Args
  <2>1. backend.truth[n] \in Truths
    BY DEF BackendOK
  <2> QED BY <2>1, TruthIs
<1> QED BY <1>1 DEF AllArgs, BackendOK

LEMMA ToolFragmentKeeps ==
  ASSUME Inv, ArgsInv, NEW n \in Names, NEW k \in 1 .. MaxChunk,
         k <= Len(backend.truth[n]) - backend.sent[n], ToolFragment(n, k), ~LooksRepeated(n, k)
  PROVE  ArgsInv'
<1> DEFINE truth == backend.truth
           said == backend.sent
           style == backend.style
           agg == chat.agg
           t == truth[n]
           s == said[n]
           e == s + k
           part == SubSeq(t, s + 1, e)
           first == s = 0
           known == Alias(agg, Id(n))
           f == IF style = "items"
                THEN Fragment(Id(n), NoName, 0, part, FALSE)
                ELSE Fragment(NoName, IF first THEN Id(n) ELSE NoName,
                              IF first THEN Len(agg.calls) + 1 ELSE known, part, FALSE)
           fs == <<f>>
           sent == [said EXCEPT ![n] = e]
<1>1. /\ Reading /\ Tell(Ingest(agg, fs, FALSE), FALSE)
      /\ backend' = [backend EXCEPT !.sent[n] = @ + k]
  BY DEF ToolFragment, Coming
<1>2. BackendOK /\ Chatted(agg) /\ Formed(agg) /\ k \in Nat /\ k > 0 /\ style \in {"chunks", "items"}
      /\ ChatOf(style, agg)
  BY DEF Inv, StateOK, CallsInv, BackendOK, ResponsesAssumption, ChatOf, Chatted
<1>3. /\ t \in Args /\ Len(t) \in Nat /\ s \in Nat /\ e \in Nat /\ s < e /\ e <= Len(t)
  <2>1. t \in Args /\ Len(t) \in Nat /\ s \in Nat
    BY <1>2, TruthIs
  <2> HIDE DEF t, s
  <2> QED BY <1>2, <2>1 DEF t, s
<1>3a. AllArgs(truth) /\ said \in [Names -> Nat]
  BY <1>2, TruthIsArgs DEF AllArgs
<1>4. part \in Args
  BY <1>3 DEF Args
<1>5. Len(agg.calls) + 1 \in Nat /\ known \in Nat
  <2>2. Len(agg.calls) \in Nat /\ DOMAIN agg.calls = 1 .. Len(agg.calls)
    BY <1>2, LenProperties DEF Formed
  <2> QED BY <1>2, <2>2 DEF Formed, Alias
<1>6. Id(n) \in Ids /\ Id(n) \in Ident
  BY Idents
<1>6a. /\ Hears(agg, truth, said) /\ Settled(agg) /\ (style = "chunks" => Placed(agg, truth, said))
  BY DEF ArgsInv
<1> HIDE DEF known
<1>7. /\ f \in Frag /\ Fitting(style, f) /\ ~f.replace /\ f.args = part /\ PartBy(agg, style, f, n, s)
  <2> HIDE DEF part, s
  <2>1. CASE style = "items"
    <3>1. f = Fragment(Id(n), NoName, 0, part, FALSE)
      BY <2>1
    <3> HIDE DEF f
    <3>2. f \in Frag /\ f.backend = Id(n) /\ f.id = NoName /\ f.index = 0 /\ f.args = part /\ ~f.replace
      BY <1>4, <1>6, <3>1 DEF Fragment, Frag
    <3> QED BY <1>6, <2>1, <3>2 DEF Fitting, PartBy
  <2>2. CASE style = "chunks"
    <3>1. PICK id, index : /\ id = IF first THEN Id(n) ELSE NoName
                           /\ index = IF first THEN Len(agg.calls) + 1 ELSE known
      OBVIOUS
    <3>2. f = Fragment(NoName, id, index, part, FALSE)
      BY <2>2, <3>1
    <3> HIDE DEF f
    <3>3. id \in Ids \cup {NoName} /\ id \in Ident \cup {NoName} /\ index \in Nat
      BY <1>5, <1>6, <3>1
    <3>4. f \in Frag /\ f.backend = NoName /\ f.id = id /\ f.index = index /\ f.args = part /\ ~f.replace
      BY <1>4, <3>2, <3>3 DEF Fragment, Frag
    <3>5. Fitting(style, f)
      BY <2>2, <3>3, <3>4 DEF Fitting
    <3>6. PartBy(agg, style, f, n, s)
      BY <2>2, <3>1, <3>4 DEF PartBy, known
    <3> QED BY <3>4, <3>5, <3>6
  <2> QED BY <1>2, <2>1, <2>2
<1>7a. Fresh(agg, n, SubSeq(t, 1, s), part)
  <2>1. /\ ~(Alias(agg, Id(n)) # 0 /\ agg.calls[Alias(agg, Id(n))].last = part)
        /\ Unlike(SubSeq(t, 1, s), part)
    BY DEF LooksRepeated, Said, Coming, Unlike
  <2> HIDE DEF part, t, s
  <2>2. Id(n) \in DOMAIN agg.alias => agg.alias[Id(n)] \in DOMAIN agg.calls
    BY <1>2 DEF Formed
  <2>3. DOMAIN agg.calls = 1 .. Len(agg.calls) /\ Len(agg.calls) \in Nat
    BY <1>2, FormedIs
  <2>4. Id(n) \in DOMAIN agg.alias => Alias(agg, Id(n)) = agg.alias[Id(n)] /\ agg.alias[Id(n)] # 0
    BY <2>2, <2>3 DEF Alias
  <2> QED BY <2>1, <2>4 DEF Fresh
<1> HIDE DEF f
<1>8. fs \in Seq(Frag) /\ \A i \in DOMAIN fs : Fitting(style, fs[i])
  BY <1>7
<1>9. PICK no \in BOOLEAN : no = FALSE
  OBVIOUS
<1>10. Speaks(agg, f, n, t, s, e, no)
  <2>1. PICK u : u = e
    OBVIOUS
  <2>2. u \in Nat /\ said[n] < u /\ u <= Len(truth[n]) /\ f.args = SubSeq(truth[n], said[n] + 1, u)
    BY <1>3, <1>7, <2>1
  <2>3. truth[n] \in Args /\ PartBy(agg, style, f, n, said[n]) /\ ~f.replace /\ f \in Frag
    BY <1>3, <1>7
  <2>4. style # "items" => Placed(agg, truth, said)
    BY <1>2, <1>6a
  <2>4a. Fresh(agg, n, SubSeq(truth[n], 1, said[n]), f.args)
    BY <1>7, <1>7a
  <2> HIDE DEF truth, said, style, agg, e
  <2>5. Speaks(agg, f, n, truth[n], said[n], u, no)
    BY <1>2, <1>3a, <1>6a, <1>9, <2>2, <2>3, <2>4, <2>4a, PartSpeaks
  <2> QED BY <2>1, <2>5
<1>11. PICK r : r = Ingest(agg, fs, no)
  OBVIOUS
<1>12. Tidings(agg, r, truth, sent) /\ r.agg.alias = Known(agg.alias, f, Resolve(agg, f))
  <2>1. PICK u : u = e
    OBVIOUS
  <2>2. u \in Nat /\ truth[n] \in Args /\ Speaks(agg, f, n, truth[n], said[n], u, no)
        /\ f \in Frag /\ Fitting(style, f)
    BY <1>3, <1>3a, <1>7, <1>10, <2>1
  <2> HIDE DEF truth, said, style, agg, e
  <2>3. /\ Tidings(agg, Ingest(agg, <<f>>, no), truth, [said EXCEPT ![n] = u])
        /\ Ingest(agg, <<f>>, no).agg.alias = Known(agg.alias, f, Resolve(agg, f))
    BY <1>2, <1>3a, <1>6a, <1>9, <2>2, OneTells
  <2> QED BY <1>11, <2>1, <2>3
<1>13. style = "chunks" => Placed(r.agg, truth, sent)
  <2> SUFFICES ASSUME style = "chunks" PROVE Placed(r.agg, truth, sent)
    OBVIOUS
  <2>1. PICK u, v : u = e /\ v = r.agg
    OBVIOUS
  <2>2. u \in Nat /\ said[n] < u /\ u <= Len(truth[n]) /\ truth[n] \in Args
    BY <1>3, <2>1
  <2>3. f \in Frag /\ PartBy(agg, style, f, n, said[n]) /\ style # "items"
        /\ Placed(agg, truth, said) /\ v.alias = Known(agg.alias, f, Resolve(agg, f))
    BY <1>6a, <1>7, <1>12, <2>1
  <2> HIDE DEF truth, said, style, agg, e
  <2>4. Placed(v, truth, [said EXCEPT ![n] = u])
    BY <1>2, <1>3a, <1>6a, <2>2, <2>3, PartPlaced
  <2> QED BY <2>1, <2>4
<1>14. backend' = [backend EXCEPT !.sent = sent]
  BY <1>1, <1>2 DEF BackendOK
<1> HIDE DEF fs, sent, e
<1>15. Tell(Ingest(agg, fs, no), no)
  BY <1>1, <1>9
<1>16. Tidings(agg, Ingest(agg, fs, no), truth, sent)
  BY <1>11, <1>12
<1>17. style = "chunks" => Placed(Ingest(agg, fs, no).agg, truth, sent)
  BY <1>11, <1>13
<1> QED BY <1>1, <1>2, <1>8, <1>14, <1>15, <1>16, <1>17, TellKeeps

LEMMA ArgumentsDoneKeeps ==
  ASSUME Inv, ArgsInv, NEW n \in Names, ArgumentsDone(n)
  PROVE  ArgsInv'
<1> DEFINE truth == backend.truth
           said == backend.sent
           style == backend.style
           agg == chat.agg
           t == truth[n]
           e == Len(t)
           f == Fragment(Id(n), NoName, 0, t, TRUE)
           fs == <<f>>
           sent == [said EXCEPT ![n] = e]
<1>1. /\ Reading /\ style = "items" /\ Tell(Ingest(agg, fs, FALSE), FALSE)
      /\ backend' = [backend EXCEPT !.sent[n] = Len(backend.truth[n])]
  BY DEF ArgumentsDone
<1>2. BackendOK /\ Formed(agg) /\ ChatOf(style, agg)
  BY DEF Inv, StateOK, CallsInv, ChatOf, Chatted
<1>3. /\ t \in Args /\ e \in Nat /\ said[n] \in Nat /\ said[n] <= e
      /\ AllArgs(truth) /\ said \in [Names -> Nat]
  BY <1>2, TruthIs, TruthIsArgs DEF AllArgs
<1>4. Id(n) \in Ids /\ Id(n) \in Ident
  BY Idents
<1>5. Hears(agg, truth, said) /\ Settled(agg)
  BY DEF ArgsInv
<1>6. f \in Frag /\ f.backend = Id(n) /\ f.id = NoName /\ f.args = t /\ f.replace
  BY <1>3, <1>4 DEF Fragment, Frag
<1> HIDE DEF f
<1>7. Fitting(style, f)
  BY <1>1, <1>4, <1>6 DEF Fitting
<1>8. fs \in Seq(Frag) /\ \A i \in DOMAIN fs : Fitting(style, fs[i])
  BY <1>6, <1>7
<1>9. PICK no \in BOOLEAN : no = FALSE
  OBVIOUS
<1>10. Tidings(agg, Ingest(agg, fs, no), truth, sent)
  <2>0. t = truth[n] /\ e = Len(t)
    OBVIOUS
  <2>1. PICK u, v : u = e /\ v = said[n]
    OBVIOUS
  <2> HIDE DEF truth, said, style, agg, e, t
  <2>2. v \in Nat /\ v <= Len(t) /\ t \in Args
    BY <1>3, <2>0, <2>1
  <2>3. Speaks(agg, f, n, t, v, Len(t), no)
    BY <1>2, <1>6, <1>9, <2>2, DoneSpeaks
  <2>4. Speaks(agg, f, n, truth[n], said[n], u, no) /\ truth[n] \in Args /\ u \in Nat
    BY <1>3, <2>0, <2>1, <2>3
  <2>5. Tidings(agg, Ingest(agg, <<f>>, no), truth, [said EXCEPT ![n] = u])
    BY <1>2, <1>3, <1>5, <1>6, <1>7, <1>9, <2>4, OneTells
  <2> QED BY <2>1, <2>5
<1>11. backend' = [backend EXCEPT !.sent = sent]
  BY <1>1, <1>2 DEF BackendOK
<1> HIDE DEF fs, sent, e
<1>12. Tell(Ingest(agg, fs, no), no)
  BY <1>1, <1>9
<1>13. style = "chunks" => Placed(Ingest(agg, fs, no).agg, truth, sent)
  BY <1>1
<1> QED BY <1>1, <1>2, <1>8, <1>10, <1>11, <1>12, <1>13, TellKeeps

\* After the final message no call is incomplete.
LEMMA MessagePlaces ==
  ASSUME NEW agg, NEW truth, AllArgs(truth), NEW named
  PROVE  Placed(agg, truth, SentIn(named, truth))
<1>1. ASSUME NEW n \in Names, 0 < SentIn(named, truth)[n], SentIn(named, truth)[n] < Len(truth[n])
      PROVE  FALSE
  <2>1. Len(truth[n]) \in Nat
    BY LenProperties DEF AllArgs, Args
  <2>2. SentIn(named, truth)[n] = IF n \in named THEN Len(truth[n]) ELSE 0
    BY DEF SentIn
  <2> QED BY <1>1, <2>1, <2>2
<1> QED BY <1>1 DEF Placed

LEMMA MessageKeeps ==
  ASSUME Inv, ArgsInv, NEW named \in SUBSET Names, NEW text \in BOOLEAN, Message(named, text)
  PROVE  ArgsInv'
<1> DEFINE truth == backend.truth
           said == backend.sent
           style == backend.style
           agg == chat.agg
           order == SetToSeq(named)
           N == Cardinality(named)
           fs == MessageOf(named, truth)
           sent == SentIn(named, truth)
<1>1. /\ Reading /\ style = "chunks" /\ Tell(Ingest(agg, fs, TRUE), text)
      /\ backend' = [backend EXCEPT !.sent = sent]
      /\ \A n \in Names : said[n] > 0 => n \in named /\ said[n] = Len(truth[n])
  BY DEF Message, MessageOf, SentIn
<1>2. BackendOK /\ ChatOf(style, agg)
  BY DEF Inv, StateOK, CallsInv, ChatOf
<1>2a. AllArgs(truth) /\ said \in [Names -> Nat]
  BY <1>2, TruthIsArgs
<1>2b. Hears(agg, truth, said) /\ Settled(agg)
  BY DEF ArgsInv
<1>3. DOMAIN order = 1 .. N /\ N \in Nat /\ \A i \in 1 .. N : order[i] \in named
  BY OrderIs
<1>3a. fs = [i \in DOMAIN order |-> Fragment(NoName, Id(order[i]), i, truth[order[i]], TRUE)]
  BY DEF MessageOf
<1> HIDE DEF order, N
<1>4. ASSUME NEW i \in 1 .. N PROVE fs[i] \in Frag /\ Fitting(style, fs[i])
  <2> DEFINE n == order[i]
  <2>1. n \in Names /\ fs[i] = Fragment(NoName, Id(n), i, truth[n], TRUE)
    BY <1>3, <1>3a
  <2> HIDE DEF n, fs
  <2>2. truth[n] \in Args
    BY <1>2, <2>1, TruthIs
  <2>3. Id(n) \in Ids /\ Id(n) \in Ident
    BY <2>1, Idents
  <2>4. i \in Nat
    BY <1>3
  <2>5. fs[i] \in Frag /\ fs[i].backend = NoName /\ fs[i].id = Id(n)
    BY <2>1, <2>2, <2>3, <2>4 DEF Fragment, Frag
  <2> QED BY <1>1, <2>3, <2>5 DEF Fitting
<1>5. DOMAIN fs = 1 .. N
  BY <1>3, <1>3a
<1>6. fs = [i \in 1 .. N |-> fs[i]]
  BY <1>3, <1>3a
<1> HIDE DEF fs
<1>7. fs \in Seq(Frag)
  BY <1>3, <1>4, <1>6, IsASeq
<1>8. \A i \in DOMAIN fs : Fitting(style, fs[i])
  BY <1>4, <1>5
<1>9. PICK yes \in BOOLEAN : yes = TRUE
  OBVIOUS
<1>10. Tell(Ingest(agg, fs, yes), text)
  BY <1>1, <1>9
<1>11. HasAll(named, truth, said)
  BY <1>1 DEF HasAll
<1>12. Tidings(agg, Ingest(agg, fs, yes), truth, sent)
  <2>1. fs = MessageOf(named, truth)
    BY DEF fs
  <2>2. style = "chunks"
    BY <1>1
  <2> HIDE DEF truth, said, style, agg
  <2>3. Tidings(agg, Ingest(agg, fs, yes), truth, SentIn(named, truth))
    BY <1>2, <1>2a, <1>2b, <1>9, <1>11, <2>1, <2>2, MessageTells
  <2> QED BY <2>3
<1>13. Placed(Ingest(agg, fs, yes).agg, truth, sent)
  BY <1>2a, MessagePlaces
<1> HIDE DEF sent
<1> QED BY <1>1, <1>2, <1>7, <1>8, <1>10, <1>12, <1>13, TellKeeps

\* The calls and what was said stay as they are, and so does what the client has
\* read of a response that has ended.
LEMMA CallsStay ==
  ASSUME ArgsInv, chat'.agg = chat.agg, adapter'.agg = adapter.agg, adapter'.items = adapter.items,
         backend'.style = backend.style, backend'.truth = backend.truth, backend'.sent = backend.sent,
         out.ended => out'.ended /\ out'.wire = out.wire,
         ~out.ended /\ ~out'.ended => AddsUp(Given' \o out'.chain, ToldIds, Texts),
         ~out.ended /\ out'.ended => ArgumentsAddUp'
  PROVE  ArgsInv' /\ ToldIds' = ToldIds /\ Texts' = Texts
<1>1. ToldIds' = ToldIds /\ Texts' = Texts
  BY DEF ToldIds, Texts
<1>2. /\ Hears(chat.agg, backend.truth, backend.sent)
      /\ backend.style = "chunks" => Placed(chat.agg, backend.truth, backend.sent)
      /\ Settled(chat.agg) /\ Settled(adapter.agg) /\ Whole(adapter.agg)
      /\ TextsOf(adapter.agg.calls) = Texts /\ LastsOf(adapter.items) = Texts
  BY DEF ArgsInv
<1>3. /\ Hears(chat'.agg, backend'.truth, backend'.sent)
      /\ backend'.style = "chunks" => Placed(chat'.agg, backend'.truth, backend'.sent)
      /\ Settled(chat'.agg) /\ Settled(adapter'.agg) /\ Whole(adapter'.agg)
      /\ TextsOf(adapter'.agg.calls) = Texts' /\ LastsOf(adapter'.items) = Texts'
  BY <1>1, <1>2
<1>4. CASE out.ended
  <2>1. ArgumentsAddUp
    BY <1>4 DEF ArgsInv
  <2>2. W' = W /\ \A n \in Names : ItemName(n)' = ItemName(n)
    BY <1>4 DEF W, ItemName
  <2>3. \A i, id : Spelled(i, id)' = Spelled(i, id)
    BY <2>2 DEF Spelled
  <2>4. ArgumentsAddUp'
    BY <2>1, <2>2, <2>3 DEF ArgumentsAddUp
  <2> QED BY <1>1, <1>3, <1>4, <2>4 DEF ArgsInv
<1>5. CASE ~out.ended
  <2>1. ~out'.ended => AddsUp(Given' \o out'.chain, ToldIds', Texts')
    BY <1>1, <1>5
  <2>2. out'.ended => ArgumentsAddUp'
    BY <1>5
  <2> QED BY <1>1, <1>3, <2>1, <2>2 DEF ArgsInv
<1> QED BY <1>4, <1>5

\* A text more.
LEMMA UpsText ==
  ASSUME NEW g \in Seq(Ev), NEW c \in Seq(Ev), NEW ids, Distinct(ids), NEW texts, AddsUp(g \o c, ids, texts)
  PROVE  Append(c, Plain("text")) \in Seq(Ev) /\ AddsUp(g \o Append(c, Plain("text")), ids, texts)
<1> DEFINE e == Plain("text")
           z == g \o c
           x == <<e>>
<1>1. e \in Ev /\ e.kind = "text"
  BY EventIs DEF Kinds
<1> HIDE DEF e
<1>2. x \in Seq(Ev) /\ \A i \in DOMAIN x : x[i].kind = "text"
  BY <1>1
<1>3. g \o Append(c, e) = z \o x /\ Append(c, e) \in Seq(Ev) /\ z \in Seq(Ev)
  BY <1>1
<1> HIDE DEF x, z
<1>4. EndsWell(x, ids, texts)
  BY <1>2 DEF EndsWell, Ended
<1>5. AddsUp(z, ids, texts)
  BY DEF z
<1>6. AddsUp(z \o x, ids, texts)
  BY <1>3, <1>4, <1>5, UpsEnd
<1> QED BY <1>3, <1>6 DEF e

LEMMA GivenIs ==
  ASSUME Inv
  PROVE  Given \in Seq(Ev) /\ out.chain \in Seq(Ev)
<1>1. out.wire \in Seq(Ev) /\ out.queue \in Seq(Ev) /\ out.chain \in Seq(Ev)
  BY OutIs
<1> QED BY <1>1 DEF Given

LEMMA TextDeltaKeeps ==
  ASSUME Inv, ArgsInv, TextDelta
  PROVE  ArgsInv'
<1>1. /\ DOMAIN out = {"chain", "flying", "queue", "waiting", "ending", "ended", "conn", "wire"}
      /\ DOMAIN chat = {"agg", "texts", "any", "drop", "responded", "finalized"}
      /\ UNCHANGED <<backend, adapter>> /\ ~out.ended
  BY DEF Inv, StateOK, TextDelta, Reading
<1>2. Given \in Seq(Ev) /\ out.chain \in Seq(Ev)
  BY GivenIs
<1>3. Distinct(ToldIds) /\ AddsUp(Given \o out.chain, ToldIds, Texts)
  BY <1>1, ArgsAre
<1>4. chat'.agg = chat.agg
  BY <1>1 DEF TextDelta
<1>5. CASE chat.drop
  <2>1. out' = out
    BY <1>5 DEF TextDelta
  <2>2. Given' = Given
    BY <2>1 DEF Given
  <2> QED BY <1>1, <1>3, <1>4, <2>1, <2>2, CallsStay
<1>6. CASE ~chat.drop
  <2>1. /\ out'.ended = out.ended /\ out'.queue = out.queue /\ out'.wire = out.wire
        /\ out'.chain = Append(out.chain, Plain("text"))
    BY <1>1, <1>6 DEF TextDelta
  <2>2. Given' = Given
    BY <2>1 DEF Given
  <2>3. AddsUp(Given \o Append(out.chain, Plain("text")), ToldIds, Texts)
    <3>1. PICK g, c, ids, texts : g = Given /\ c = out.chain /\ ids = ToldIds /\ texts = Texts
      OBVIOUS
    <3>2. AddsUp(g \o Append(c, Plain("text")), ids, texts)
      BY <1>2, <1>3, <3>1, UpsText
    <3> QED BY <3>1, <3>2
  <2> QED BY <1>1, <1>4, <2>1, <2>2, <2>3, CallsStay
<1> QED BY <1>5, <1>6

\* finalizeStream, behind a chain that may have gained a text.
LEMMA FinalizeKeeps ==
  ASSUME Inv, ArgsInv, ~chat.finalized, NEW o, DOMAIN o = DOMAIN out, o.ended = out.ended,
         o.queue = out.queue, o.wire = out.wire, o.chain \in Seq(Ev),
         ~out.ended => AddsUp(Given \o o.chain, ToldIds, Texts),
         Finalize(o), backend'.style = backend.style, backend'.truth = backend.truth,
         backend'.sent = backend.sent
  PROVE  ArgsInv'
<1> DEFINE c == OnDone(o).chain
<1>1. /\ ~adapter.finished
      /\ DOMAIN out = {"chain", "flying", "queue", "waiting", "ending", "ended", "conn", "wire"}
      /\ DOMAIN chat = {"agg", "texts", "any", "drop", "responded", "finalized"}
      /\ DOMAIN adapter = {"agg", "items", "finished"}
  BY DEF Inv, StateOK
<1>2. /\ chat' = [chat EXCEPT !.finalized = TRUE, !.responded = TRUE]
      /\ adapter' = [adapter EXCEPT !.finished = TRUE]
      /\ out' = OnDone(o)
  BY <1>1 DEF Finalize
<1>3. chat'.agg = chat.agg /\ adapter'.agg = adapter.agg /\ adapter'.items = adapter.items
  BY <1>1, <1>2
<1>4. OnDone(o).ended = o.ended /\ OnDone(o).queue = o.queue /\ OnDone(o).wire = o.wire
  BY <1>1 DEF OnDone
<1> HIDE DEF c
<1>5. out'.ended = out.ended /\ out'.queue = out.queue /\ out'.wire = out.wire /\ out'.chain = c
  BY <1>2, <1>4 DEF c
<1>6. Given' = Given
  BY <1>5 DEF Given
<1>7. ~out.ended => AddsUp(Given \o c, ToldIds, Texts)
  <2> SUFFICES ASSUME ~out.ended PROVE AddsUp(Given \o c, ToldIds, Texts)
    OBVIOUS
  <2>1. PICK g, ids, texts : g = Given /\ ids = ToldIds /\ texts = Texts
    OBVIOUS
  <2>2. g \in Seq(Ev) /\ Even(ids, texts) /\ AddsUp(g \o o.chain, ids, texts)
    BY <2>1, GivenIs, ArgsAre
  <2>3. "chain" \in DOMAIN o
    BY <1>1
  <2>4. AddsUp(g \o OnDone(o).chain, ids, texts)
    BY <2>2, <2>3, OnDoneUps
  <2> QED BY <2>1, <2>4 DEF c
<1> QED BY <1>3, <1>5, <1>6, <1>7, CallsStay

LEMMA BackendStays ==
  ASSUME Inv, NEW child, backend' = [backend EXCEPT !.child = child]
  PROVE  backend'.style = backend.style /\ backend'.truth = backend.truth /\ backend'.sent = backend.sent
BY DEF Inv, StateOK, BackendOK

LEMMA FinalizeOutKeeps ==
  ASSUME Inv, ArgsInv, ~chat.finalized, Finalize(out), NEW child, backend' = [backend EXCEPT !.child = child]
  PROVE  ArgsInv'
<1>1. ~out.ended => AddsUp(Given \o out.chain, ToldIds, Texts)
  BY ArgsAre
<1>2. out.chain \in Seq(Ev)
  BY GivenIs
<1>3. backend'.style = backend.style /\ backend'.truth = backend.truth /\ backend'.sent = backend.sent
  BY BackendStays
<1> QED BY <1>1, <1>2, <1>3, FinalizeKeeps

LEMMA TaskCompleteKeeps ==
  ASSUME Inv, ArgsInv, TaskComplete
  PROVE  ArgsInv'
<1>1. ~chat.finalized /\ Finalize(out) /\ backend' = [backend EXCEPT !.child = "exiting"]
  BY DEF TaskComplete, Reading
<1> QED BY <1>1, FinalizeOutKeeps

\* Without calls no event has arguments, and none that follows.
LEMMA NoCallsAddUp ==
  ASSUME NEW g \in Seq(Ev), NEW c \in Seq(Ev), NEW ids, DOMAIN ids = {}, NEW texts, AddsUp(g \o c, ids, texts),
         NEW x, OfKinds(x, {"error", "DONE"})
  PROVE  AddsUp((g \o x) \o c, ids, texts)
<1> DEFINE Bare(e) == e.kind # "args" /\ ~Ended(e)
           z == g \o c
           y == g \o x
           w == y \o c
<1>1. \A i \in DOMAIN z : Bare(z[i])
  BY DEF AddsUp
<1>2. x \in Seq(Ev) /\ \A i \in DOMAIN x : Bare(x[i])
  BY DEF OfKinds, Ended
<1> HIDE DEF Bare
<1>3. /\ DOMAIN z = 1 .. Len(g) + Len(c) /\ Len(g) \in Nat /\ Len(c) \in Nat
      /\ DOMAIN g = 1 .. Len(g) /\ DOMAIN c = 1 .. Len(c)
      /\ \A i \in 1 .. Len(g) : z[i] = g[i]
      /\ \A i \in Len(g) + 1 .. Len(g) + Len(c) : z[i] = c[i - Len(g)]
  BY Joined, LenProperties
<1>4. /\ y \in Seq(Ev) /\ DOMAIN y = 1 .. Len(g) + Len(x) /\ Len(x) \in Nat /\ Len(y) = Len(g) + Len(x)
      /\ DOMAIN x = 1 .. Len(x)
      /\ \A i \in 1 .. Len(g) : y[i] = g[i]
      /\ \A i \in Len(g) + 1 .. Len(g) + Len(x) : y[i] = x[i - Len(g)]
  BY <1>2, Joined, LenProperties
<1>5. /\ DOMAIN w = 1 .. Len(y) + Len(c)
      /\ \A i \in 1 .. Len(y) : w[i] = y[i]
      /\ \A i \in Len(y) + 1 .. Len(y) + Len(c) : w[i] = c[i - Len(y)]
  <2>1. y \in Seq(Ev)
    BY <1>4
  <2> HIDE DEF y
  <2>2. y \o c \in Seq(Ev) /\ Len(y \o c) = Len(y) + Len(c)
    BY <2>1, Joined
  <2>3. DOMAIN (y \o c) = 1 .. Len(y) + Len(c)
    BY <2>2, LenProperties
  <2>4. /\ \A i \in 1 .. Len(y) : (y \o c)[i] = y[i]
        /\ \A i \in Len(y) + 1 .. Len(y) + Len(c) : (y \o c)[i] = c[i - Len(y)]
    BY <2>1, Joined
  <2> QED BY <2>3, <2>4
<1> HIDE DEF z, y, w
<1>6. ASSUME NEW i \in 1 .. Len(y) PROVE Bare(y[i])
  <2>1. CASE i \in 1 .. Len(g)
    <3>1. i \in DOMAIN z
      BY <1>3, <2>1
    <3> QED BY <1>1, <1>3, <1>4, <2>1, <3>1
  <2>2. CASE i \in Len(g) + 1 .. Len(g) + Len(x)
    <3>1. i - Len(g) \in 1 .. Len(x)
      BY <1>3, <1>4, <2>2
    <3> QED BY <1>2, <1>4, <2>2, <3>1
  <2> QED BY <1>3, <1>4, <2>1, <2>2
<1>7. ASSUME NEW i \in 1 .. Len(c) PROVE Bare(c[i])
  <2> DEFINE j == Len(g) + i
  <2>1. j \in DOMAIN z /\ j \in Len(g) + 1 .. Len(g) + Len(c) /\ j - Len(g) = i
    BY <1>3
  <2> HIDE DEF j
  <2> QED BY <1>1, <1>3, <2>1
<1>8. ASSUME NEW i \in DOMAIN w PROVE Bare(w[i])
  <2>0. Len(y) \in Nat
    BY <1>3, <1>4
  <2>1. CASE i \in 1 .. Len(y)
    BY <1>5, <1>6, <2>1
  <2>2. CASE i \in Len(y) + 1 .. Len(y) + Len(c)
    <3>1. i - Len(y) \in 1 .. Len(c)
      BY <1>3, <2>0, <2>2
    <3> QED BY <1>5, <1>7, <2>2, <3>1
  <2> QED BY <1>3, <1>5, <2>0, <2>1, <2>2
<1>9. AddsUp(w, ids, texts)
  BY <1>8 DEF Bare, AddsUp
<1> QED BY <1>9 DEF w, y

LEMMA FailKeeps ==
  ASSUME Inv, ArgsInv, Fail
  PROVE  ArgsInv'
<1>1. /\ ~out.ended /\ ~chat.finalized
      /\ DOMAIN out = {"chain", "flying", "queue", "waiting", "ending", "ended", "conn", "wire"}
      /\ DOMAIN chat = {"agg", "texts", "any", "drop", "responded", "finalized"}
      /\ backend' = [backend EXCEPT !.child = "exiting"]
  BY DEF Inv, StateOK, Fail
<1>2. CASE chat.agg.calls # <<>>
  <2>1. Finalize(out)
    BY <1>2 DEF Fail
  <2> QED BY <1>1, <2>1, FinalizeOutKeeps
<1>3. CASE chat.agg.calls = <<>>
  <2> DEFINE w == out.wire
             q == out.queue
             c == out.chain
             g == Given
             x == <<Plain("error"), Plain("DONE")>>
  <2>1. /\ chat' = [chat EXCEPT !.responded = TRUE]
        /\ out' = [out EXCEPT !.queue = @ \o x]
        /\ adapter' = adapter
    BY <1>3 DEF Fail
  <2>2. OfKinds(x, {"error", "DONE"})
    <3>1. /\ Plain("error") \in Ev /\ Plain("error").kind = "error"
          /\ Plain("DONE") \in Ev /\ Plain("DONE").kind = "DONE"
      BY EventIs DEF Kinds
    <3>2. x \in Seq(Ev) /\ DOMAIN x = {1, 2} /\ x[1] = Plain("error") /\ x[2] = Plain("DONE")
      BY <3>1
    <3> HIDE DEF x
    <3> QED BY <3>1, <3>2 DEF OfKinds
  <2> HIDE DEF x
  <2>3. /\ w \in Seq(Ev) /\ q \in Seq(Ev) /\ c \in Seq(Ev) /\ g \in Seq(Ev) /\ x \in Seq(Ev)
    BY <2>2, OutIs, GivenIs DEF OfKinds
  <2>4. chat'.agg = chat.agg
    BY <1>1, <2>1
  <2>5. out'.ended = out.ended /\ out'.chain = c /\ out'.wire = w /\ out'.queue = q \o x
    BY <1>1, <2>1
  <2>6. Given' = g \o x
    <3>1. g = w \o q
      BY DEF Given
    <3>2. Given' = w \o (q \o x)
      BY <2>5 DEF Given
    <3> HIDE DEF w, q, g
    <3> QED BY <2>3, <3>1, <3>2
  <2>7. DOMAIN ToldIds = {}
    BY <1>3 DEF ToldIds, IdsOf
  <2>8. AddsUp(g \o c, ToldIds, Texts)
    BY <1>1, ArgsAre
  <2> HIDE DEF g, c, w, q
  <2>9. AddsUp((g \o x) \o c, ToldIds, Texts)
    <3>1. PICK ids, texts : ids = ToldIds /\ texts = Texts
      OBVIOUS
    <3> QED BY <2>2, <2>3, <2>7, <2>8, <3>1, NoCallsAddUp
  <2>10. backend'.style = backend.style /\ backend'.truth = backend.truth /\ backend'.sent = backend.sent
    BY <1>1, BackendStays
  <2> QED BY <1>1, <2>1, <2>4, <2>5, <2>6, <2>9, <2>10, CallsStay
<1> QED BY <1>2, <1>3

LEMMA ChildClosesKeeps ==
  ASSUME Inv, ArgsInv, ChildCloses
  PROVE  ArgsInv'
<1>1. /\ DOMAIN out = {"chain", "flying", "queue", "waiting", "ending", "ended", "conn", "wire"}
      /\ backend' = [backend EXCEPT !.child = "closed"]
      /\ out.ended \in BOOLEAN
  BY OutIs DEF ChildCloses
<1>2. backend'.style = backend.style /\ backend'.truth = backend.truth /\ backend'.sent = backend.sent
  BY <1>1, BackendStays
<1>3. CASE chat.finalized
  <2>1. UNCHANGED <<chat, adapter, out>>
    BY <1>3 DEF ChildCloses
  <2>2. Given' = Given
    BY <2>1 DEF Given
  <2>3. ~out.ended => AddsUp(Given \o out.chain, ToldIds, Texts)
    BY ArgsAre
  <2> QED BY <1>2, <2>1, <2>2, <2>3, CallsStay
<1>4. CASE ~chat.finalized
  <2> DEFINE c == out.chain
             e == Plain("text")
             g == Given
             bare == chat.any \/ (chat.texts = 0 /\ chat.agg.calls = <<>>)
             o == IF bare THEN out ELSE [out EXCEPT !.chain = Append(@, e)]
  <2>1. Finalize(o)
    BY <1>4 DEF ChildCloses
  <2>2. c \in Seq(Ev) /\ g \in Seq(Ev)
    BY GivenIs
  <2>3. /\ DOMAIN o = DOMAIN out /\ o.ended = out.ended /\ o.queue = out.queue
        /\ o.wire = out.wire /\ o.chain = IF bare THEN c ELSE Append(c, e)
    <3> HIDE DEF e, bare
    <3>1. CASE bare
      BY <3>1
    <3>2. CASE ~bare
      BY <1>1, <3>2
    <3> QED BY <3>1, <3>2
  <2>4. e \in Ev
    BY EventIs DEF Kinds
  <2> HIDE DEF bare, e, o
  <2>5. o.chain \in Seq(Ev)
    <3> HIDE DEF c
    <3>1. Append(c, e) \in Seq(Ev)
      BY <2>2, <2>4
    <3> QED BY <2>2, <2>3, <3>1
  <2>6. ~out.ended => AddsUp(Given \o o.chain, ToldIds, Texts)
    <3> SUFFICES ASSUME ~out.ended PROVE AddsUp(Given \o o.chain, ToldIds, Texts)
      OBVIOUS
    <3>1. PICK d, ids, texts : d = c /\ ids = ToldIds /\ texts = Texts
      OBVIOUS
    <3>2. Distinct(ids) /\ AddsUp(g \o d, ids, texts) /\ d \in Seq(Ev)
      BY <2>2, <3>1, ArgsAre
    <3> HIDE DEF g
    <3>3. AddsUp(g \o Append(d, e), ids, texts)
      BY <2>2, <3>2, UpsText DEF e
    <3>4. CASE bare
      BY <2>3, <3>1, <3>2, <3>4 DEF g
    <3>5. CASE ~bare
      BY <2>3, <3>1, <3>3, <3>5 DEF g
    <3> QED BY <3>4, <3>5
  <2> HIDE DEF g, c
  <2> QED BY <1>2, <1>4, <2>1, <2>3, <2>5, <2>6, FinalizeKeeps
<1> QED BY <1>3, <1>4

-----------------------------------------------------------------------------
(* What the client has read adds up.                                        *)

Starts(a, b) == Len(a) <= Len(b) /\ \A i \in 1 .. Len(a) : a[i] = b[i]

LEMMA StartsIsPrefix ==
  ASSUME NEW a \in Args, NEW b \in Args, Starts(a, b)
  PROVE  IsPrefix(a, b)
<1> DEFINE m == Len(a)
           x == SubSeq(b, 1, m)
<1>1. m \in Nat /\ Len(b) \in Nat /\ m <= Len(b) /\ (\A i \in 1 .. m : a[i] = b[i])
      /\ \A i \in 1 .. Len(b) : b[i] \in Tokens
  BY LenProperties, ElementOfSeq DEF Args, Starts
<1>2. SubSeq(a, 1, m) = a
  BY SubSeqFull DEF Args
<1>3. /\ x \in Seq(Tokens) /\ Len(x) = m /\ \A i \in 1 .. m : x[i] = b[i]
  <2>1. 1 \in Int /\ m \in Int /\ \A i \in 1 .. m : b[i] \in Tokens
    BY <1>1
  <2> HIDE DEF m
  <2>2. /\ SubSeq(b, 1, m) \in Seq(Tokens)
        /\ Len(SubSeq(b, 1, m)) = IF 1 <= m THEN m - 1 + 1 ELSE 0
        /\ \A i \in 1 .. m - 1 + 1 : SubSeq(b, 1, m)[i] = b[1 + i - 1]
    BY <2>1, SubSeqProperties
  <2> QED BY <1>1, <2>2
<1>4. a \in Seq(Tokens) /\ Len(a) = m
  BY DEF Args
<1> HIDE DEF x, m
<1>5. a = x
  BY <1>1, <1>3, <1>4, SeqEqual
<1> QED BY <1>1, <1>2, <1>5 DEF IsPrefix, x, m

\* The first part of the arguments, and no more.
LEMMA PartStarts ==
  ASSUME NEW t \in Args, NEW s \in Nat, s <= Len(t)
  PROVE  SubSeq(t, 1, s) \in Args /\ Len(SubSeq(t, 1, s)) = s /\ Starts(SubSeq(t, 1, s), t)
<1>1. Len(t) \in Nat /\ \A i \in 1 .. Len(t) : t[i] \in Tokens
  BY LenProperties, ElementOfSeq DEF Args
<1>2. /\ SubSeq(t, 1, s) \in Seq(Tokens)
      /\ Len(SubSeq(t, 1, s)) = IF 1 <= s THEN s - 1 + 1 ELSE 0
      /\ \A i \in 1 .. s - 1 + 1 : SubSeq(t, 1, s)[i] = t[1 + i - 1]
  <2>1. 1 \in Int /\ s \in Int /\ \A i \in 1 .. s : t[i] \in Tokens
    BY <1>1
  <2> QED BY <2>1, SubSeqProperties
<1> QED BY <1>2 DEF Starts, Args

LEMMA StartsOn ==
  ASSUME NEW a \in Args, NEW b \in Args, NEW c \in Args, Starts(a, b), Starts(b, c)
  PROVE  Starts(a, c)
<1>1. Len(a) \in Nat /\ Len(b) \in Nat /\ Len(c) \in Nat
  BY LenProperties DEF Args
<1>2. \A i \in 1 .. Len(a) : i \in 1 .. Len(b)
  BY <1>1 DEF Starts
<1> QED BY <1>1, <1>2 DEF Starts

LEMMA StartsJoined ==
  ASSUME NEW a \in Args, NEW b \in Args
  PROVE  Starts(a, a \o b) /\ a \o b \in Args
<1>1. /\ a \o b \in Seq(Tokens) /\ Len(a) \in Nat /\ Len(b) \in Nat /\ Len(a \o b) = Len(a) + Len(b)
      /\ \A i \in 1 .. Len(a) : (a \o b)[i] = a[i]
  BY Joined DEF Args
<1> QED BY <1>1 DEF Starts, Args

\* The deltas of an item only add to its arguments.
LEMMA SpellGrows ==
  ASSUME NEW z \in Seq(Ev), NEW id, NEW k \in 0 .. Len(z)
  PROVE  Starts(Spell(z, k, id), Spell(z, Len(z), id))
<1> DEFINE S == {i \in Nat : k + i <= Len(z) => Starts(Spell(z, k, id), Spell(z, k + i, id))}
<1>0. Len(z) \in Nat /\ k \in Nat /\ Len(z) - k \in Nat /\ k + (Len(z) - k) = Len(z)
  BY LenProperties
<1>1. 0 \in S
  <2>1. k + 0 = k
    BY <1>0
  <2> QED BY <2>1, SpellIs, LenProperties DEF Starts, Args
<1>2. ASSUME NEW i \in Nat, i \in S PROVE i + 1 \in S
  <2> SUFFICES ASSUME k + (i + 1) <= Len(z) PROVE Starts(Spell(z, k, id), Spell(z, k + (i + 1), id))
    OBVIOUS
  <2> DEFINE l == k + i
             j == k + (i + 1)
  <2>1. j \in 1 .. Len(z) /\ l \in Nat /\ j = l + 1 /\ l \in 0 .. Len(z)
    BY <1>0
  <2>2. Starts(Spell(z, k, id), Spell(z, l, id))
    BY <1>2, <2>1
  <2> HIDE DEF j, l
  <2>3. Spell(z, j, id) = Spell(z, l, id) \o Part(z[j], id)
    BY <2>1, SpellNext
  <2>4. PICK a, b, c : a = Spell(z, k, id) /\ b = Spell(z, l, id) /\ c = Part(z[j], id)
    OBVIOUS
  <2>5. a \in Args /\ b \in Args /\ c \in Args
    BY <2>1, <2>4, SpellIs, ElementOfSeq, PartsAre
  <2>6. Starts(b, b \o c) /\ b \o c \in Args
    BY <2>5, StartsJoined
  <2>7. PICK d : d = b \o c
    BY Zenon
  <2>8. Starts(a, d)
    BY <2>2, <2>4, <2>5, <2>6, <2>7, StartsOn
  <2> QED BY <2>3, <2>4, <2>7, <2>8 DEF j
<1>3. PICK n \in Nat : n = Len(z) - k
  BY <1>0, Zenon
<1> HIDE DEF S
<1>4. n \in S
  BY <1>1, <1>2, SetInduction
<1>5. k + n = Len(z)
  BY <1>0, <1>3
<1> QED BY <1>4, <1>5 DEF S

\* What holds of all events holds of those that were read: an item's deltas are a
\* beginning of its arguments.
LEMMA ReadAddsUp ==
  ASSUME NEW w \in Seq(Ev), NEW y \in Seq(Ev), NEW ids, NEW texts, AddsUp(w \o y, ids, texts),
         NEW i \in 1 .. Len(w), w[i].kind \in {"args", "argsDone", "itemDone"}
  PROVE  \E k \in DOMAIN ids :
           /\ ids[k] = w[i].id /\ Starts(Spell(w, i, ids[k]), texts[k]) /\ Spell(w, i, ids[k]) \in Args
           /\ w[i].kind # "args" => w[i].args = texts[k] /\ Spell(w, i, ids[k]) = texts[k]
<1> DEFINE z == w \o y
<1>1. /\ z \in Seq(Ev) /\ Len(w) \in Nat /\ Len(y) \in Nat /\ Len(z) = Len(w) + Len(y)
      /\ (\A j \in 1 .. Len(w) : z[j] = w[j]) /\ DOMAIN z = 1 .. Len(z)
  BY Joined, LenProperties
<1>2. i \in DOMAIN z /\ z[i] = w[i] /\ i \in Nat /\ i \in 0 .. Len(z) /\ i \in 0 .. Len(w)
      /\ \A j \in 1 .. i : w[j] = z[j]
  BY <1>1
<1> HIDE DEF z
<1>3. z[i].kind = "args" \/ Ended(z[i])
  BY <1>2 DEF Ended
<1>4. PICK k \in DOMAIN ids : ids[k] = z[i].id
  BY <1>2, <1>3 DEF AddsUp, z
<1>5. PICK id : id = ids[k]
  OBVIOUS
<1>6. Spell(w, i, id) = Spell(z, i, id)
  BY <1>2, SpellSame
<1>7. Starts(Spell(z, i, id), Spell(z, Len(z), id))
  BY <1>1, <1>2, SpellGrows
<1>8. Spell(z, Len(z), id) = texts[k]
  BY <1>5 DEF AddsUp, z
<1>9. Spell(w, i, id) \in Args
  BY <1>2, SpellIs
<1>10. ASSUME w[i].kind # "args" PROVE w[i].args = texts[k] /\ Spell(z, i, id) = texts[k]
  <2>1. Ended(z[i])
    BY <1>2, <1>3, <1>10
  <2> QED BY <1>2, <1>4, <1>5, <2>1 DEF AddsUp, z
<1> QED BY <1>2, <1>4, <1>5, <1>6, <1>7, <1>8, <1>9, <1>10

LEMMA SpelledIs ==
  ASSUME NEW i, NEW id
  PROVE  Spelled(i, id) = Spell(W, i, id)
BY DEF Spelled, Spell, Part

\* The item of a call that the chat handler knows.
LEMMA ItemOfCall ==
  ASSUME Inv, NEW n \in Names, NEW k \in DOMAIN ToldIds, ToldIds[k] = ItemName(n)
  PROVE  Id(n) \in DOMAIN chat.agg.alias /\ chat.agg.alias[Id(n)] = k /\ chat.agg.calls[k].args = Texts[k]
<1> DEFINE j == Alias(chat.agg, Id(n))
<1>1. Formed(chat.agg) /\ Chatted(chat.agg)
  BY DEF Inv, CallsInv, Chatted
<1>2. ToldIds \in Seq(Ident) /\ Distinct(ToldIds)
  BY <1>1, ChatDistinct DEF ToldIds
<1>3. DOMAIN ToldIds = DOMAIN chat.agg.calls /\ \A m \in DOMAIN ToldIds : ToldIds[m] = chat.agg.calls[m].id
  BY DEF ToldIds, IdsOf
<1>4. ToldIds[k] # NoName
  <2>1. ToldIds[k] \in Ident
    <3>1. \A m \in DOMAIN ToldIds : ToldIds[m] \in Ident
      BY <1>2, ElementOfSeq, LenProperties
    <3> QED BY <3>1
  <2> QED BY <2>1, NamesDiffer, Idents
<1>5. j # 0
  BY <1>4 DEF ItemName
<1>6. Id(n) \in DOMAIN chat.agg.alias /\ chat.agg.alias[Id(n)] = j
  BY <1>5 DEF Alias
<1>7. j \in DOMAIN ToldIds
  BY <1>1, <1>3, <1>6 DEF Formed
<1>8. ItemName(n) = ToldIds[j]
  BY <1>3, <1>5, <1>7 DEF ItemName
<1> HIDE DEF j
<1>9. j = k
  BY <1>2, <1>7, <1>8 DEF Distinct
<1>10. Texts[k] = chat.agg.calls[k].args
  BY <1>3 DEF Texts, TextsOf
<1> QED BY <1>6, <1>9, <1>10

LEMMA ArgumentsRead ==
  ASSUME Inv, ArgsInv
  PROVE  ArgumentsAddUp
<1>1. CASE out.ended
  BY <1>1 DEF ArgsInv
<1>2. CASE ~out.ended
  <2> DEFINE w == out.wire
             q == out.queue
             c == out.chain
             truth == backend.truth
             sent == backend.sent
  <2>1. w \in Seq(Ev) /\ q \in Seq(Ev) /\ c \in Seq(Ev) /\ DOMAIN w = 1 .. Len(w)
    BY OutIs, LenProperties
  <2>2. AddsUp((w \o q) \o c, ToldIds, Texts)
    BY <1>2, ArgsAre DEF Given
  <2> HIDE DEF w, q, c
  <2>3. (w \o q) \o c = w \o (q \o c)
    <3>1. Joins(w, q, c)
      BY <2>1, JoinedThree
    <3> QED BY <3>1 DEF Joins
  <2>4. PICK y : y = q \o c
    OBVIOUS
  <2>5. y \in Seq(Ev) /\ AddsUp(w \o y, ToldIds, Texts)
    BY <2>1, <2>2, <2>3, <2>4
  <2>6. W = w
    BY DEF W, w
  <2>7. ASSUME NEW n \in Names, NEW i \in DOMAIN W, W[i].id = ItemName(n),
               W[i].kind \in {"args", "argsDone", "itemDone"}
        PROVE  /\ IsPrefix(Spelled(i, W[i].id), truth[n])
               /\ W[i].kind # "args" =>
                    W[i].args = Spelled(i, W[i].id) /\ Len(Spelled(i, W[i].id)) = sent[n]
    <3>1. i \in 1 .. Len(w) /\ w[i].kind \in {"args", "argsDone", "itemDone"}
      BY <2>1, <2>6, <2>7
    <3>2. PICK ids, texts : ids = ToldIds /\ texts = Texts
      OBVIOUS
    <3>3. PICK k \in DOMAIN ids :
            /\ ids[k] = w[i].id /\ Starts(Spell(w, i, ids[k]), texts[k]) /\ Spell(w, i, ids[k]) \in Args
            /\ w[i].kind # "args" => w[i].args = texts[k] /\ Spell(w, i, ids[k]) = texts[k]
      BY <2>1, <2>5, <3>1, <3>2, ReadAddsUp
    <3>4. k \in DOMAIN ToldIds /\ ToldIds[k] = ItemName(n)
      BY <2>6, <2>7, <3>2, <3>3
    <3>5. /\ Id(n) \in DOMAIN chat.agg.alias /\ chat.agg.alias[Id(n)] = k
          /\ chat.agg.calls[k].args = texts[k]
      BY <3>2, <3>4, ItemOfCall
    <3>6. Hears(chat.agg, truth, sent)
      BY DEF ArgsInv
    <3>7. texts[k] = SubSeq(truth[n], 1, sent[n])
      BY <3>5, <3>6 DEF Hears, Knows
    <3>8. truth[n] \in Args /\ sent[n] \in Nat /\ sent[n] <= Len(truth[n])
      BY TruthIs DEF Inv, StateOK
    <3>9. PICK a, t, b : a = Spell(w, i, ids[k]) /\ t = truth[n] /\ b = texts[k]
      OBVIOUS
    <3>10. Spelled(i, W[i].id) = a
      BY <2>6, <3>3, <3>9, SpelledIs
    <3>11. PICK s : s = sent[n]
      OBVIOUS
    <3>11a. t \in Args /\ s \in Nat /\ s <= Len(t) /\ b = SubSeq(t, 1, s)
      BY <3>7, <3>8, <3>9, <3>11
    <3>12. SubSeq(t, 1, s) \in Args /\ Len(SubSeq(t, 1, s)) = s /\ Starts(SubSeq(t, 1, s), t)
      BY <3>11a, PartStarts
    <3>13. b \in Args /\ Len(b) = s /\ Starts(b, t)
      BY <3>11a, <3>12
    <3>14. a \in Args /\ Starts(a, b) /\ (w[i].kind # "args" => w[i].args = b /\ a = b)
      BY <3>3, <3>9
    <3>15. IsPrefix(a, t)
      <4>1. Starts(a, t)
        BY <3>11a, <3>13, <3>14, StartsOn
      <4> QED BY <3>11a, <3>14, <4>1, StartsIsPrefix
    <3> QED BY <2>6, <3>9, <3>10, <3>11, <3>13, <3>14, <3>15
  <2> QED BY <2>7 DEF ArgumentsAddUp
<1> QED BY <1>1, <1>2

\* The way to the socket: what is told stays the same, and of an ended response
\* what was read.
LEMMA SocketKeeps ==
  ASSUME Inv, ArgsInv, UNCHANGED <<backend, chat, adapter>>,
         out.ended \/ out'.ended => out'.ended /\ out'.wire = out.wire,
         ~out.ended /\ ~out'.ended => Given' \o out'.chain = Given \o out.chain
  PROVE  ArgsInv'
<1>1. ArgumentsAddUp
  BY ArgumentsRead
<1>2. ASSUME out'.ended PROVE ArgumentsAddUp'
  <2>1. W' = W /\ \A n \in Names : ItemName(n)' = ItemName(n)
    BY <1>2 DEF W, ItemName
  <2>2. \A i, id : Spelled(i, id)' = Spelled(i, id)
    BY <2>1 DEF Spelled
  <2> QED BY <1>1, <2>1, <2>2 DEF ArgumentsAddUp
<1>3. ~out.ended => AddsUp(Given \o out.chain, ToldIds, Texts)
  BY ArgsAre
<1>4. ~out.ended /\ ~out'.ended => AddsUp(Given' \o out'.chain, ToldIds, Texts)
  BY <1>3
<1>5. /\ chat'.agg = chat.agg /\ adapter'.agg = adapter.agg /\ adapter'.items = adapter.items
      /\ backend'.style = backend.style /\ backend'.truth = backend.truth /\ backend'.sent = backend.sent
  OBVIOUS
<1> QED BY <1>2, <1>4, <1>5, CallsStay

LEMMA WriteKeepsArgs ==
  ASSUME Inv, ArgsInv, NEW full \in BOOLEAN, Write(full)
  PROVE  ArgsInv'
<1> DEFINE w == out.wire
           q == out.queue
           e == Head(q)
<1>1. /\ DOMAIN out = {"chain", "flying", "queue", "waiting", "ending", "ended", "conn", "wire"}
      /\ w \in Seq(Ev) /\ q \in Seq(Ev) /\ q # <<>> /\ UNCHANGED <<backend, chat, adapter>>
  BY OutIs DEF Write, Flushable
<1>2. /\ out'.queue = Tail(q) /\ out'.chain = out.chain /\ out'.ended = out.ended
      /\ out'.wire = IF out.ended THEN w ELSE Append(w, e)
  BY <1>1 DEF Write
<1> HIDE DEF w, q, e
<1>3. Append(w, e) \o Tail(q) = w \o q
  BY <1>1, MovesOn DEF e
<1>4. ~out.ended => Given' = Given
  BY <1>2, <1>3 DEF Given, w, q
<1> QED BY <1>1, <1>2, <1>4, SocketKeeps DEF w

LEMMA DrainKeepsArgs ==
  ASSUME Inv, ArgsInv, Drain
  PROVE  ArgsInv'
<1>1. DOMAIN out = {"chain", "flying", "queue", "waiting", "ending", "ended", "conn", "wire"}
  BY OutIs
<1>2. /\ UNCHANGED <<backend, chat, adapter>> /\ out'.queue = out.queue /\ out'.chain = out.chain
      /\ out'.ended = out.ended /\ out'.wire = out.wire
  BY <1>1 DEF Drain
<1>3. Given' = Given
  BY <1>2 DEF Given
<1> QED BY <1>2, <1>3, SocketKeeps

LEMMA DisconnectKeepsArgs ==
  ASSUME Inv, ArgsInv, Disconnect
  PROVE  ArgsInv'
<1>1. DOMAIN out = {"chain", "flying", "queue", "waiting", "ending", "ended", "conn", "wire"}
  BY OutIs
<1>2. /\ UNCHANGED <<backend, chat, adapter>> /\ out'.queue = out.queue /\ out'.chain = out.chain
      /\ out'.ended = out.ended /\ out'.wire = out.wire
  BY <1>1 DEF Disconnect
<1>3. Given' = Given
  BY <1>2 DEF Given
<1> QED BY <1>2, <1>3, SocketKeeps

LEMMA EndRawKeepsArgs ==
  ASSUME Inv, ArgsInv, EndRaw
  PROVE  ArgsInv'
<1>1. DOMAIN out = {"chain", "flying", "queue", "waiting", "ending", "ended", "conn", "wire"}
  BY OutIs
<1>2. UNCHANGED <<backend, chat, adapter>> /\ out'.ended /\ out'.wire = out.wire
  BY <1>1 DEF EndRaw
<1> QED BY <1>2, SocketKeeps

LEMMA HandKeepsArgs ==
  ASSUME Inv, ArgsInv, Hand
  PROVE  ArgsInv'
<1> DEFINE w == out.wire
           q == out.queue
           c == out.chain
           e == Head(c)
<1>1. /\ DOMAIN out = {"chain", "flying", "queue", "waiting", "ending", "ended", "conn", "wire"}
      /\ w \in Seq(Ev) /\ q \in Seq(Ev) /\ c \in Seq(Ev)
  BY OutIs
<1>2. /\ UNCHANGED <<backend, chat, adapter>> /\ c # <<>>
      /\ out' = CASE e.kind = "end" -> [out EXCEPT !.chain = Tail(@), !.ended = TRUE]
                  [] e.kind # "end" /\ out.ended -> [out EXCEPT !.chain = Tail(@)]
                  [] OTHER -> [out EXCEPT !.chain = Tail(@), !.flying = TRUE, !.queue = Append(@, e)]
  BY DEF Hand, Chained
<1> HIDE DEF w, q, c, e
<1>3. CASE e.kind = "end"
  <2>1. out' = [out EXCEPT !.chain = Tail(@), !.ended = TRUE]
    BY <1>2, <1>3
  <2>2. out'.ended /\ out'.wire = out.wire
    BY <1>1, <2>1
  <2> QED BY <1>2, <2>2, SocketKeeps
<1>4. CASE e.kind # "end" /\ out.ended
  <2>1. out' = [out EXCEPT !.chain = Tail(@)]
    BY <1>2, <1>4
  <2>2. out'.ended /\ out'.wire = out.wire
    BY <1>1, <1>4, <2>1
  <2> QED BY <1>2, <2>2, SocketKeeps
<1>5. CASE e.kind # "end" /\ ~out.ended
  <2>1. out' = [out EXCEPT !.chain = Tail(@), !.flying = TRUE, !.queue = Append(@, e)]
    BY <1>2, <1>5
  <2>2. out'.ended = out.ended /\ out'.wire = w /\ out'.queue = Append(q, e) /\ out'.chain = Tail(c)
    BY <1>1, <2>1 DEF w, q, c
  <2>3. e \in Ev
    BY <1>1, <1>2, HeadAndTail DEF e
  <2>4. w \o Append(q, e) = Append(w \o q, e) /\ w \o q \in Seq(Ev)
    BY <1>1, <2>3, QueueOnWire
  <2>5. Given' = Append(Given, e) /\ Given \in Seq(Ev)
    BY <2>2, <2>4 DEF Given, w, q
  <2>6. Append(Given, e) \o Tail(c) = Given \o c
    BY <1>1, <1>2, <2>5, ChainOn DEF e
  <2>7. Given' \o out'.chain = Given \o out.chain
    BY <2>2, <2>5, <2>6 DEF c
  <2> QED BY <1>2, <1>5, <2>2, <2>7, SocketKeeps
<1> QED BY <1>3, <1>4, <1>5

LEMMA InitAddsUp == Init => ArgsInv
<1> SUFFICES ASSUME Init PROVE ArgsInv
  OBVIOUS
<1> DEFINE e == Plain("created")
           agg == EmptyAggregator
<1>1. /\ backend.sent = [n \in Names |-> 0]
      /\ chat.agg = agg /\ adapter.agg = agg /\ adapter.items = <<>>
      /\ out.chain = <<e>> /\ out.queue = <<>> /\ ~out.ended /\ out.wire = <<>>
  BY DEF Init
<1>2. agg.calls = <<>> /\ DOMAIN agg.alias = {} /\ DOMAIN agg.calls = {}
  BY DEF EmptyAggregator
<1>3. e \in Ev /\ e.kind = "created"
  BY EventIs DEF Kinds
<1> HIDE DEF agg, e
<1>4. \A n \in Names : backend.sent[n] = 0
  BY <1>1
<1>5. Hears(chat.agg, backend.truth, backend.sent) /\ Placed(chat.agg, backend.truth, backend.sent)
  <2>1. Hears(agg, backend.truth, backend.sent)
    BY <1>2, <1>4 DEF Hears
  <2>2. \A n \in Names : ~(0 < backend.sent[n])
    BY <1>4
  <2>3. Placed(agg, backend.truth, backend.sent)
    BY <2>2 DEF Placed
  <2> QED BY <1>1, <2>1, <2>3
<1>6. Settled(agg) /\ Whole(agg)
  BY <1>2 DEF Settled, Whole
<1>7. TextsOf(<<>>) = <<>> /\ LastsOf(<<>>) = <<>> /\ IdsOf(<<>>) = <<>>
  BY DEF TextsOf, LastsOf, IdsOf
<1>8. Texts = <<>> /\ ToldIds = <<>> /\ TextsOf(adapter.agg.calls) = Texts /\ LastsOf(adapter.items) = Texts
  BY <1>1, <1>2, <1>7 DEF Texts, ToldIds
<1>9. Given \o out.chain = <<e>>
  BY <1>1, <1>3 DEF Given
<1>10. AddsUp(<<e>>, <<>>, <<>>)
  <2>1. \A i \in DOMAIN <<e>> : <<e>>[i] = e
    BY <1>3
  <2>2. \A i \in DOMAIN <<e>> : <<e>>[i].kind # "args" /\ ~Ended(<<e>>[i])
    BY <1>3, <2>1 DEF Ended
  <2> QED BY <2>2 DEF AddsUp
<1> QED BY <1>1, <1>5, <1>6, <1>8, <1>9, <1>10 DEF ArgsInv

LEMMA StutterKeepsArgs ==
  ASSUME Inv, ArgsInv, UNCHANGED vars
  PROVE  ArgsInv'
<1>1. backend' = backend /\ chat' = chat /\ adapter' = adapter /\ out' = out
  BY DEF vars
<1>2. Given' = Given
  BY <1>1 DEF Given
<1> QED BY <1>1, <1>2, SocketKeeps

LEMMA NextAddsUp ==
  ASSUME Inv, ArgsInv, [Next /\ NoneLooksRepeated]_vars
  PROVE  ArgsInv'
<1>1. ASSUME NEW full \in BOOLEAN, Write(full) PROVE ArgsInv'
  BY <1>1, WriteKeepsArgs
<1>2. CASE Drain
  BY <1>2, DrainKeepsArgs
<1>3. CASE EndRaw
  BY <1>3, EndRawKeepsArgs
<1>4. CASE Hand
  BY <1>4, HandKeepsArgs
<1>5. CASE Disconnect
  BY <1>5, DisconnectKeepsArgs
<1>6. CASE TextDelta
  BY <1>6, TextDeltaKeeps
<1>7. ASSUME NEW n \in Names, NEW k \in 1 .. MaxChunk,
             k <= Len(backend.truth[n]) - backend.sent[n], ToolFragment(n, k)
      PROVE  ArgsInv'
  <2>1. NoneLooksRepeated \/ UNCHANGED vars
    OBVIOUS
  <2>2. CASE UNCHANGED vars
    BY <2>2, StutterKeepsArgs
  <2>3. CASE NoneLooksRepeated
    <3>1. ~LooksRepeated(n, k)
      BY <1>7, <2>3 DEF NoneLooksRepeated
    <3> QED BY <1>7, <3>1, ToolFragmentKeeps
  <2> QED BY <2>1, <2>2, <2>3
<1>8. ASSUME NEW n \in Names, ArgumentsDone(n) PROVE ArgsInv'
  BY <1>8, ArgumentsDoneKeeps
<1>9. ASSUME NEW named \in SUBSET Names, NEW text \in BOOLEAN, Message(named, text) PROVE ArgsInv'
  BY <1>9, MessageKeeps
<1>10. CASE TaskComplete
  BY <1>10, TaskCompleteKeeps
<1>11. CASE Fail
  BY <1>11, FailKeeps
<1>12. CASE ChildCloses
  BY <1>12, ChildClosesKeeps
<1>13. CASE UNCHANGED vars
  BY <1>13, StutterKeepsArgs
<1> QED BY <1>1, <1>2, <1>3, <1>4, <1>5, <1>6, <1>7, <1>8, <1>9, <1>10, <1>11, <1>12, <1>13 DEF Next

\* When no fragment equals the call's last one, nor begins as all that came
\* before it does, whatever the arguments repeat apart from that: what the client
\* reads of every item's argument deltas is a first part of its call's own
\* arguments, and the events that end it have all that was said of them
\* (stream-adapter.js emitToolCallDeltas and finalizeToolCalls behind both
\* aggregators).
THEOREM ArgumentsKept == PlainSpec => []ArgumentsAddUp
<1>1. Init => Inv /\ ArgsInv
  BY InitHolds, InitAddsUp
<1>2. Inv /\ ArgsInv /\ [Next /\ NoneLooksRepeated]_vars => Inv' /\ ArgsInv'
  BY NextKeeps, NextAddsUp
<1>3. Inv /\ ArgsInv => ArgumentsAddUp
  BY ArgumentsRead
<1> QED BY <1>1, <1>2, <1>3, PTL DEF PlainSpec
=============================================================================
