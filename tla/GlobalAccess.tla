---------------------------- MODULE GlobalAccess ----------------------------
(***************************************************************************)
(* What the BPF code emitted for accesses to globals does to the maps    *)
(* translate_globals laid out (GlobalsLayout), compared with the script  *)
(* semantics of scalars, associative arrays and aggregates.  The code is *)
(* src/bpf-translate.cxx: emit_store (assignments), visit_symbol (scalar   *)
(* reads), visit_arrayindex (element reads), visit_array_in (the "in"      *)
(* operator), visit_delete_statement, and for aggregates emit_aggregation *)
(* (<<<) and visit_stat_op (@count, @sum).                                 *)
(*                                                                         *)
(* Each access builds a key on the stack, then calls one map helper.  The  *)
(* stack key of an array element is a function from frame offsets to the  *)
(* index values stored there; the helpers are those of the kernel (and of  *)
(* bpfinterp): an ARRAY map has the cells 0..max_entries-1 and fails a     *)
(* lookup or update outside them; a HASH map update with flags 0 inserts a *)
(* new key only while it holds fewer than max_entries keys.  The helpers'  *)
(* return codes are ignored by emit_store and visit_delete_statement, as   *)
(* in the code.  Concurrent CPUs are left to ProbeRuntime.                 *)
(***************************************************************************)
EXTENDS GlobalsLayout

CONSTANTS
  KeyLongs,      \* long index values
  KeyStrs,       \* string index values (model values)
  StoreLong,     \* a long stored (nonzero, so a store is seen)
  StoreStr,      \* a string stored (nonempty)
  EmptyStr,      \* the string "", all zero bytes
  \* String data are model values, compared only for equality.
  MaxOpsOne,     \* accesses in a script of one global
  MaxOpsTwo      \* accesses in a script of two globals

Default(d) == IF d.type = "long" THEN 0 ELSE EmptyStr

\* An access of the script to global v; ix is the index tuple (<<>> for a
\* scalar).  "delete" of a whole array is refused by the translator
\* ("unimplemented delete of array"), as is the delete of a string scalar
\* (the "goto err" of the type switch), so neither is an access here.
Access(kind, v, ix, x) == [kind |-> kind, v |-> v, ix |-> ix, x |-> x]

RECURSIVE Tuples(_)
Tuples(types) ==
  IF types = <<>> THEN {<<>>}
  ELSE {<<x>> \o t : x \in IF Head(types) = "long" THEN KeyLongs ELSE KeyStrs,
                      t \in Tuples(Tail(types))}

IndexTuples(d) == Tuples(d.index)

\* An aggregate takes "<<<" and the extractions @count and @sum; the others
\* (@min, @max, @variance) are refused by visit_stat_op, and @avg is left
\* out with the stapbpf_stat_get helper's division.
AccessesOf(ds, v) ==
  LET d == ds[v]
      ixs == IndexTuples(d)
      x == IF d.type = "string" THEN StoreStr ELSE StoreLong
  IN IF d.type = "stats"
       THEN {Access("agg", v, ix, x) : ix \in ixs}
            \cup {Access(k, v, ix, 0) : k \in {"count", "sum"}, ix \in ixs}
     ELSE {Access(k, v, ix, x) : k \in {"store", "read"}, ix \in ixs}
     \cup (IF d.index = <<>>
             THEN (IF d.type = "long" THEN {Access("delete", v, <<>>, 0)} ELSE {})
             ELSE {Access(k, v, ix, Default(d)) : k \in {"in", "delete"}, ix \in ixs})

Scripts == {ds \in DeclSeqs : Len(ds) \in 1..2}

-----------------------------------------------------------------------------
(* The emitted code *)

NoKey == [o \in {} |-> 0]

ElemSize(t) == IF t = "long" THEN 8 ELSE BPF_MAXSTRINGLEN

\* emit_long_arg / emit_str_arg: the index value stored at frame offset
\* ofs (an 8-byte slot for a long, a zero-padded BPF_MAXSTRINGLEN one for
\* a string), after the key built so far.
KeyLayout(ix, types) ==
  LET RECURSIVE Lay(_, _, _)
      Lay(element, ofs, key) ==
        IF element = 0 THEN key
        ELSE LET o == ofs - ElemSize(types[element])
             IN Lay(element - 1, o, (o :> ix[element]) @@ key)
  IN Lay(Len(types), 0, NoKey)

\* The "iterate over the elements" loop of each access: do { --element;
\* ... } while (element), from the last index down, key_ofs decreasing.
\* Mutant: visit_arrayindex placing the indexes from the first one up.
IndexKeyForward(ix, types) ==
  LET RECURSIVE Lay(_, _, _)
      Lay(element, ofs, key) ==
        IF element > Len(types) THEN key
        ELSE LET o == ofs - ElemSize(types[element])
             IN Lay(element + 1, o, (o :> ix[element]) @@ key)
  IN Lay(1, 0, NoKey)

StoreKey(ix, types) ==
  KeyLayout(ix, types)

IndexKey(ix, types) ==
  KeyLayout(ix, types)

InKey(ix, types) ==
  KeyLayout(ix, types)

DeleteKey(ix, types) ==
  KeyLayout(ix, types)

\* The map contents: a function from map id to a function from key to
\* value.  ARRAY and PERCPU_ARRAY maps start with every cell zeroed (0, or
\* ""); the hash maps start empty.  One CPU's copy of a per-CPU map.
MapsInit(g, ds) ==
  [id \in 0..(Len(g.maps) - 1) |->
     IF MapAt(g, id).type \in {"ARRAY", "PERCPU_ARRAY"}
       THEN [k \in 0..(MapAt(g, id).max - 1) |->
               IF MapAt(g, id).value = 8 THEN 0 ELSE EmptyStr]
       ELSE [k \in {} |-> 0]]

\* BPF_FUNC_map_lookup_elem: a pointer to the value, or NULL.
Lookup(m, id, k) ==
  IF k \in DOMAIN m[id] THEN [null |-> FALSE, val |-> m[id][k]] ELSE [null |-> TRUE, val |-> 0]

\* BPF_FUNC_map_update_elem with flags BPF_ANY (r4 = 0).
Update(g, m, id, k, x) ==
  IF \/ k \in DOMAIN m[id]
     \/ /\ MapAt(g, id).type \in {"HASH", "PERCPU_HASH"}
        /\ Cardinality(DOMAIN m[id]) < MapAt(g, id).max
    THEN [m EXCEPT ![id] = (k :> x) @@ @]
    ELSE m

\* BPF_FUNC_map_delete_elem.
DeleteElem(m, id, k) == [m EXCEPT ![id] = [j \in DOMAIN @ \ {k} |-> @[j]]]

\* The state of the emitted code: the maps, the values its reads and "in"
\* tests produced, and whether a probe has left by the exit block.
CState(m) == [maps |-> m, seen |-> <<>>, exited |-> FALSE]

Seen(c, r) == [c EXCEPT !.seen = Append(@, r)]

\* emit_store: a scalar is map_update_elem of its slot idx in the shared
\* long or string map; an element is map_update_elem of the stack key.
EmitStore(g, ds, c, a) ==
  LET s == g.globals[a.v]
  IN IF ds[a.v].index = <<>>
       THEN [c EXCEPT !.maps = Update(g, @, s.map, s.idx, a.x)]
       ELSE [c EXCEPT !.maps = Update(g, @, s.map, StoreKey(a.ix, ds[a.v].index), a.x)]

\* visit_symbol: map_lookup_elem of the slot; NULL jumps to the exit
\* block, which the verifier requires; otherwise the long, or the string
\* in the map.
VisitSymbol(g, ds, c, a) ==
  LET s == g.globals[a.v]
      r == Lookup(c.maps, s.map, s.idx)
  IN IF r.null THEN [c EXCEPT !.exited = TRUE] ELSE Seen(c, r.val)

\* visit_arrayindex: NULL evaluates to 0, a string element to its address
\* in the map.  A NULL string reaches its user through emit_string_copy,
\* whose null check copies "" (StringCopy, NullCheck and NullCopy).
VisitArrayindex(g, ds, c, a) ==
  LET r == Lookup(c.maps, g.globals[a.v].map, IndexKey(a.ix, ds[a.v].index))
  IN Seen(c, IF r.null THEN Default(ds[a.v]) ELSE r.val)

\* visit_array_in: d = 0 when the lookup is NULL, else 1.
VisitArrayIn(g, ds, c, a) ==
  LET r == Lookup(c.maps, g.globals[a.v].map, InKey(a.ix, ds[a.v].index))
  IN Seen(c, ~r.null)

\* visit_delete_statement: a long scalar is overwritten by 0 with
\* map_update_elem; an element is map_delete_elem of its key.
VisitDelete(g, ds, c, a) ==
  LET s == g.globals[a.v]
  IN IF ds[a.v].index = <<>>
       THEN [c EXCEPT !.maps = Update(g, @, s.map, s.idx, 0)]
       ELSE [c EXCEPT !.maps = DeleteElem(@, s.map, DeleteKey(a.ix, ds[a.v].index))]

\* unsigned and int are 32 bits wide in the code; TLC integers are 32-bit
\* signed, so both are modelled 16 bits wide, which wraps and converts
\* the same way for every offset within the 512-byte BPF stack.
UWidth == 16

\* The int an unsigned offset becomes when passed as int ofs.
IntOf(u) == IF u >= 2^(UWidth - 1) THEN u - 2^UWidth ELSE u

\* Mutant: the unsigned key_ofs used as the offset without the conversion.
StatKeyUnsigned(ix, types) ==
  LET RECURSIVE Lay(_, _, _)
      Lay(element, ofs, key) ==
        IF element = 0 THEN key
        ELSE LET o == (ofs - ElemSize(types[element])) % 2^UWidth
             IN Lay(element - 1, o, (o :> ix[element]) @@ key)
  IN Lay(Len(types), 0, NoKey)

\* visit_stat_op's copy of the element loop, whose key_ofs is unsigned:
\* every offset is computed modulo 2^32 (2^UWidth) and is an int again in the
\* call to emit_long_arg or emit_str_arg.
StatKey(ix, types) ==
  LET RECURSIVE Lay(_, _, _)
      Lay(element, ofs, key) ==
        IF element = 0 THEN key
        ELSE LET o == (ofs - ElemSize(types[element])) % 2^UWidth
             IN Lay(element - 1, o, (IntOf(o) :> ix[element]) @@ key)
  IN Lay(Len(types), 0, NoKey)

\* visit_stat_op passes a scalar aggregate's slot as an 8-byte long at
\* -8, where emit_aggregation stored a 4-byte one at -4; the 4-byte key
\* of the PERCPU_ARRAY maps is the long's low word on a little-endian
\* target.
ScalarStatKey(idx) == idx % 2^UWidth    \* the low word

\* emit_statmap_lookup: the field's value, 0 for a NULL lookup.
StatmapValue(m, id, key) ==
  LET r == Lookup(m, id, key) IN IF r.null THEN 0 ELSE r.val

\* emit_aggregation, reached from emit_store for "v <<< x": when the count
\* looked up is 0, count := 1 and sum := x; otherwise count and sum are
\* each looked up again, increased and written back with
\* emit_statmap_update.  The key is the slot index for a scalar, the
\* stack key of emit_store's loop for an element.
EmitAggregation(g, ds, c, a) ==
  LET sd == FieldsOf(g, a.v)
      key == IF ds[a.v].index = <<>> THEN g.globals[a.v].idx
             ELSE StoreKey(a.ix, ds[a.v].index)
      m == c.maps
      mc == Update(g, m, sd["count"], key, StatmapValue(m, sd["count"], key) + 1)
  IN [c EXCEPT !.maps =
        IF StatmapValue(m, sd["count"], key) = 0
          THEN Update(g, Update(g, m, sd["count"], key, 1), sd["sum"], key, a.x)
          ELSE Update(g, mc, sd["sum"], key, StatmapValue(mc, sd["sum"], key) + a.x)]

\* The stapbpf_stat_get helper of stapbpf: the record of the aggregate's
\* id in the stapbpf_aggregates section names its field maps; the value
\* is the field at the key (one CPU here), 0 when absent.
StatGet(g, m, agg, key, f) ==
  LET rec == CHOOSE r \in Range(Section(g)) : r[1] = agg
  IN StatmapValue(m, Deintern(rec[2])[f], key)

\* visit_stat_op: r1 = agg_idx (AggOf), r2 = the key on the stack, r3 =
\* the interned stat component; the helper's result is the value.
VisitStatOp(g, ds, c, a) ==
  LET key == IF ds[a.v].index = <<>> THEN ScalarStatKey(g.globals[a.v].idx)
             ELSE StatKey(a.ix, ds[a.v].index)
  IN Seen(c, StatGet(g, c.maps, AggOf(g, a.v), key, a.kind))

EmitAccess(g, ds, c, a) ==
  IF c.exited THEN c
  ELSE CASE a.kind = "store"                          -> EmitStore(g, ds, c, a)
         [] a.kind = "read" /\ ds[a.v].index = <<>> -> VisitSymbol(g, ds, c, a)
         [] a.kind = "read"                         -> VisitArrayindex(g, ds, c, a)
         [] a.kind = "in"                           -> VisitArrayIn(g, ds, c, a)
         [] a.kind = "delete"                       -> VisitDelete(g, ds, c, a)
         [] a.kind = "agg"                          -> EmitAggregation(g, ds, c, a)
         [] a.kind \in {"count", "sum"}             -> VisitStatOp(g, ds, c, a)

RunEmitted(ds, as) ==
  LET g == TranslateGlobals(ds)
  IN FoldLeft(LAMBDA c, a : EmitAccess(g, ds, c, a), CState(MapsInit(g, ds)), as)

-----------------------------------------------------------------------------
(* The reference: the script's associative arrays *)

AState(ds) ==
  [vals |-> [v \in DOMAIN ds |-> [ix \in {} |-> 0]], seen |-> <<>>]

\* An aggregate's count and sum after one more value x.
Aggregated(arr, ix, x) ==
  IF ix \in DOMAIN arr THEN [count |-> arr[ix].count + 1, sum |-> arr[ix].sum + x]
  ELSE [count |-> 1, sum |-> x]

ScriptAccess(ds, s, a) ==
  LET arr == s.vals[a.v]
      d == ds[a.v]
  IN CASE a.kind = "store"  -> [s EXCEPT !.vals[a.v] = (a.ix :> a.x) @@ arr]
       [] a.kind = "read"   -> [s EXCEPT !.seen = Append(@, IF a.ix \in DOMAIN arr THEN arr[a.ix] ELSE Default(d))]
       [] a.kind = "in"     -> [s EXCEPT !.seen = Append(@, a.ix \in DOMAIN arr)]
       [] a.kind = "delete" -> [s EXCEPT !.vals[a.v] = [ix \in DOMAIN arr \ {a.ix} |-> arr[ix]]]
       [] a.kind = "agg"    -> [s EXCEPT !.vals[a.v] = (a.ix :> Aggregated(arr, a.ix, a.x)) @@ arr]
       [] OTHER             -> [s EXCEPT !.seen = Append(@, IF a.ix \in DOMAIN arr THEN arr[a.ix][a.kind] ELSE 0)]

\* The scripts' states along the accesses, the initial one first.
ScriptStates(ds, as) ==
  [i \in 0..Len(as) |-> FoldLeft(LAMBDA s, a : ScriptAccess(ds, s, a), AState(ds), SubSeq(as, 1, i))]

\* No array ever holds more keys than the max_entries of its map.
WithinCapacity(ds, as) ==
  \A i \in 0..Len(as) : \A v \in DOMAIN ds :
    ds[v].index # <<>> => Cardinality(DOMAIN ScriptStates(ds, as)[i].vals[v]) <= MaxEntries(ds[v])

Runs(ds) == BoundedSeq(UNION {AccessesOf(ds, v) : v \in DOMAIN ds},
                       IF Len(ds) = 1 THEN MaxOpsOne ELSE MaxOpsTwo)

-----------------------------------------------------------------------------
(* Property, over every script of one or two globals *)

\* Every read, "in" test, @count and @sum of the emitted code sees what
\* the script's scalars, associative arrays and aggregates hold, and no
\* scalar read leaves the probe by visit_symbol's NULL exit, for any
\* accesses that keep each array within its max_entries.  This rests on
\* the five key-building loops (emit_store, visit_arrayindex,
\* visit_array_in, visit_delete_statement, visit_stat_op's unsigned one)
\* agreeing, on the slots and aggregate ids translate_globals hands out,
\* on emit_aggregation's two branches, and on delete writing 0 to the
\* right cell of a shared scalar map.
AccessesAgree ==
  \A ds \in Scripts : \A as \in Runs(ds) :
    WithinCapacity(ds, as) =>
      LET c == RunEmitted(ds, as)
      IN ~c.exited /\ c.seen = ScriptStates(ds, as)[Len(as)].seen

====
