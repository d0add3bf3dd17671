---------------------------- MODULE GlobalsLayout ----------------------------
(***************************************************************************)
(* The placement of a script's global variables in BPF maps, as           *)
(* translate_globals (src/bpf-translate.cxx) computes it once, before any  *)
(* probe is lowered, and the stapbpf_aggregates section that              *)
(* output_interned_aggregates writes from it for the userspace side.      *)
(*                                                                         *)
(* translate_globals is a left fold over the declarations: TranslateGlobal *)
(* is one iteration of its loop, on the globals struct (bpf-internal.h)    *)
(* and the loop's long_map and str_map locals.  Map ids are the 0-based    *)
(* positions in glob.maps, as in the code.  A declaration is abstracted to *)
(* its value type, its index types (the arity is their number) and its     *)
(* maxsize; variables are named by their position in the script.          *)
(***************************************************************************)
EXTENDS Naturals, Sequences, SequencesExt, FiniteSets, TLC

CONSTANTS
  MaxGlobals,    \* most user globals in one script
  MaxSizes       \* declared array sizes (0: none given)

BPF_MAXSTRINGLEN == 64
BPF_MAXMAPENTRIES == 2048
NUM_INTERNALS == 2                          \* globals::EXIT, globals::ERRORS
StatFields == <<"count", "sum">>            \* globals::stat_fields

Decl ==
  [type: {"long", "string"}, index: {<<>>, <<"long">>, <<"string">>, <<"string", "long">>},
   maxsize: MaxSizes]
  \cup [type: {"stats"}, index: {<<>>, <<"long">>, <<"string">>}, maxsize: MaxSizes]

\* The script's globals: no scalar has a maxsize.
DeclSeqs ==
  {ds \in BoundedSeq(Decl, MaxGlobals) :
     \A i \in DOMAIN ds : ds[i].index = <<>> => ds[i].maxsize = 0}

MapDef(t, k, v, n) == [type |-> t, key |-> k, value |-> v, max |-> n]
Slot(m, i) == [map |-> m, idx |-> i]        \* map_slot: map -1 is_stat, idx -1 an array
NoFields == [f \in {} |-> 0]

\* (k :> x) @@ f: the std::unordered_map f with f[k] = x.
Put(f, k, x) == (k :> x) @@ f

MapAt(g, id) == g.maps[id + 1]

\* glob.internal_exit and glob.internal_errors, named apart from the user
\* globals 1..n.
InternalExit == 0
InternalErrors == -1

\* build_internal_globals: the EXIT and ERRORS slots of map 0, and the
\* perf event map 1.
BuildInternalGlobals ==
  [maps        |-> <<MapDef("HASH", 4, 8, NUM_INTERNALS), MapDef("PERF_EVENT_ARRAY", 4, 4, 0)>>,
   globals     |-> (InternalExit :> Slot(0, 0)) @@ (InternalErrors :> Slot(0, 1)),
   scalarStats |-> NoFields,
   arrayStats  |-> NoFields,
   aggregates  |-> NoFields,
   long_map    |-> -1,
   str_map     |-> -1]

\* Append one map per stat field, of type t; the stats_map of their ids.
AddFieldMaps(g, t, k, n) ==
  [g EXCEPT !.maps = @ \o [i \in DOMAIN StatFields |-> MapDef(t, k, 8, n)]]
FieldPos(f) == CHOOSE i \in DOMAIN StatFields : StatFields[i] = f
FieldIds(g) == [f \in ToSet(StatFields) |-> Len(g.maps) + FieldPos(f) - 1]

\* Mutant: this_idx = max_entries, the ++ dropped.
ScalarSlotNoBump(g, v, which, valueSize) ==
  LET g1 == IF g[which] < 0
              THEN [g EXCEPT !.maps = Append(@, MapDef("ARRAY", 4, valueSize, 0)),
                             ![which] = Len(g.maps)]
              ELSE g
  IN [g1 EXCEPT !.globals = Put(@, v, Slot(g1[which], MapAt(g1, g1[which]).max))]

\* A scalar long or string: the shared ARRAY map, created on first use,
\* and this_idx = max_entries++.
ScalarSlot(g, v, which, valueSize) ==
  LET g1 == IF g[which] < 0
              THEN [g EXCEPT !.maps = Append(@, MapDef("ARRAY", 4, valueSize, 0)),
                             ![which] = Len(g.maps)]
              ELSE g
      id == g1[which]
  IN [g1 EXCEPT !.maps[id + 1].max = @ + 1,
                !.globals = Put(@, v, Slot(id, MapAt(g1, id).max))]

\* A scalar aggregate: the per-field PERCPU_ARRAY maps, created on first
\* use, each grown by one element; this_idx is the first field's old size.
ScalarStatSlot(g, v) ==
  LET g1 == IF g.scalarStats = NoFields
              THEN [AddFieldMaps(g, "PERCPU_ARRAY", 4, 0) EXCEPT !.scalarStats = FieldIds(g)]
              ELSE g
      idx == MapAt(g1, g1.scalarStats[StatFields[1]]).max
  IN [g1 EXCEPT !.maps = [i \in DOMAIN @ |->
                            IF i - 1 \in Range(g1.scalarStats)
                              THEN [@[i] EXCEPT !.max = @ + 1] ELSE @[i]],
                !.globals = Put(@, v, Slot(-1, idx))]

KeySize(d) == FoldLeft(LAMBDA s, t : s + IF t = "long" THEN 8 ELSE BPF_MAXSTRINGLEN, 0, d.index)
MaxEntries(d) == IF d.maxsize > 0 THEN d.maxsize ELSE BPF_MAXMAPENTRIES

\* Mutant: the id assigned once, before the field loop, as size().
AggregateIdsOnce(a, v) == Put(a, v, Cardinality(DOMAIN a))

\* glob.aggregates[v] = 1 + glob.aggregates.size(), once per stat field
\* (the size is read before operator[] inserts v, C++17 order).
AggregateIds(a, v) ==
  FoldLeft(LAMBDA b, f : Put(b, v, 1 + Cardinality(DOMAIN b)), a, StatFields)

\* An array of aggregates: one PERCPU_HASH map per stat field, and an
\* agg_idx for the stapbpf_aggregates section.
ArrayStatSlot(g, v, d) ==
  [AddFieldMaps(g, "PERCPU_HASH", KeySize(d), MaxEntries(d)) EXCEPT
     !.arrayStats = Put(@, v, FieldIds(g)),
     !.aggregates = AggregateIds(@, v),
     !.globals = Put(@, v, Slot(-1, -1))]

\* Any other array: a HASH map of its own.
ArraySlot(g, v, d) ==
  [g EXCEPT !.maps = Append(@, MapDef("HASH", KeySize(d),
                                      IF d.type = "long" THEN 8 ELSE BPF_MAXSTRINGLEN,
                                      MaxEntries(d))),
            !.globals = Put(@, v, Slot(Len(g.maps), -1))]

\* One iteration of the loop of translate_globals, for variable v.
TranslateGlobal(g, v, d) ==
  CASE d.index = <<>> /\ d.type = "long"   -> ScalarSlot(g, v, "long_map", 8)
    [] d.index = <<>> /\ d.type = "string" -> ScalarSlot(g, v, "str_map", BPF_MAXSTRINGLEN)
    [] d.index = <<>> /\ d.type = "stats"  -> ScalarStatSlot(g, v)
    [] d.index # <<>> /\ d.type = "stats"  -> ArrayStatSlot(g, v, d)
    [] OTHER                               -> ArraySlot(g, v, d)

TranslateGlobals(ds) ==
  FoldLeftDomain(LAMBDA g, v : TranslateGlobal(g, v, ds[v]), BuildInternalGlobals, ds)

\* intern_stats_map / deintern_stats_map (src/bpf-shared-globals.h).
Intern(sm) == [i \in DOMAIN StatFields |-> sm[StatFields[i]]]
Deintern(ism) ==
  LET n == IF Len(ism) < Len(StatFields) THEN Len(ism) ELSE Len(StatFields)
  IN [f \in {StatFields[i] : i \in 1..n} |-> ism[FieldPos(f)]]

\* output_interned_aggregates: the section's records <<agg_id, fields>>,
\* the scalar_stats one (id 0) first when there is one, then one per
\* entry of glob.aggregates.
Section(g) ==
  (IF g.scalarStats = NoFields THEN <<>> ELSE <<<<0, Intern(g.scalarStats)>>>>)
  \o LET vs == SetToSeq(DOMAIN g.aggregates)
     IN [i \in DOMAIN vs |-> <<g.aggregates[vs[i]], Intern(g.arrayStats[vs[i]])>>]

-----------------------------------------------------------------------------
(* What the lowering reads from the layout *)

\* The map cells a global's accesses touch (bpf-internal.h, map_slot): one
\* element of a shared map for a scalar, a whole map for an array; an
\* aggregate the same cells of each of its stat field maps.  Index -1
\* stands for every key of the map.
Cells(g, v) ==
  LET s == g.globals[v]
  IN IF s.map >= 0 THEN {<<s.map, s.idx>>}
     ELSE LET sm == IF s.idx >= 0 THEN g.scalarStats ELSE g.arrayStats[v]
          IN {<<sm[f], s.idx>> : f \in DOMAIN sm}

Clash(c, d) == c[1] = d[1] /\ (c[2] = d[2] \/ -1 \in {c[2], d[2]})

StatVars(g) == {v \in DOMAIN g.globals : g.globals[v].map = -1}

\* The agg_idx visit_stat_op passes for v, and the stats_map that
\* emit_aggregation updates for it.
AggOf(g, v) == IF g.globals[v].idx >= 0 THEN 0 ELSE g.aggregates[v]
FieldsOf(g, v) == IF g.globals[v].idx >= 0 THEN g.scalarStats ELSE g.arrayStats[v]

-----------------------------------------------------------------------------
(* Properties, over every script of at most MaxGlobals globals *)

\* No two globals, the internal EXIT and ERRORS slots included, share a map
\* cell; every scalar slot is inside its map's max_entries; no user global
\* lands on the perf event map; each cell's map holds values of the
\* global's type.  This rests on every max_entries++ of translate_globals
\* and on the lazily created long_map, str_map and scalar_stats maps.
GlobalsDisjoint ==
  \A ds \in DeclSeqs :
    LET g == TranslateGlobals(ds)
    IN /\ \A v, w \in DOMAIN g.globals : v # w =>
            \A c \in Cells(g, v), d \in Cells(g, w) : ~Clash(c, d)
       /\ \A v \in DOMAIN g.globals : \A c \in Cells(g, v) :
            /\ c[1] \in 0..(Len(g.maps) - 1)
            /\ c[2] >= 0 => c[2] < MapAt(g, c[1]).max
       /\ \A v \in DOMAIN ds : \A c \in Cells(g, v) :
            /\ c[1] \notin {0, 1}
            /\ MapAt(g, c[1]).value = IF ds[v].type = "string" THEN BPF_MAXSTRINGLEN ELSE 8
            /\ ds[v].index # <<>> => MapAt(g, c[1]).key = KeySize(ds[v])

\* Every aggregate the BPF code names by its agg_idx has exactly one record
\* of that id in the stapbpf_aggregates section, and that record
\* deinterns to the very stat field maps emit_aggregation writes.  Ids
\* come from glob.aggregates[v] = 1 + size() inside the field loop, and 0
\* is the scalar_stats record.
AggregatesResolve ==
  \A ds \in DeclSeqs :
    LET g == TranslateGlobals(ds)
        sec == Section(g)
    IN \A v \in StatVars(g) :
         /\ Cardinality({i \in DOMAIN sec : sec[i][1] = AggOf(g, v)}) = 1
         /\ \A i \in DOMAIN sec : sec[i][1] = AggOf(g, v) => Deintern(sec[i][2]) = FieldsOf(g, v)

====
