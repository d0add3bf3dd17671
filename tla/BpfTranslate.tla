---------------------------- MODULE BpfTranslate -----------------------------
(***************************************************************************)
(* translate_bpf_pass (src/bpf-translate.cxx): translate_globals lays out *)
(* the script's globals once, then every probe body is lowered against    *)
(* that layout, and output_interned_aggregates writes the aggregate table *)
(* from it.  The lowering's states are those of BpfLowering.  The layout  *)
(* of every script of at most MaxGlobals globals, the map accesses the    *)
(* lowered statements emit (GlobalAccess) and the blocks built for        *)
(* embedded code (EmbeddedAsm) do not depend on the lowering's state:    *)
(* they are constants of the pass, checked once, in the initial state.   *)
(* So is the pass itself (BpfPass): the order of its units and what an   *)
(* exception in any of them leaves behind.                                *)
(***************************************************************************)
EXTENDS BpfLowering, GlobalAccess, EmbeddedAsm, BpfPass

\* Whatever probe is being lowered, the globals its statements access
\* occupy map cells no other global, nor the internal EXIT and ERRORS
\* slots, can reach, inside their maps' bounds (translate_globals).
LayoutDisjoint == Init => GlobalsDisjoint

\* The agg_idx that visit_stat_op emits for an aggregate names exactly one
\* record of the stapbpf_aggregates section, whose maps are those
\* emit_aggregation updates (translate_globals, output_interned_aggregates).
AggregatesNamed == Init => AggregatesResolve

\* The reads, "in" tests, deletes and @count/@sum extractions the lowered
\* statements emit on globals (emit_store, visit_symbol, visit_arrayindex,
\* visit_array_in, visit_delete_statement, emit_aggregation,
\* visit_stat_op) observe the script's scalars, associative arrays and
\* aggregates, while no array outgrows its max_entries.
GlobalAccessesAgree == Init => AccessesAgree

\* The blocks visit_embeddedcode builds for an embedded-code block run it
\* as written: after the code already in the current block, its
\* instructions in the asm's order, jumps and fallthroughs to their
\* labels, leaving by the end, exit, terminate or jump_to_catch.
AsmBlocksRunAsWritten == Init => AsmLoweringCorrect

\* translate_bpf_pass returns 0 exactly when every unit has been
\* translated and written and elf_update succeeded, and 1 (with the
\* unlink) after any failure, whatever step throws; a runtime_error of a
\* unit is reported at that unit's token.
PassCommitsWhole == Init => PassAllOrNothing

====
