---------------------------- MODULE MCCollector ----------------------------
(* Small heaps for Collector: each behaviour uses the objects of one arena. *)
EXTENDS Collector, TLC

CONSTANTS m, c, r, t, wv, wk, f, g, v, u, u2, s

MCTab     == {r, t, wv, wk}
MCWeakVal == {wv}
MCWeakKey == {wk}
MCFunc    == {f, g}
MCUpval   == {v}
MCUdata   == {u, u2}
MCStr     == {s}
MCThread  == {m, c}
Arena(objects, main, other, uses, watched) ==
  [objects |-> objects, depth |-> (m :> main @@ c :> other), uses |-> uses,
   watched |-> watched]

MCArenas ==
  {Arena({t, u}, 1, 0, {}, t),                        \* a table and userdata
   Arena({u, u2}, 1, 0, {}, u2),                      \* two finalizers
   Arena({u}, 2, 0, {"lj_gc_fullgc", "frames"}, u),   \* stale slots in a frame
   Arena({f, v, s}, 2, 0, {"lua_setupvalue"}, v),     \* a captured local
   Arena({c, f, v}, 1, 2, {}, v),                     \* captured in a thread
   Arena({wv, s}, 1, 0, {}, s),                       \* strings as weak values
   Arena({wv, u}, 1, 0, {}, u),                       \* userdata as weak values
   Arena({wk, u}, 1, 0, {}, wk)}                      \* userdata as weak keys

\* Two closures that share an upvalue, changed through one of them.
MCSharedUpvalue == {Arena({f, g, v, s}, 2, 0, {"lua_setupvalue"}, v)}
=============================================================================
