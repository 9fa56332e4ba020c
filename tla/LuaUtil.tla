------------------------------ MODULE LuaUtil ------------------------------
(***************************************************************************)
(* The Lua 5.1 module registration that src/luautil.c re-creates for Lua   *)
(* 5.3 and later: luaL_findtable, luaL_pushmodule and luaL_register, which *)
(* luaopen_chdk and luaopen_liveimg call for every library they export.   *)
(*                                                                         *)
(* The code is a sequence of Lua C API calls on the value stack, and the   *)
(* model keeps it at that level: a Lua state is the stack and a heap of    *)
(* tables, and each API call is an operator on it.  A dotted name is the   *)
(* sequence of its segments, and a table key is a sequence of segments     *)
(* too, so the field "a" is <<"a">> and _LOADED's key "a.b" is <<"a","b">>. *)
(* Size hints only size the new tables and are left out; no table here    *)
(* has a metatable, so lua_settable and lua_getfield are raw.             *)
(***************************************************************************)
EXTENDS Integers, Sequences, TLC

LOCAL INSTANCE SequencesExt

Nil == [k |-> "nil"]
Tab(r) == [k |-> "tab", r |-> r]
StrV(s) == [k |-> "str", s |-> s]
Fn(f) == [k |-> "fn", f |-> f]
Num(n) == [k |-> "num", n |-> n]
IsTable(v) == v.k = "tab"

(* LUA_REGISTRYINDEX is a pseudo-index below every stack index; the       *)
(* registry and the globals table are the first two tables of the heap.   *)
LUA_REGISTRYINDEX == -1001000
RegRef == 1
GRef == 2

(* A stack index, negative from the top, as a position.                   *)
AbsIndex(S, i) == IF i > 0 THEN i ELSE Len(S.stack) + 1 + i
At(S, i) == IF i = LUA_REGISTRYINDEX THEN Tab(RegRef)
            ELSE S.stack[AbsIndex(S, i)]
Top(S) == S.stack[Len(S.stack)]

Field(S, t, key) ==
    IF key \in DOMAIN S.heap[t.r] THEN S.heap[t.r][key] ELSE Nil
SetRaw(S, t, key, v) == [S EXCEPT !.heap[t.r] = (key :> v) @@ @]

-----------------------------------------------------------------------------
(* The Lua C API calls the code makes.                                    *)
LuaPush(S, v) == [S EXCEPT !.stack = Append(@, v)]
LuaPop(S, n) == [S EXCEPT !.stack = SubSeq(@, 1, Len(@) - n)]
LuaPushValue(S, i) == LuaPush(S, At(S, i))
LuaPushString(S, s) == LuaPush(S, StrV(s))
LuaPushGlobalTable(S) == LuaPush(S, Tab(GRef))
LuaRemove(S, i) == [S EXCEPT !.stack = RemoveAt(@, AbsIndex(S, i))]
LuaInsert(S, i) ==
    [S EXCEPT !.stack = InsertAt(SubSeq(@, 1, Len(@) - 1), AbsIndex(S, i),
                                 Top(S))]
LuaCreateTable(S) ==
    [S EXCEPT !.heap = (S.next :> [key \in {} |-> Nil]) @@ @,
              !.next = @ + 1,
              !.stack = Append(@, Tab(S.next))]
(* lua_rawget(L, i): pops the key, pushes t[key].                         *)
LuaRawGet(S, i) == LuaPush(LuaPop(S, 1), Field(S, At(S, i), Top(S).s))
(* lua_settable(L, i): t[stack[-2]] = stack[-1], pops both.               *)
LuaSetTable(S, i) ==
    LuaPop(SetRaw(S, At(S, i), S.stack[Len(S.stack) - 1].s, Top(S)), 2)
LuaGetField(S, i, key) == LuaPush(S, Field(S, At(S, i), key))
LuaSetField(S, i, key) == LuaPop(SetRaw(S, At(S, i), key, Top(S)), 1)

-----------------------------------------------------------------------------
(* One pass of luaL_findtable's do-while loop per segment: rawget the     *)
(* segment from the table on top; a nil gets a new table stored under it; *)
(* a non-table stops the walk with the rest of the name; then the walked  *)
(* table replaces its parent on the stack.                                *)
\* Fault-injected variant: the parent table is not removed from the stack.
RECURSIVE FindLoopKeepsParent(_, _)
FindLoopKeepsParent(S, segs) ==
    LET seg == <<Head(segs)>>
        got == LuaRawGet(LuaPushString(S, seg), -2)
        Continue(T) == IF Len(segs) > 1 THEN FindLoopKeepsParent(T, Tail(segs))
                   ELSE [st |-> T, rest |-> <<>>]
    IN  IF Top(got) = Nil
        THEN Continue(LuaSetTable(LuaPushValue(LuaPushString(
                      LuaCreateTable(LuaPop(got, 1)), seg), -2), -4))
        ELSE IF ~IsTable(Top(got)) THEN [st |-> LuaPop(got, 2), rest |-> segs]
        ELSE Continue(got)

RECURSIVE FindLoop(_, _)
FindLoop(S, segs) ==
    LET seg == <<Head(segs)>>
        got == LuaRawGet(LuaPushString(S, seg), -2)
        Continue(T) == LET U == LuaRemove(T, -2)
                   IN  IF Len(segs) > 1 THEN FindLoop(U, Tail(segs))
                       ELSE [st |-> U, rest |-> <<>>]
    IN  IF Top(got) = Nil
        THEN Continue(LuaSetTable(LuaPushValue(LuaPushString(
                      LuaCreateTable(LuaPop(got, 1)), seg), -2), -4))
        ELSE IF ~IsTable(Top(got)) THEN [st |-> LuaPop(got, 2), rest |-> segs]
        ELSE Continue(got)

(* luaL_findtable(L, idx, fname, szhint): rest is <<>> for NULL, or the   *)
(* problematic part of the name.                                          *)
FindTable(S, idx, segs) ==
    FindLoop(IF idx # 0 THEN LuaPushValue(S, idx) ELSE S, segs)

(* luaL_pushmodule: _LOADED[modname] if it is a table, otherwise the      *)
(* global path modname, created where missing and recorded in _LOADED;    *)
(* err is the "name conflict for module" error.                           *)
PushModule(S, mod) ==
    LET loaded == FindTable(S, LUA_REGISTRYINDEX, <<"_LOADED">>).st
        got == LuaGetField(loaded, -1, mod)
    IN  IF IsTable(Top(got))
        THEN [st |-> LuaRemove(got, -2), err |-> FALSE]
        ELSE LET f == FindTable(LuaPushGlobalTable(LuaPop(got, 1)), 0, mod)
             IN  IF f.rest # <<>> THEN [st |-> f.st, err |-> TRUE]
                 ELSE [st |-> LuaRemove(LuaSetField(LuaPushValue(f.st, -1),
                                                    -3, mod), -2),
                       err |-> FALSE]

(* luaL_setfuncs(L, l, 0): each function stored in the table on top.      *)
RECURSIVE SetFuncs(_, _)
SetFuncs(S, fns) ==
    IF fns = <<>> THEN S
    ELSE SetFuncs(LuaSetField(LuaPush(S, Fn(Head(fns))), -2, <<Head(fns)>>),
                  Tail(fns))

NoLib == <<>>

(* luaL_register(L, libname, l): with a name, push the module table and   *)
(* fill it; with NULL, fill the table already on top.                     *)
LuaLRegister(S, lib, fns) ==
    IF lib = NoLib THEN [st |-> SetFuncs(S, fns), err |-> FALSE]
    ELSE LET p == PushModule(S, lib)
         IN  IF p.err THEN p
             ELSE [st |-> SetFuncs(LuaInsert(p.st, -1), fns), err |-> FALSE]

-----------------------------------------------------------------------------
(* lu_pusharray_raw_u32 and _u16: a new table of count values at 1..count. *)
(* Widths are scaled: a uint32_t has UBits bits, a uint16_t half of them,  *)
(* and lua_Integer has ibits, UBits in a build with 32-bit integers and    *)
(* 2*UBits with 64-bit ones.  lua_pushinteger converts to lua_Integer,     *)
(* wrapping modulo 2^ibits; lua_pushnumber converts to a double, exact     *)
(* for these values.                                                      *)
UBits == 8

LuaInteger(v, ibits) ==
    LET x == v % (2 ^ ibits)
    IN  IF x >= 2 ^ (ibits - 1) THEN x - 2 ^ ibits ELSE x
LuaPushInteger(S, v, ibits) == LuaPush(S, Num(LuaInteger(v, ibits)))
LuaPushNumber(S, v) == LuaPush(S, Num(v))
(* lua_rawseti(L, i, n): t[n] = top, pops it.                              *)
LuaRawSetI(S, i, n) == LuaPop(SetRaw(S, At(S, i), <<n>>, Top(S)), 1)

\* Fault-injected variant: lua_pushinteger whatever LUA_MAXINTEGER is.
PushU32AsInteger(S, v, ibits) == LuaPushInteger(S, v, ibits)

(* #if (LUA_MAXINTEGER > UINT32_MAX): integer when it fits, else number.   *)
PushU32(S, v, ibits) ==
    IF 2 ^ (ibits - 1) - 1 > 2 ^ UBits - 1 THEN LuaPushInteger(S, v, ibits)
    ELSE LuaPushNumber(S, v)

(* The loop of both functions: lua_createtable, then per value the push  *)
(* of that function (PushU32 for _u32, lua_pushinteger for _u16) and     *)
(* lua_rawseti(L,-2,i+1).                                                 *)
PushArray(S, values, ibits, u32) ==
    LET Push(T, v) == IF u32 THEN PushU32(T, v, ibits)
                      ELSE LuaPushInteger(T, v, ibits)
        Fill[j \in 0..Len(values)] ==
            IF j = 0 THEN LuaCreateTable(S)
            ELSE LuaRawSetI(Push(Fill[j - 1], values[j]), -2, j)
    IN  Fill[Len(values)]

lu_pusharray_raw_u32(S, values, ibits) == PushArray(S, values, ibits, TRUE)
lu_pusharray_raw_u16(S, values, ibits) == PushArray(S, values, ibits, FALSE)

(* Reference: one new table on top holding exactly the values, in order.  *)
PushesArray(S, R, values) ==
    /\ R.stack = Append(S.stack, Top(R))
    /\ R.heap[Top(R).r] = [j \in {<<n>> : n \in DOMAIN values} |-> Num(values[j[1]])]

(* Arrays of up to two values at the edges of each width, in both builds. *)
U32Values == {0, 2 ^ (UBits - 1) - 1, 2 ^ (UBits - 1), 2 ^ UBits - 1}
U16Values == {0, 2 ^ (UBits \div 2 - 1), 2 ^ (UBits \div 2) - 1}
IntBits == {UBits, 2 * UBits}
Arrays(V) == {<<>>} \cup {<<v>> : v \in V} \cup {<<v, w>> : v, w \in V}

ArraysPushedExactly ==
    \A S \in {[stack |-> <<>>, heap |-> [x \in {} |-> 0], next |-> 1]},
       ibits \in IntBits :
        /\ \A a \in Arrays(U32Values) :
              PushesArray(S, lu_pusharray_raw_u32(S, a, ibits), a)
        /\ \A a \in Arrays(U16Values) :
              PushesArray(S, lu_pusharray_raw_u16(S, a, ibits), a)

-----------------------------------------------------------------------------
(* Reference: what Lua 5.1's luaL_register promises.  Walk follows a      *)
(* dotted path from table t through the heap.                             *)
RECURSIVE Walk(_, _, _)
Walk(S, t, segs) ==
    IF segs = <<>> THEN [kind |-> "tab", r |-> t.r]
    ELSE LET v == Field(S, t, <<Head(segs)>>)
         IN  CASE v = Nil      -> [kind |-> "missing"]
               [] IsTable(v)   -> Walk(S, v, Tail(segs))
               [] OTHER        -> [kind |-> "conflict"]

LoadedOf(S) == Field(S, Tab(RegRef), <<"_LOADED">>)

(* Every field of every table that existed keeps its value, except the    *)
(* (table, key) pairs in changed.                                         *)
Untouched(S, T, changed) ==
    \A x \in DOMAIN S.heap : \A key \in DOMAIN S.heap[x] :
        T.heap[x][key] = S.heap[x][key] \/ <<x, key>> \in changed

FnKeys(r, fns) == {<<r, <<f>>>> : f \in Range(fns)}

(* luaL_register(L, lib, l) from state S:                                 *)
(*  - with NULL, the table on top gets the functions and the stack is as  *)
(*    it was;                                                             *)
(*  - with a name, it fails with "name conflict" exactly when _LOADED has *)
(*    no table for the name and the global path runs into a non-table;    *)
(*  - otherwise exactly one value is pushed: the table _LOADED[lib] held, *)
(*    or else the table at the global path (an existing one is reused),   *)
(*    which is now both _LOADED[lib] (replacing a non-table there, such  *)
(*    as the true that require leaves) and reachable by the path, and     *)
(*    holds the functions; no other field of an existing table changes.  *)
RegisterAsLua51(S, lib, fns) ==
    LET R == LuaLRegister(S, lib, fns)
        pre == Field(S, LoadedOf(S), lib)
        w == Walk(S, Tab(GRef), lib)
        m == Top(R.st)
        Filled(t) == \A f \in Range(fns) : Field(R.st, t, <<f>>) = Fn(f)
    IN  IF lib = NoLib
        THEN /\ ~R.err /\ R.st.stack = S.stack /\ Filled(Top(S))
             /\ Untouched(S, R.st, FnKeys(Top(S).r, fns))
        ELSE /\ R.err = (~IsTable(pre) /\ w.kind = "conflict")
             /\ ~R.err =>
                  /\ R.st.stack = Append(S.stack, m) /\ IsTable(m)
                  /\ IF IsTable(pre) THEN m = pre
                     ELSE /\ w.kind = "tab" => m.r = w.r
                          /\ Walk(R.st, Tab(GRef), lib) = [kind |-> "tab", r |-> m.r]
                  /\ Field(R.st, LoadedOf(R.st), lib) = m
                  /\ Filled(m)
                  /\ Untouched(S, R.st,
                                FnKeys(m.r, fns) \cup {<<LoadedOf(S).r, lib>>})

-----------------------------------------------------------------------------
(* Bounded inputs.  The heap holds the registry (1) with _LOADED (3), the *)
(* globals (2), and two tables (4, 5) that may already be a module: the   *)
(* global "a" is absent, a string or table 4; table 4's field "b" is      *)
(* absent, a string or table 5; _LOADED may already hold a table for "a"  *)
(* and for "a.b".  Below the call the stack is empty or holds table 5,    *)
(* the metatable that luaopen_liveimg fills with luaL_register(L, NULL).  *)
FieldsOf(f) == [key \in {x \in DOMAIN f : f[x] # Nil} |-> f[key]]

LuaStates ==
    { [stack |-> st,
       heap |-> (1 :> (<<"_LOADED">> :> Tab(3))) @@
                (2 :> FieldsOf(<<"a">> :> ga)) @@
                (3 :> FieldsOf((<<"a">> :> la) @@ (<<"a", "b">> :> lab))) @@
                (4 :> FieldsOf(<<"b">> :> tb)) @@
                (5 :> [key \in {} |-> Nil]),
       next |-> 6]
      : st \in {<<>>, <<Tab(5)>>},
        ga \in {Nil, StrV(<<"x">>), Tab(4)},
        tb \in {Nil, StrV(<<"x">>), Tab(5)},
        la \in {Nil, StrV(<<"x">>), Tab(4)},
        lab \in {Nil, Tab(5)} }

Libs == {NoLib, <<"a">>, <<"a", "b">>, <<"c">>}
FnLists == {<<>>, <<"f">>, <<"b", "f">>}

RegistersAsLua51 ==
    \A S \in LuaStates, lib \in Libs, fns \in FnLists :
        (lib = NoLib /\ S.stack = <<>>) \/ RegisterAsLua51(S, lib, fns)

=============================================================================
