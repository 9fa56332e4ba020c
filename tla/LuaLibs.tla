------------------------------ MODULE LuaLibs ------------------------------
(***************************************************************************)
(* The start-up registration of chdkptp's Lua libraries: main calls       *)
(* chdkptp_registerlibs once on the fresh state, which sets up the error  *)
(* and connection metatables, the global ptp code table (init_ptp_codes), *)
(* every C library through luaL_register, the pimg metatable and the      *)
(* liveimg library (luaopen_liveimg), and the weak connection list that   *)
(* chdk_connection, get_connection_list_udata and chdk_reset_device read. *)
(*                                                                         *)
(* Each library's luaL_Reg array is abstracted to the names of its first  *)
(* entries; a C function is the value Fn(name).                           *)
(***************************************************************************)
EXTENDS LuaUtil

LOCAL INSTANCE SequencesExt

(* The registry names of chdkptp.c lines 129-135 and of the pimg type.    *)
CHDK_CONNECTION_META == "chkdptp.connection_meta"
CHDK_CONNECTION_LIST == "chkdptp.connection_list"
CHDK_CONNECTION_LIST_META == "chkdptp.connection_list_meta"
CHDK_API_ERROR_META == "chkdptp.api_error_meta"
LIVEIMG_PIMG_META == "liveimg.pimg_meta"

(* A metatable is kept in its table under a key no Lua string can be.     *)
MetaKey == <<"@metatable">>

(* The luaL_Reg arrays.                                                   *)
lua_errlib == <<"new", "throw">>
chdkconnection == <<"connect", "disconnect", "is_connected">>
chdklib == <<"connection", "host_api_version">>
lua_syslib == <<"sleep", "ostype">>
lua_corevar == <<"set_verbose", "get_verbose">>
lua_guisyslib == <<"init", "caps">>
liveimg_funcs == <<"get_bitmap_pimg", "get_viewport_pimg">>
pimg_methods == <<"to_lbuf_packed_rgb", "width", "kill">>
pimg_meta_methods == <<"__gc">>

(* ptp_get_error_by_index (ptp.c): the error definitions by index, each   *)
(* an id and a code, ending in NULL.                                      *)
PtpErrors == <<[id |-> "OK", error |-> 8193],
               [id |-> "GeneralError", error |-> 8194],
               [id |-> "ERROR_IO", error |-> 767]>>

-----------------------------------------------------------------------------
(* The further Lua C API calls these functions make.                      *)
(* luaL_newmetatable: the registry's table for tname if there is one,     *)
(* else a new table stored there; either way pushed.                      *)
LuaLNewMetatable(S, tname) ==
    LET old == Field(S, Tab(RegRef), <<tname>>)
        T == LuaCreateTable(S)
    IN  IF old # Nil THEN LuaPush(S, old)
        ELSE SetRaw(T, Tab(RegRef), <<tname>>, Top(T))
(* lua_setmetatable(L, i): pops a table and makes it the metatable of the *)
(* value at i (counted before the pop).                                   *)
LuaSetMetatable(S, i) == LuaPop(SetRaw(S, At(S, i), MetaKey, Top(S)), 1)
LuaSetGlobal(S, name) == LuaPop(SetRaw(S, Tab(GRef), <<name>>, Top(S)), 1)

LuaOk(S) == [st |-> S, err |-> FALSE]

(* The next call on the state R leaves, unless R raised a Lua error.  R   *)
(* is evaluated once and the call gets its value, so that a long sequence *)
(* of calls costs the sum of its steps.                                   *)
Then(R, F(_)) ==
    CHOOSE x \in {IF r.err THEN r ELSE F(r.st) : r \in {R}} : TRUE

-----------------------------------------------------------------------------
(* init_ptp_codes: ptp[id] = error for every definition.                  *)
InitPtpCodes(S) ==
    LET Fill[i \in 0..Len(PtpErrors)] ==
            IF i = 0 THEN LuaCreateTable(S)
            ELSE LuaSetField(LuaPush(Fill[i - 1], Num(PtpErrors[i].error)),
                             -2, <<PtpErrors[i].id>>)
    IN  LuaSetGlobal(Fill[Len(PtpErrors)], "ptp")

(* luaopen_liveimg: the pimg metatable with __gc and an __index table of  *)
(* the methods, both popped, then a new table and luaL_register "liveimg". *)
luaopen_liveimg(S) ==
    Then(Then(LuaLRegister(LuaLNewMetatable(S, LIVEIMG_PIMG_META), NoLib,
                           pimg_meta_methods),
              LAMBDA M : LuaLRegister(LuaCreateTable(M), NoLib, pimg_methods)),
         LAMBDA I : LuaLRegister(LuaCreateTable(LuaPop(LuaSetField(I, -2,
                                 <<"__index">>), 2)), <<"liveimg">>, liveimg_funcs))

\* Fault-injected variant: the metatable is never set on the list.
ConnectionListNotWeak(S) ==
    LET M == LuaSetField(LuaPushString(LuaLNewMetatable(LuaCreateTable(S),
                             CHDK_CONNECTION_LIST_META), "kv"), -2, <<"__mode">>)
    IN  LuaSetField(LuaPop(M, 1), LUA_REGISTRYINDEX, <<CHDK_CONNECTION_LIST>>)

(* The connection list: a new table whose metatable has __mode "kv",      *)
(* stored in the registry.                                                *)
ConnectionList(S) ==
    LET M == LuaSetField(LuaPushString(LuaLNewMetatable(LuaCreateTable(S),
                             CHDK_CONNECTION_LIST_META), "kv"), -2, <<"__mode">>)
    IN  LuaSetField(LuaSetMetatable(M, -2), LUA_REGISTRYINDEX,
                    <<CHDK_CONNECTION_LIST>>)

(* The five luaL_register calls made one after the other; a Lua error     *)
(* ends the sequence.                                                     *)
CoreLibs == <<[name |-> "chdk_connection", fns |-> chdkconnection],
              [name |-> "chdk", fns |-> chdklib],
              [name |-> "sys", fns |-> lua_syslib],
              [name |-> "corevar", fns |-> lua_corevar],
              [name |-> "guisys", fns |-> lua_guisyslib]>>

RECURSIVE RegisterEach(_, _)
RegisterEach(S, libs) ==
    IF libs = <<>> THEN LuaOk(S)
    ELSE Then(LuaLRegister(S, <<Head(libs).name>>, Head(libs).fns),
              LAMBDA T : RegisterEach(T, Tail(libs)))

ErrorMeta(S) ==
    LuaSetField(LuaPush(LuaLNewMetatable(S, CHDK_API_ERROR_META),
                        Fn("api_error_tostring")), -2, <<"__tostring">>)
ConnectionMeta(S) ==
    LuaSetField(LuaPush(LuaLNewMetatable(S, CHDK_CONNECTION_META),
                        Fn("chdk_connection_gc")), -2, <<"__gc">>)

chdkptp_registerlibs(S) ==
    Then(Then(Then(Then(LuaOk(ErrorMeta(S)),
                        LAMBDA T : LuaLRegister(T, <<"errlib">>, lua_errlib)),
                   LAMBDA T : RegisterEach(ConnectionMeta(InitPtpCodes(T)),
                                           CoreLibs)),
              luaopen_liveimg),
         LAMBDA T : LuaOk(ConnectionList(T)))

-----------------------------------------------------------------------------
(* What the rest of chdkptp.c relies on after start-up.                   *)
RegField(T, name) == Field(T, Tab(RegRef), <<name>>)
MetaOf(T, t) == Field(T, t, MetaKey)
HasFns(T, t, fns) == IsTable(t) /\ \A f \in Range(fns) : Field(T, t, <<f>>) = Fn(f)

AllLibs == <<[name |-> "errlib", fns |-> lua_errlib]>> \o CoreLibs \o
           <<[name |-> "liveimg", fns |-> liveimg_funcs]>>

RegistersLibs(S) ==
    \A R \in {chdkptp_registerlibs(S)} :
    LET T == R.st
        list == RegField(T, CHDK_CONNECTION_LIST)
        pimg == RegField(T, LIVEIMG_PIMG_META)
    IN  /\ ~R.err
        /\ SubSeq(T.stack, 1, Len(S.stack)) = S.stack
        /\ \A i \in DOMAIN AllLibs :
              LET g == Field(T, Tab(GRef), <<AllLibs[i].name>>)
              IN  /\ HasFns(T, g, AllLibs[i].fns)
                  /\ Field(T, LoadedOf(T), <<AllLibs[i].name>>) = g
        /\ \A i \in DOMAIN PtpErrors :
              Field(T, Field(T, Tab(GRef), <<"ptp">>), <<PtpErrors[i].id>>)
                  = Num(PtpErrors[i].error)
        /\ Field(T, RegField(T, CHDK_API_ERROR_META), <<"__tostring">>)
               = Fn("api_error_tostring")
        /\ Field(T, RegField(T, CHDK_CONNECTION_META), <<"__gc">>)
               = Fn("chdk_connection_gc")
        /\ HasFns(T, pimg, pimg_meta_methods)
        /\ HasFns(T, Field(T, pimg, <<"__index">>), pimg_methods)
        /\ IsTable(list)
        /\ MetaOf(T, list) = RegField(T, CHDK_CONNECTION_LIST_META)
        /\ Field(T, MetaOf(T, list), <<"__mode">>) = StrV("kv")

(* The states main can call it in: after luaL_openlibs and the luaopen_*  *)
(* calls before it, which may leave their tables on the stack and have    *)
(* registered other libraries (table 4 as the global and _LOADED "lfs").  *)
StartStates ==
    { [stack |-> st,
       heap |-> (1 :> (<<"_LOADED">> :> Tab(3))) @@
                (2 :> FieldsOf(<<"lfs">> :> lfs)) @@
                (3 :> FieldsOf(<<"lfs">> :> lfs)) @@
                (4 :> [key \in {} |-> Nil]),
       next |-> 5]
      : st \in {<<>>, <<Tab(4)>>, <<Tab(4), Tab(4)>>},
        lfs \in {Nil, Tab(4)} }

=============================================================================
