-------------------------- MODULE MC_UsbConnection --------------------------
(* Two connection objects for one device key: enough for a new object to  *)
(* be created while the previous one awaits its finalizer.                *)
EXTENDS UsbConnection, UsbDevices, LuaLibs, PtpCodes, FiniteSets, TLC

CONSTANTS o1, o2

MC_Obj == {o1, o2}

MC_Symmetry == Permutations(MC_Obj)

-----------------------------------------------------------------------------
(* UsbDevices' properties are about constants: stated of the initial      *)
(* states, TLC checks them as invariants of this run.                     *)

(* find_endpoints picks the bulk IN, bulk OUT and interrupt IN pipes the  *)
(* interface's descriptors describe.                                       *)
EndpointsFound == Init => EndpointsAsDescribed

(* A camera chdk.list_usb_devices lists is the one find_device_by_path,   *)
(* chdk.reset_device and get_con_devinfo reach by its names.              *)
ListedDevicesFound == Init => ListedDevicesReachable

(* luautil.c's luaL_register for Lua 5.3 registers a library the way Lua *)
(* 5.1's did: the same module table, error and stack effect, and no other *)
(* table's field overwritten.                                              *)
LibrariesRegistered == Init => RegistersAsLua51

(* chdkptp_registerlibs, from any state main can call it in, leaves every *)
(* library as a global and in _LOADED with its functions, the ptp codes,  *)
(* the error, connection and pimg metatables, and CHDK_CONNECTION_LIST a  *)
(* table with the __mode "kv" metatable that the connection registry of   *)
(* UsbConnection assumes; no value the caller left on the stack is lost.  *)
StartupRegistered == Init => \A S \in StartStates : RegistersLibs(S)
(* lu_pusharray_raw_u32 and _u16, which get_ptp_devinfo, the storage-id  *)
(* and the object-handle calls return their arrays with, push every value *)
(* unchanged, in order, in a build with 32-bit lua_Integer as in one with *)
(* 64-bit: a uint32_t at or above 2^31 is never wrapped negative.         *)
ArraysExact == Init => ArraysPushedExactly

(* Every "ptp" error object push_api_error_ptp throws carries its code   *)
(* and the description of that code's entry in ptp_rcodes_STD: each code *)
(* has at most one entry, every internal PTP_ERROR_* code the host raises *)
(* itself (ERROR_NOT_CONNECTED of CHDK_ENSURE_CONNECTED, ERROR_IO of a    *)
(* failed transfer) is described, and the name the Lua ptp table gives a  *)
(* code is the entry whose text the object carries.  A vendor or unknown  *)
(* code, and 0, read "Undefined Error".                                   *)
SampleCodes ==
    {ptp_rcodes_STD[i].error : i \in DOMAIN ptp_rcodes_STD} \cup {40961, 65535}
PtpErrorsDescribed ==
    Init =>
    /\ \A code \in SampleCodes :
          LET hits == {i \in DOMAIN ptp_rcodes_STD :
                          code # 0 /\ ptp_rcodes_STD[i].error = code}
              e == PtpErrorObject(code)
          IN  /\ Cardinality(hits) <= 1
              /\ e.etype = "ptp" /\ e.ptp_rc = code
              /\ e.msg = IF hits = {} THEN Txt("Undefined")
                         ELSE ptp_rcodes_STD[CHOOSE i \in hits : TRUE].txt
    /\ \A id \in DOMAIN InternalCode :
          ptp_strerror(InternalCode[id]) = Txt(id)
    /\ \A i \in DOMAIN PtpErrors :
          ptp_strerror(PtpErrors[i].error) = Txt(PtpErrors[i].id)
====
