------------------------------ MODULE LiveData ------------------------------
(***************************************************************************)
(* The connection calls of src/chdkptp.c that hand camera data to Lua in   *)
(* heap buffers, and the lbufs that own them: get_live_data (which reuses  *)
(* the lbuf it is passed), getmem, capture_get_chunk, ptp_get_object and   *)
(* ptp_send_object; the live-view getters reading a frame lbuf and        *)
(* pimg_to_packed filling one (src/liveimg.c); the Lua collector          *)
(* finalizing lbufs.                                                       *)
(*                                                                         *)
(* The heap is a few blocks, each unallocated or allocated with a size.    *)
(* An lbuf is its bytes pointer and its len.  Every lbuf these calls make  *)
(* has LBUF_FL_FREE, so collecting one frees its bytes.  Bytes are never   *)
(* read for their values; a read or a write is recorded in fault when it   *)
(* leaves the allocation.                                                  *)
(***************************************************************************)
EXTENDS Integers

CONSTANTS
    LbufIds,        \* lbuf userdata objects Lua may hold at once
    Blocks,         \* heap blocks malloc may return
    DataSizes,      \* sizes of the data phase of a transaction
    Counts,         \* count arguments of getmem
    CallerSizes(_), \* sizes a caller passes to ptp_get_object for an object of a size
    PackedSizes,    \* width*height*depth of the pimgs Lua packs
    Flaky           \* a transaction may fail

VARIABLES
    connected,  \* ptp_cs->connected
    online,     \* the transport can carry a transaction to a camera with a session
    lbufs,      \* lbuf objects: live (reachable from Lua), bytes, len
    heap,       \* size of each allocated block, Unalloc if free
    fault       \* memory errors that have happened: history

dataVars == <<connected, online, lbufs, heap, fault>>

Unalloc == -1
NoBlock == "none"
Nil == "nil"     \* get_live_data's first argument is not an lbuf

DeadLbuf == [live |-> FALSE, bytes |-> NoBlock, len |-> 0]

FreeBlocks == {b \in Blocks : heap[b] = Unalloc}

(* A PTP transaction that does not return PTP_RC_OK: api_check_ptp_throw *)
(* throws and the call allocates nothing.  Without a transport it always  *)
(* fails; a flaky one may fail anyway.                                     *)
TransactFails == (Flaky \/ ~online) /\ UNCHANGED dataVars

-----------------------------------------------------------------------------
(* CHDK_ENSURE_CONNECTED: a call on a disconnected object throws before   *)
(* any transaction.                                                        *)
NotConnected == ~connected /\ UNCHANGED dataVars

(* lbuf_create(L, data, len, LBUF_FL_FREE): a new lbuf userdata owning    *)
(* data, pushed for the caller.                                            *)
LbufCreate(b, len) ==
    \E l \in LbufIds :
        /\ ~lbufs[l].live
        /\ lbufs' = [lbufs EXCEPT ![l] = [live |-> TRUE, bytes |-> b, len |-> len]]

(* free(p): a block already free is a double free.                         *)
FreeFault(b) == IF b # NoBlock /\ heap[b] = Unalloc THEN {"double_free"} ELSE {}

(* Reading n bytes from block b.                                           *)
ReadFault(b, n) == IF n > heap[b] THEN {"over_read"} ELSE {}

-----------------------------------------------------------------------------
(* Mutant of get_live_data's reuse: the lbuf keeps its old len.           *)
ReuseLbufKeepsLen(buf, b, size) ==
    /\ heap' = [heap EXCEPT ![lbufs[buf].bytes] = Unalloc, ![b] = size]
    /\ lbufs' = [lbufs EXCEPT ![buf].bytes = b]
    /\ fault' = fault \cup FreeFault(lbufs[buf].bytes)

(* get_live_data with an lbuf: free its bytes (it has LBUF_FL_FREE), take *)
(* the new data and its size, return the same lbuf.                        *)
ReuseLbuf(buf, b, size) ==
    /\ heap' = [heap EXCEPT ![lbufs[buf].bytes] = Unalloc, ![b] = size]
    /\ lbufs' = [lbufs EXCEPT ![buf].bytes = b, ![buf].len = size]
    /\ fault' = fault \cup FreeFault(lbufs[buf].bytes)

(* lbuf=con:get_live_data(lbuf,flags).  ptp_chdk_get_live_data mallocs   *)
(* the data phase; a zero-length phase gives NULL or a pointer from        *)
(* malloc(0).  A NULL data throws "no data"; a zero size throws "zero data *)
(* size" with data still allocated.                                        *)
GetLiveData ==
    \E arg \in {l \in LbufIds : lbufs[l].live} \cup {Nil} :
        \/ NotConnected
        \/ connected /\ TransactFails
        \/ /\ connected /\ online
           /\ \E b \in FreeBlocks, size \in DataSizes \cup {0}, null \in BOOLEAN :
                \/ /\ size = 0 /\ null
                   /\ UNCHANGED dataVars
                \/ /\ size = 0 /\ ~null
                   /\ heap' = [heap EXCEPT ![b] = 0]
                   /\ UNCHANGED <<connected, online, lbufs, fault>>
                \/ /\ size # 0 /\ arg # Nil
                   /\ ReuseLbuf(arg, b, size)
                   /\ UNCHANGED <<connected, online>>
                \/ /\ size # 0 /\ arg = Nil
                   /\ LbufCreate(b, size)
                   /\ heap' = [heap EXCEPT ![b] = size]
                   /\ UNCHANGED <<connected, online, fault>>

(* Mutant of getmem: the lbuf branch falls through to free(buf).          *)
GetmemLbufFreed(b, count) ==
    /\ LbufCreate(b, count)
    /\ UNCHANGED heap

(* getmem's "lbuf" destination: the lbuf owns buf.                        *)
GetmemLbuf(b, count) ==
    /\ LbufCreate(b, count)
    /\ heap' = [heap EXCEPT ![b] = count]

(* r=con:getmem(address,count[,dest]).  ptp_chdk_get_memory mallocs       *)
(* count bytes.  "string" copies count bytes, "number" reads an unsigned  *)
(* (4 bytes), "lbuf" hands buf to a new lbuf; every other dest frees buf. *)
Getmem ==
    \E dest \in {"string", "number", "lbuf", "other"}, count \in Counts :
        \/ NotConnected
        \/ connected /\ TransactFails
        \/ /\ connected /\ online
           /\ \E b \in FreeBlocks :
                IF dest = "lbuf"
                THEN GetmemLbuf(b, count) /\ UNCHANGED <<connected, online, fault>>
                ELSE /\ fault' = fault \cup
                                 (IF dest = "number" /\ count < 4
                                  THEN {"number_over_read"} ELSE {})
                     /\ UNCHANGED <<connected, online, lbufs, heap>>

(* chunk=con:capture_get_chunk(fmt): the chunk data, allocated by         *)
(* ptp_chdk_rcgetchunk, goes to a new lbuf of chunk.size.                 *)
CaptureGetChunk ==
    \/ NotConnected
    \/ connected /\ TransactFails
    \/ /\ connected /\ online
       /\ \E b \in FreeBlocks, size \in DataSizes :
            /\ LbufCreate(b, size)
            /\ heap' = [heap EXCEPT ![b] = size]
       /\ UNCHANGED <<connected, online, fault>>

(* lbuf=con:ptp_get_object(handle,size): ptp_getobject mallocs the object; *)
(* the lbuf's len is the caller's size, not the size transferred.          *)
PtpGetObject ==
    \/ NotConnected
    \/ connected /\ TransactFails
    \/ /\ connected /\ online
       /\ \E b \in FreeBlocks, objSize \in DataSizes :
            \E size \in CallerSizes(objSize) :
                /\ LbufCreate(b, size)
                /\ heap' = [heap EXCEPT ![b] = objSize]
       /\ UNCHANGED <<connected, online, fault>>

(* con:ptp_send_object(lbuf): sends lb->len bytes from lb->bytes.         *)
PtpSendObject ==
    \E l \in LbufIds :
        /\ lbufs[l].live
        /\ \/ NotConnected
           \/ /\ connected
              /\ fault' = fault \cup ReadFault(lbufs[l].bytes, lbufs[l].len)
              /\ UNCHANGED <<connected, online, lbufs, heap>>

(* liveimg.get_viewport_pimg / get_bitmap_pimg(pimg, frame_lb): the      *)
(* descriptors are checked against frame_lb->len and the decoder reads    *)
(* frame_lb->bytes below it (LiveImg's ReadsInFrame); the worst case      *)
(* reads all len bytes.                                                    *)
DecodeFrame ==
    \E l \in LbufIds :
        /\ lbufs[l].live
        /\ fault' = fault \cup ReadFault(lbufs[l].bytes, lbufs[l].len)
        /\ UNCHANGED <<connected, online, lbufs, heap>>

(* pimg_to_packed(L, alpha): an lbuf passed with len equal to data_size   *)
(* is reused, otherwise a new one of data_size is malloced (malloc(0) may *)
(* return NULL: "malloc failed"); the loops write data_size bytes.        *)
ToLbufPacked ==
    \E dataSize \in PackedSizes, arg \in {l \in LbufIds : lbufs[l].live} \cup {Nil} :
        IF arg # Nil /\ lbufs[arg].len = dataSize
        THEN /\ fault' = fault \cup
                         (IF dataSize > heap[lbufs[arg].bytes] THEN {"over_write"} ELSE {})
             /\ UNCHANGED <<connected, online, lbufs, heap>>
        ELSE \E b \in FreeBlocks, ok \in IF dataSize = 0 THEN BOOLEAN ELSE {TRUE} :
               IF ok
               THEN /\ LbufCreate(b, dataSize)
                    /\ heap' = [heap EXCEPT ![b] = dataSize]
                    /\ UNCHANGED <<connected, online, fault>>
               ELSE UNCHANGED dataVars

-----------------------------------------------------------------------------
(* The connection calls that keep no camera data: each throws on a        *)
(* disconnected object (CHDK_ENSURE_CONNECTED) or on a failed transaction *)
(* (api_check_ptp_throw), or pushes numbers, strings or tables built from *)
(* the reply.  The PTP storage and object calls free the arrays and       *)
(* strings the reply was unpacked into before they return, so none leaves *)
(* an lbuf or a block behind.                                              *)
Relay ==
    \/ NotConnected
    \/ connected /\ TransactFails
    \/ connected /\ online /\ UNCHANGED dataVars

(* camera_api_version, upload, download, capture_ready, script_support.   *)
CameraApiVersion == Relay
Upload == Relay
Download == Relay
CaptureReady == Relay
ScriptSupport == Relay

(* setmem is not implemented: it throws "not_implemented" on any object.  *)
Setmem == UNCHANGED dataVars

(* call_function: after CHDK_ENSURE_CONNECTED, 1 to 10 arguments or a     *)
(* critical "bad_arg" before any transaction.                             *)
CallFunction ==
    \/ NotConnected
    \/ connected /\ \E nargs \in 0..11 :
          IF nargs > 10 \/ nargs < 1 THEN UNCHANGED dataVars ELSE Relay

(* get_ptp_devinfo reads the deviceinfo connect fetched: no transaction.  *)
GetPtpDevinfo == NotConnected \/ (connected /\ UNCHANGED dataVars)

(* reset_counters and get_counters touch only ptp_cs's byte counters.     *)
ResetCounters == UNCHANGED dataVars
GetCounters == UNCHANGED dataVars

(* ptp_get_storage_ids, ptp_get_object_handles: the array is pushed and   *)
(* freed; ptp_get_storage_info, ptp_get_object_info: the strings are      *)
(* pushed, "(null)" for a NULL one, and freed; ptp_send_object_info:      *)
(* "expected table" or a missing required field throws before the        *)
(* transaction, and Filename points into the Lua string argument.         *)
PtpGetStorageIds == Relay
PtpGetStorageInfo == Relay
PtpGetObjectHandles == Relay
PtpGetObjectInfo == Relay
PtpSendObjectInfo ==
    \/ NotConnected
    \/ connected /\ \E argsOk \in BOOLEAN :
          IF argsOk THEN Relay ELSE UNCHANGED dataVars

(* The lbuf finalizer: an unreachable lbuf with LBUF_FL_FREE frees bytes. *)
Collect ==
    \E l \in LbufIds :
        /\ lbufs[l].live
        /\ lbufs' = [lbufs EXCEPT ![l] = DeadLbuf]
        /\ heap' = [heap EXCEPT ![lbufs[l].bytes] = Unalloc]
        /\ fault' = fault \cup FreeFault(lbufs[l].bytes)
        /\ UNCHANGED <<connected, online>>

(* con:connect(), con:disconnect() and the camera, reduced to the flags   *)
(* the calls test.                                                         *)
Connect ==
    /\ ~connected /\ connected' = TRUE /\ online' = TRUE
    /\ UNCHANGED <<lbufs, heap, fault>>

Disconnect ==
    /\ connected /\ connected' = FALSE /\ online' = FALSE
    /\ UNCHANGED <<lbufs, heap, fault>>

LinkLost == online /\ online' = FALSE /\ UNCHANGED <<connected, lbufs, heap, fault>>

Init ==
    /\ connected = FALSE
    /\ online = FALSE
    /\ lbufs = [l \in LbufIds |-> DeadLbuf]
    /\ heap = [b \in Blocks |-> Unalloc]
    /\ fault = {}

(* The Lua calls that make, fill or use lbufs.                            *)
Call ==
    \/ GetLiveData \/ Getmem \/ CaptureGetChunk \/ PtpGetObject
    \/ PtpSendObject \/ DecodeFrame \/ ToLbufPacked
    \/ CameraApiVersion \/ Upload \/ Download \/ CaptureReady \/ ScriptSupport
    \/ Setmem \/ CallFunction \/ GetPtpDevinfo \/ ResetCounters \/ GetCounters
    \/ PtpGetStorageIds \/ PtpGetStorageInfo \/ PtpGetObjectHandles
    \/ PtpGetObjectInfo \/ PtpSendObjectInfo

Next == Call \/ Collect \/ Connect \/ Disconnect \/ LinkLost

Spec == Init /\ [][Next]_dataVars

-----------------------------------------------------------------------------
TypeOK ==
    /\ connected \in BOOLEAN /\ online \in BOOLEAN
    /\ lbufs \in [LbufIds -> [live : BOOLEAN, bytes : Blocks \cup {NoBlock},
                              len : Nat]]
    /\ heap \in [Blocks -> Nat \cup {Unalloc}]
    /\ fault \subseteq {"double_free", "over_read", "over_write", "number_over_read"}

(* Every live lbuf owns an allocated block that no other live lbuf owns,  *)
(* and nothing was ever freed twice: get_live_data's reuse, getmem's      *)
(* early return for "lbuf" and the finalizer hand each block over exactly *)
(* once.                                                                   *)
OwnershipSound ==
    /\ \A l \in LbufIds : lbufs[l].live => heap[lbufs[l].bytes] # Unalloc
    /\ \A l, k \in LbufIds :
          (l # k /\ lbufs[l].live /\ lbufs[k].live) => lbufs[l].bytes # lbufs[k].bytes
    /\ "double_free" \notin fault

(* Every byte read from or written to an lbuf lies in the heap block      *)
(* behind it: ptp_send_object sends lb->len bytes, a live-view decoder    *)
(* reads the frame get_live_data last put in the lbuf, and pimg_to_packed *)
(* writes into an lbuf it reused because its len matched.                 *)
InAllocation == fault \cap {"over_read", "over_write"} = {}

(* getmem with dest "number" reads only bytes the camera sent: the        *)
(* unsigned it reads from buf lies within the count bytes fetched.        *)
GetmemReadsFetched == "number_over_read" \notin fault

(* Every allocated block is owned by a live lbuf: no call path leaves     *)
(* camera data that nothing will free.                                     *)
NoLeak ==
    \A b \in Blocks : heap[b] # Unalloc => \E l \in LbufIds : lbufs[l].live /\ lbufs[l].bytes = b

=============================================================================
