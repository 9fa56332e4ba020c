--------------------------- MODULE PtpIpDataCalls ---------------------------
(***************************************************************************)
(* The data calls of LiveData made on a PTP/IP connection object.          *)
(* CHDK_ENSURE_CONNECTED reads the ptp_cs->connected that connect,         *)
(* disconnect and a failed handshake of PtpIpConnection set, and a         *)
(* transaction reaches the camera only over a command link that is up to a *)
(* camera holding the session.  Lua calls run one at a time, so a call is  *)
(* made only between the steps of connect (pc = "idle") on a live object;  *)
(* the collector may finalize an lbuf at any time.                         *)
(***************************************************************************)
EXTENDS PtpIpConnection

CONSTANTS LbufIds, Blocks, DataSizes, Counts, CallerSizes(_), PackedSizes

VARIABLES lbufs, heap, fault

(* What LiveData's connected and online are on this object.              *)
IsConnected == con.connected

Online == chan.cmd = "ok" /\ cam.session

Data == INSTANCE LiveData WITH connected <- IsConnected, online <- Online

allVars == <<vars, lbufs, heap, fault>>

(* A Lua call on the connection or on an lbuf.  It leaves the connection  *)
(* as it is (stated first, so that TLC knows con' when LiveData compares  *)
(* connected before and after).                                           *)
DataCall == alive /\ pc = "idle" /\ UNCHANGED vars /\ Data!Call

(* The collector finalizes an unreachable lbuf, also inside connect.      *)
LbufGc == UNCHANGED vars /\ Data!Collect

(* A step of the connection, its handshake or the camera.                 *)
ConnectionStep == Next /\ UNCHANGED <<lbufs, heap, fault>>

CallsInit == Init /\ Data!Init

CallsNext == ConnectionStep \/ DataCall \/ LbufGc

CallsSpec == CallsInit /\ [][CallsNext]_allVars

(* The handshake's fairness of PtpIpConnection's FairSpec, on the         *)
(* composed state.                                                         *)
FairCallsSpec ==
    CallsSpec /\ WF_allVars(ConnectStep /\ UNCHANGED <<lbufs, heap, fault>>)

-----------------------------------------------------------------------------
(* Each lbuf that get_live_data, getmem, capture_get_chunk,               *)
(* ptp_get_object or pimg_to_packed returns owns its own allocated block,  *)
(* and no block is freed twice, across connects, disconnects, failed      *)
(* transactions and camera power-offs (LiveData's OwnershipSound).        *)
OwnershipSound == Data!OwnershipSound

(* No read or write through an lbuf leaves its block: ptp_send_object, a  *)
(* live-view decode of the frame get_live_data last stored, and           *)
(* pimg_to_packed reusing an lbuf by its len (LiveData's InAllocation).   *)
InAllocation == Data!InAllocation

(* Every allocated block belongs to a live lbuf: no data call leaves      *)
(* camera data nobody frees (LiveData's NoLeak).                          *)
NoLeak == Data!NoLeak

(* getmem(address, count, "number") reads no byte beyond the count it     *)
(* fetched (LiveData's GetmemReadsFetched).                               *)
GetmemReadsFetched == Data!GetmemReadsFetched

=============================================================================
