------------------------ MODULE MC_PtpIpConnection ------------------------
(* TLC instance of PtpIpConnection: two connection numbers, a 40-byte     *)
(* INIT_COMMAND_ACK, and recv sizes at each field boundary of it: 1 (the *)
(* length only), 8 (header, no connection number), 12 (no camera GUID),  *)
(* 28 (no version or name) and the whole packet.                          *)
EXTENDS PtpIpDataCalls, TLC

CONSTANTS i1, i2, l1, l2, b1, b2, b3

MC_Ids == {i1, i2}
(* Data calls: two lbufs (a frame and a packed image, or an object), three *)
(* heap blocks (get_live_data holds the new data before it frees the old  *)
(* frame), data phases of 24 and 80 bytes, getmem of one word, packed     *)
(* images of 0 (a killed pimg), 24 and 48 bytes, and ptp_get_object given the size           *)
(* get_object_info reported, as its comment asks.                         *)
MC_LbufIds == {l1, l2}
MC_Blocks == {b1, b2, b3}
MC_CallerSizes(s) == {s}

(* The caller of ptp_get_object passes any size.                          *)
MC_AnyCallerSize(s) == {24, 80}

(* Every property quantifies over all connection numbers, lbufs and       *)
(* blocks.                                                                *)
MC_Symmetry ==
    Permutations(MC_Ids) \cup Permutations(MC_LbufIds) \cup Permutations(MC_Blocks)
=============================================================================
