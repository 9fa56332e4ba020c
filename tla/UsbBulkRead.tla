----------------------------- MODULE UsbBulkRead -----------------------------
(***************************************************************************)
(* ptp_usb_read_func (src/chdkptp.c): a PTP read of max_size bytes split  *)
(* into bulk reads of at most PTPCAM_USB_URB bytes, each retried once     *)
(* when it returns 0.  The reads of one PTP transaction are modelled: the *)
(* data phase (max_size is the length the container announced) and then  *)
(* the read of the response container.                                    *)
(*                                                                         *)
(* The device side is libusb-0.1 bulk semantics: a read returns when it   *)
(* has toread bytes or the device ends a transfer with a short packet; a  *)
(* transfer whose length is a multiple of the packet size is ended by a   *)
(* zero-length packet; a read with nothing queued times out (< 0).  Byte  *)
(* values are abstracted to the transfer they came from.                  *)
(***************************************************************************)
EXTENDS Integers, Sequences, FiniteSets

CONSTANTS
    URB,        \* PTPCAM_USB_URB, scaled down
    Pkt,        \* bulk max packet size
    MaxSizes,   \* max_size values of a data-phase read
    RespLen,    \* length of the response container
    RespMax,    \* max_size of the read that fetches the response
    Flaky,      \* whether any bulk read may fail with an I/O error
    MaxQueued   \* bound on transfers left queued from earlier transactions

VARIABLES
    phase,      \* the read running ("data", "resp"), or between them
    maxSize,    \* max_size of the running call
    avail,      \* bytes the device sends in the data phase
    rbytes,     \* rbytes: bytes still to request
    toread,     \* toread of the last iteration
    off,        \* bytes - the caller's buffer
    readSize,   \* read_size
    readCount,  \* ptp_cs->read_count added by this call
    filled,     \* the buffer ranges written, tagged with their transfer
    dev,        \* the transfers the device has queued for the IN endpoint
    ret,        \* the value each read returned
    stale       \* transfers of an earlier transaction were still queued

vars == <<phase, maxSize, avail, rbytes, toread, off, readSize, readCount,
          filled, dev, ret, stale>>

Ok == IF Flaky THEN {FALSE, TRUE} ELSE {TRUE}
NoRet == -2

(* What the device queues for one transaction: the data transfer, a zero-  *)
(* length packet when it ends on a packet boundary, the response.          *)
Transfers(n) ==
    <<[len |-> n, tag |-> "data"]>>
    \o (IF n % Pkt = 0 THEN <<[len |-> 0, tag |-> "zlp"]>> ELSE <<>>)
    \o <<[len |-> RespLen, tag |-> "resp"]>>

(* One USB_BULK_READ of n bytes: [r |-> result, d |-> queue after,        *)
(* tag |-> transfer read from].                                            *)
BulkRead(d, n, ok) ==
    IF ~ok \/ d = <<>> THEN [r |-> -1, d |-> d, tag |-> "none"]
    ELSE LET h == Head(d)
         IN  IF h.len <= n THEN [r |-> h.len, d |-> Tail(d), tag |-> h.tag]
             ELSE [r |-> n, d |-> [d EXCEPT ![1].len = h.len - n],
                   tag |-> h.tag]

(* Mutant: no retry after a read that returned 0.                        *)
ReadNoRetry(d, n, ok1, ok2) == BulkRead(d, n, ok1)

(* The first read and, when it returned 0, the one retry.                 *)
ReadWithRetry(d, n, ok1, ok2) ==
    LET first == BulkRead(d, n, ok1)
    IN  IF first.r = 0 THEN BulkRead(first.d, n, ok2) ELSE first

(* Mutants: the chunk is not capped at PTPCAM_USB_URB; the last chunk is *)
(* a whole URB instead of the rbytes left.                                 *)
ChunkSizeUncapped(r) == r
ChunkSizeUrb(r) == URB

(* toread: PTPCAM_USB_URB, or the rbytes left when fewer.                 *)
ChunkSize(r) == IF r > URB THEN URB ELSE r

(* Entry of ptp_usb_read_func: rbytes = max_size, toread = 0.             *)
StartCall(size) ==
    /\ maxSize' = size /\ rbytes' = size /\ toread' = 0 /\ off' = 0
    /\ readSize' = 0 /\ readCount' = 0 /\ filled' = {}

(* ptp.c starts a transaction's data phase: the device queues its         *)
(* transfers behind whatever an earlier transaction left unread.          *)
StartData ==
    /\ phase = "idle"
    /\ \E size \in MaxSizes : \E n \in 1..size :
        /\ StartCall(size) /\ avail' = n /\ dev' = dev \o Transfers(n)
        /\ phase' = "data" /\ ret' = [data |-> NoRet, resp |-> NoRet]
        /\ stale' = (dev # <<>>)

(* One pass of the do-while loop of ptp_usb_read_func, and its return    *)
(* when the read failed or no bytes are left to request.                  *)
Iterate ==
    /\ phase \in {"data", "resp"}
    /\ \E ok1 \in Ok, ok2 \in Ok :
        LET o == off + toread
            n == ChunkSize(rbytes)
            rd == ReadWithRetry(dev, n, ok1, ok2)
            size == readSize + rd.r
            left == rbytes - URB
        IN  /\ dev' = rd.d
            /\ IF rd.r < 0
               THEN /\ ret' = [ret EXCEPT ![phase] = -1]
                    /\ phase' = IF phase = "data" THEN "dataDone" ELSE "done"
                    /\ UNCHANGED <<off, toread, rbytes, readSize, readCount,
                                   filled>>
               ELSE /\ off' = o /\ toread' = n /\ rbytes' = left
                    /\ readSize' = size /\ readCount' = readCount + n
                    /\ filled' = filled \cup
                                   {[lo |-> o, hi |-> o + rd.r, tag |-> rd.tag]}
                    /\ IF left > 0
                       THEN UNCHANGED <<phase, ret>>
                       ELSE /\ ret' = [ret EXCEPT ![phase] = size]
                            /\ phase' = IF phase = "data" THEN "dataDone"
                                        ELSE "done"
    /\ UNCHANGED <<maxSize, avail, stale>>

(* ptp.c reads the response container after the data phase.               *)
StartResp ==
    /\ phase = "dataDone"
    /\ StartCall(RespMax)
    /\ phase' = "resp"
    /\ UNCHANGED <<avail, dev, ret, stale>>

(* The transaction is over; the next one starts on the same endpoint.     *)
EndTransaction ==
    /\ phase = "done"
    /\ phase' = "idle"
    /\ UNCHANGED <<maxSize, avail, rbytes, toread, off, readSize, readCount,
                   filled, dev, ret, stale>>

Init ==
    /\ phase = "idle" /\ maxSize = 0 /\ avail = 0 /\ rbytes = 0
    /\ toread = 0 /\ off = 0 /\ readSize = 0 /\ readCount = 0
    /\ filled = {} /\ dev = <<>> /\ ret = [data |-> NoRet, resp |-> NoRet]
    /\ stale = FALSE

Next == StartData \/ Iterate \/ StartResp \/ EndTransaction

Spec == Init /\ [][Next]_vars

(* State constraint for TLC: transfers left unread pile up after failed  *)
(* reads; exploration stops beyond MaxQueued of them.                     *)
QueueBound == Len(dev) <= MaxQueued

-----------------------------------------------------------------------------
Tags == {"data", "zlp", "resp", "none"}

TypeOK ==
    /\ phase \in {"idle", "data", "dataDone", "resp", "done"}
    /\ toread \in 0..URB
    /\ dev \in Seq([len : Nat, tag : Tags])
    /\ filled \subseteq [lo : Nat, hi : Nat, tag : Tags]
    /\ ret \in [{"data", "resp"} -> Int]

(* Every bulk read lands inside the caller's buffer of max_size bytes.    *)
WritesInBuffer ==
    \A w \in filled : w.lo <= w.hi /\ w.hi <= maxSize

(* The bytes [0, ret) a successful call returns are bytes of the          *)
(* transfer it was reading, with no gap: a caller of read_func can only   *)
(* trust the count it returns.                                            *)
ReturnedIsPrefix(tag) ==
    \A i \in 0..(readSize - 1) :
        \E w \in filled : w.lo <= i /\ i < w.hi /\ w.tag = tag

ReturnsOnlyData ==
    phase = "dataDone" /\ ret.data >= 0 => ReturnedIsPrefix("data")

(* On a clean endpoint, a data phase of exactly the announced length is  *)
(* read whole and leaves the response for the next read, which gets it   *)
(* even when a zero-length packet is queued in front of it (the retry on *)
(* 0) and even when the data phase needed several URB-sized reads.        *)
ExactPhaseIntact ==
    ~stale /\ avail = maxSize =>
        /\ phase = "dataDone" /\ ret.data >= 0 =>
              ret.data = maxSize /\ ReturnedIsPrefix("data")
        /\ phase = "done" /\ ret.data = avail /\ ret.resp >= 0 =>
              ret.resp = RespLen /\ ReturnedIsPrefix("resp")

=============================================================================
