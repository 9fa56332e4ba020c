--------------------------- MODULE UsbConnection ---------------------------
(***************************************************************************)
(* Connection objects of chdkptp (src/chdkptp.c) for one USB device key    *)
(* "usb:bus/dev": the weak registry CHDK_CONNECTION_LIST, the Lua garbage  *)
(* collector and the __gc finalizer chdk_connection_gc, and the methods    *)
(* connect, disconnect, is_connected, plus chdk.reset_device and           *)
(* chdk.set_usb_reset_on_close.                                            *)
(*                                                                         *)
(* Every Lua-callable C function runs to completion without yielding, so  *)
(* each is one atomic action.  What the device and the OS answer inside    *)
(* it is a nondeterministic choice: while the device is flaky any transfer *)
(* or usb_open may fail.  The OS view keeps what the code relies on or     *)
(* leaks: which objects hold an open usb_dev_handle, which handle holds    *)
(* the claim on the PTP interface (a claim is per handle: usb_claim_       *)
(* interface by a second handle fails with EBUSY, and every transfer needs *)
(* the claim), and which PTP session the device has open.                  *)
(***************************************************************************)
EXTENDS Naturals, FiniteSets

CONSTANTS
    Obj,     \* identities of connection userdata (PTPParams + PTP_CON_STATE)
    NoObj,   \* empty registry slot, no open session, unclaimed interface
    Stale,   \* a session left open on the device by a client that crashed
    Stuck    \* interface claimed by a handle that no object refers to

VARIABLES
    conlist,     \* CHDK_CONNECTION_LIST[key]: the weak table entry
    alive,       \* objects whose userdata and ptp_cs are allocated
    referenced,  \* objects the Lua program holds a strong reference to
    finalizing,  \* unreachable objects whose __gc has not run yet
    connected,   \* ptp_cs->connected
    usb,         \* device and OS state, a UsbState record
    resetOnClose,\* the global usb_reset_on_close
    flaky        \* environment: the device may fail any transfer

vars == <<conlist, alive, referenced, finalizing, connected, usb,
          resetOnClose, flaky>>

(* handle: objects whose ptp_cs->usb.handle is open; dead: the subset     *)
(* opened on a device instance that has since been unplugged.             *)
UsbState == [present: BOOLEAN,
             session: Obj \cup {NoObj, Stale},
             claim:   Obj \cup {NoObj, Stuck},
             handle:  SUBSET Obj,
             dead:    SUBSET Obj]

\* Outcomes a transfer to the device can have.
Ok == IF flaky THEN BOOLEAN ELSE {TRUE}

\* Transfers through o's handle reach the device.
CanIO(u, o) == o \in u.handle /\ o \notin u.dead /\ u.claim = o

\* o stops referring to its handle without closing it: the OS handle stays
\* open, and with it any claim it holds.
Orphan(u, o) ==
    [u EXCEPT !.claim  = IF @ = o THEN Stuck ELSE @,
              !.handle = @ \ {o},
              !.dead   = @ \ {o}]

(* init_ptp_usb: usb_open overwrites ptp_cs->usb.handle, then             *)
(* usb_claim_interface, whose result is not checked.                      *)
UsbOpen(u, o) ==
    LET v == Orphan(u, o)
    IN  [v EXCEPT !.handle = @ \cup {o},
                  !.claim  = IF @ = NoObj THEN o ELSE @]

\* Fault-injected variant: the Device Reset request is never sent.
DeviceResetDropped(u, o, ok) == u

\* usb_ptp_device_reset: the PTP Device Reset request closes the session.
DeviceReset(u, o, ok) ==
    IF CanIO(u, o) /\ ok THEN [u EXCEPT !.session = NoObj] ELSE u

(* usb_reset: a reset of the device's port.  It needs only an open handle *)
(* on the device, not the claim: the device drops its PTP session and     *)
(* every handle, this one or another object's, loses its claim.           *)
UsbReset(u, o) ==
    IF o \in u.handle /\ o \notin u.dead
    THEN [u EXCEPT !.session = NoObj, !.claim = NoObj]
    ELSE u

(* close_usb: usb_release_interface, usb_reset when usb_reset_on_close is *)
(* set, then usb_close.                                                   *)
CloseUsb(u, o) ==
    LET v == IF resetOnClose THEN UsbReset(u, o) ELSE u
    IN  [v EXCEPT !.claim  = IF @ = o THEN NoObj ELSE @,
                  !.handle = @ \ {o},
                  !.dead   = @ \ {o}]

\* ptp_opensession succeeds: the device has no session open.
OpenSessionOk(u, o, ok) == CanIO(u, o) /\ u.session = NoObj /\ ok

\* ptp_closesession
CloseSession(u, o, ok) ==
    IF CanIO(u, o) /\ ok THEN [u EXCEPT !.session = NoObj] ELSE u

(* close_camera_usb: a device that find_device_by_path does not find is   *)
(* left alone, its handle included.                                       *)
CloseCameraUsb(u, o, ok) ==
    IF u.present THEN CloseUsb(CloseSession(u, o, ok), o) ELSE u

OpenCameraDevUsb(u, o, ok) ==
    LET u1 == UsbOpen(u, o)
        s1 == OpenSessionOk(u1, o, ok[2])
        u2 == CloseUsb(DeviceReset(u1, o, ok[3]), o)
        u3 == UsbOpen(u2, o)
        s2 == ~s1 /\ ok[4] /\ OpenSessionOk(u3, o, ok[5])
        open == CASE s1        -> [u1 EXCEPT !.session = o]
                  [] s2        -> [u3 EXCEPT !.session = o]
                  [] ok[4]     -> u3
                  [] OTHER     -> u2
    IN  CASE ~ok[1]             -> [usb |-> u, ok |-> FALSE]
          [] ~(s1 \/ s2)        -> [usb |-> open, ok |-> FALSE]
          [] ~ok[6]             -> [usb |-> CloseCameraUsb(open, o, ok[7]),
                                    ok |-> FALSE]
          [] OTHER              -> [usb |-> open, ok |-> TRUE]

(* check_connection_status_usb: GET_DEVICE_STATUS must succeed and the    *)
(* device must report 0x2001; a flaky device may fail or report busy.     *)
CheckStatusUsb(u, o, ok) == CanIO(u, o) /\ ok

\* close_connection: close the camera if connected, clear the flag.
CloseConnection(o, ok) ==
    IF connected[o] THEN CloseCameraUsb(usb, o, ok) ELSE usb

-----------------------------------------------------------------------------
(* Lua API calls.  The caller must hold the object it calls a method on.  *)

(* Fault-injected variants of chdk_connection: the registry lookup is    *)
(* skipped; a userdata identity still allocated is handed out again.      *)
ConnectionNoLookup ==
    /\ \E o \in Obj \ alive:
         /\ alive' = alive \cup {o}
         /\ referenced' = referenced \cup {o}
         /\ conlist' = o
         /\ connected' = [connected EXCEPT ![o] = FALSE]
    /\ UNCHANGED <<finalizing, usb, resetOnClose, flaky>>

ConnectionReusesIdentity ==
    /\ conlist = NoObj
    /\ \E o \in Obj:
         /\ alive' = alive \cup {o}
         /\ referenced' = referenced \cup {o}
         /\ conlist' = o
         /\ connected' = [connected EXCEPT ![o] = FALSE]
    /\ UNCHANGED <<finalizing, usb, resetOnClose, flaky>>

(* chdk.connection(devspec): return the registered object for the key,   *)
(* or create a disconnected one and register it.                          *)
Connection ==
    \/ /\ conlist # NoObj
       /\ referenced' = referenced \cup {conlist}
       /\ UNCHANGED <<conlist, alive, finalizing, connected, usb,
                      resetOnClose, flaky>>
    \/ /\ conlist = NoObj
       /\ \E o \in Obj \ alive:
            /\ alive' = alive \cup {o}
            /\ referenced' = referenced \cup {o}
            /\ conlist' = o
            /\ connected' = [connected EXCEPT ![o] = FALSE]
       /\ UNCHANGED <<finalizing, usb, resetOnClose, flaky>>

(* con:connect(): connect_cam_usb.  Already connected, or no device found *)
(* by find_device_by_path, throws without changing anything.              *)
Connect(o) ==
    /\ o \in referenced
    /\ ~connected[o]
    /\ usb.present
    /\ \E ok \in [1..7 -> Ok]:
         LET r == OpenCameraDevUsb(usb, o, ok)
         IN  /\ usb' = r.usb
             /\ connected' = [connected EXCEPT ![o] = r.ok]
    /\ UNCHANGED <<conlist, alive, referenced, finalizing, resetOnClose, flaky>>

\* Fault-injected variant: the connected flag is not cleared.
DisconnectKeepsFlag(o) ==
    /\ o \in referenced
    /\ \E ok \in Ok: usb' = CloseConnection(o, ok)
    /\ UNCHANGED <<conlist, alive, referenced, finalizing, connected,
                   resetOnClose, flaky>>

\* con:disconnect(): close_connection.
Disconnect(o) ==
    /\ o \in referenced
    /\ \E ok \in Ok: usb' = CloseConnection(o, ok)
    /\ connected' = [connected EXCEPT ![o] = FALSE]
    /\ UNCHANGED <<conlist, alive, referenced, finalizing, resetOnClose, flaky>>

(* con:is_connected(): if the flag is set, replace it by the status check *)
(* (nothing is closed when the check fails).                              *)
IsConnected(o) ==
    /\ o \in referenced
    /\ connected[o]
    /\ \E ok \in Ok:
         connected' = [connected EXCEPT ![o] = CheckStatusUsb(usb, o, ok)]
    /\ UNCHANGED <<conlist, alive, referenced, finalizing, usb, resetOnClose,
                   flaky>>

(* chdk.reset_device(devspec): reset_device opens a throwaway handle,     *)
(* clears stalls, sends Device Reset and closes it with close_usb.  Its   *)
(* claim fails if another handle holds the interface, and then every      *)
(* transfer fails; the usb_reset of close_usb, when usb_reset_on_close is *)
(* set, resets the port whoever holds the claim.                          *)
ResetDevice ==
    /\ usb.present
    /\ \E okOpen, okReset \in Ok:
         LET afterPtp == IF usb.claim = NoObj /\ okReset
                         THEN [usb EXCEPT !.session = NoObj] ELSE usb
         IN  usb' = CASE ~okOpen      -> usb
                      [] resetOnClose -> [afterPtp EXCEPT !.session = NoObj,
                                                          !.claim = NoObj]
                      [] OTHER        -> afterPtp
    /\ UNCHANGED <<conlist, alive, referenced, finalizing, connected,
                   resetOnClose, flaky>>

\* chdk.set_usb_reset_on_close(bool)
SetUsbResetOnClose ==
    /\ resetOnClose' = ~resetOnClose
    /\ UNCHANGED <<conlist, alive, referenced, finalizing, connected, usb, flaky>>

\* The program drops its last strong reference to o.
Drop(o) ==
    /\ o \in referenced
    /\ referenced' = referenced \ {o}
    /\ UNCHANGED <<conlist, alive, finalizing, connected, usb, resetOnClose,
                   flaky>>

-----------------------------------------------------------------------------
(* The Lua collector.  Its atomic phase clears weak-table entries whose   *)
(* value is an unreachable userdata with __gc and queues the finalizers;  *)
(* the finalizers run later, between steps of the program.                *)
GcMark ==
    LET garbage == alive \ (referenced \cup finalizing)
    IN  /\ garbage # {}
        /\ finalizing' = finalizing \cup garbage
        /\ conlist' = IF conlist \in garbage THEN NoObj ELSE conlist
        /\ UNCHANGED <<alive, referenced, connected, usb, resetOnClose, flaky>>

(* chdk_connection_gc: close the camera if connected, then free(ptp_cs); *)
(* a handle still open is never closed.                                   *)
Finalize(o) ==
    /\ o \in finalizing
    /\ \E ok \in Ok: usb' = Orphan(CloseConnection(o, ok), o)
    /\ alive' = alive \ {o}
    /\ finalizing' = finalizing \ {o}
    /\ connected' = [connected EXCEPT ![o] = FALSE]
    /\ UNCHANGED <<conlist, referenced, resetOnClose, flaky>>

-----------------------------------------------------------------------------
(* The environment: the camera is unplugged (its handles die, its claims  *)
(* and session vanish) and plugged back under the same bus/dev, and the   *)
(* link becomes flaky or healthy.                                         *)
Unplug ==
    /\ usb.present
    /\ usb' = [usb EXCEPT !.present = FALSE, !.session = NoObj,
                          !.claim = NoObj, !.dead = usb.handle]
    /\ UNCHANGED <<conlist, alive, referenced, finalizing, connected,
                   resetOnClose, flaky>>

Plug ==
    /\ ~usb.present
    /\ usb' = [usb EXCEPT !.present = TRUE]
    /\ UNCHANGED <<conlist, alive, referenced, finalizing, connected,
                   resetOnClose, flaky>>

Glitch ==
    /\ flaky' = ~flaky
    /\ UNCHANGED <<conlist, alive, referenced, finalizing, connected, usb,
                   resetOnClose>>

-----------------------------------------------------------------------------
Init ==
    /\ conlist = NoObj
    /\ alive = {}
    /\ referenced = {}
    /\ finalizing = {}
    /\ connected = [o \in Obj |-> FALSE]
    /\ usb \in {[present |-> TRUE, session |-> s, claim |-> NoObj,
                 handle |-> {}, dead |-> {}] : s \in {NoObj, Stale}}
    /\ resetOnClose = FALSE
    /\ flaky \in BOOLEAN

Next ==
    \/ Connection
    \/ \E o \in Obj: Connect(o) \/ Disconnect(o) \/ IsConnected(o) \/ Drop(o)
    \/ ResetDevice
    \/ SetUsbResetOnClose
    \/ GcMark
    \/ \E o \in Obj: Finalize(o)
    \/ Unplug \/ Plug \/ Glitch

Spec == Init /\ [][Next]_vars

-----------------------------------------------------------------------------
TypeOK ==
    /\ conlist \in Obj \cup {NoObj}
    /\ alive \subseteq Obj /\ referenced \subseteq alive
    /\ finalizing \subseteq alive /\ referenced \cap finalizing = {}
    /\ connected \in [Obj -> BOOLEAN]
    /\ usb \in UsbState /\ usb.dead \subseteq usb.handle
    /\ usb.handle \subseteq alive
    /\ resetOnClose \in BOOLEAN /\ flaky \in BOOLEAN

(* The registry keeps one connection per device key: every allocated     *)
(* object not queued for __gc is the one CHDK_CONNECTION_LIST returns,   *)
(* so chdk.connection never hands out a second live object for the key.  *)
OneLiveConnectionPerKey ==
    alive \ finalizing = IF conlist = NoObj THEN {} ELSE {conlist}

ConnectRecovers ==
    [][\A o \in Obj :
         Connect(o) /\ ~flaky /\ usb.claim = NoObj => connected'[o]]_vars

(* Spec section 3: the transport handle is open if and only if the       *)
(* connection is connected (open_camera_dev_usb, close_camera_usb and    *)
(* chdk_is_connected).                                                   *)
HandleValidIffConnected ==
    \A o \in alive : o \in usb.handle <=> connected[o]

(* Spec 4.1 and 4.4: no handle is ever leaked.  A leaked handle keeps    *)
(* its interface claim, and every later usb_claim_interface on the       *)
(* device fails, so it can no longer be connected until it is unplugged. *)
NoStuckInterface == usb.claim # Stuck

====
