--------------------------- MODULE PtpIpConnection ---------------------------
(***************************************************************************)
(* One PTP/IP connection object of chdkptp (src/chdkptp.c, CHDKPTP_PTPIP) *)
(* against one camera.  connect (init_ptp_tcp, init_event_channel_tcp,    *)
(* connect_cam_tcp) is split at its blocking network calls, so that the   *)
(* camera may power off between any two of them.  Each step is the code  *)
(* between two such calls, failure path included.                         *)
(*                                                                         *)
(* Abstractions: file descriptors are the numbers 1..MaxFds and socket()  *)
(* returns the lowest free one; a recv of the INIT_COMMAND_ACK returns    *)
(* one of AckSplits bytes of it (TCP may deliver a packet in pieces); the *)
(* PTP transactions of ptp.c (OpenSession, GetDeviceInfo, CloseSession)   *)
(* are outcomes.  A link the camera dropped is "reset" when the client    *)
(* got a RST or FIN (recv fails) and "silent" when the camera vanished    *)
(* without one (recv blocks: the sockets have no receive timeout).        *)
(***************************************************************************)
EXTENDS Integers, FiniteSets

CONSTANTS
    MaxFds,     \* descriptors available to the process
    NAddr,      \* addresses returned by getaddrinfo
    AckLen,     \* length of the camera's INIT_COMMAND_ACK (>= 34)
    AckSplits,  \* byte counts one recv may return of it
    EvSplits,   \* byte counts one recv may return of the 8-byte INIT_EVENT_ACK
    Ids,        \* connection numbers the camera hands out
    NoId,       \* no connection number
    Zero,       \* the number read when its bytes were not received (pkt is memset 0)
    Flaky       \* whether a send or a PTP transaction may fail on a live link

Invalid == -1               \* INVALID_SOCKET
Fds == 1..MaxFds
Links == {"none", "ok", "reset", "silent"}
Steps == {"idle", "cmdAck", "evOpen", "evAck", "open", "info"}

VARIABLES
    con,     \* PTP_CON_STATE: connected, tcp.cmd_sock, tcp.event_sock, tcp.ai,
             \* tcp.connection_id, and whether tcp.cam_guid was fully read
    alive,   \* the connection userdata exists (not yet collected)
    pc,      \* where chdk_connect is blocked, "idle" when no call is running
    fds,     \* the descriptors the process holds open
    chan,    \* client view of the command and event TCP links
    desync,  \* unread bytes of INIT_COMMAND_ACK remain on the command stream
    cam      \* camera: up, the id issued to the command link, event bound, session

vars == <<con, alive, pc, fds, chan, desync, cam>>

World == [con |-> con, fds |-> fds, chan |-> chan, desync |-> desync, cam |-> cam]

SetWorld(w) ==
    /\ con' = w.con /\ fds' = w.fds /\ chan' = w.chan
    /\ desync' = w.desync /\ cam' = w.cam

Ok == IF Flaky THEN BOOLEAN ELSE {TRUE}

(* Mutant: chdk_connection without the INVALID_SOCKET initialisation, the *)
(* sockets left at the memset value 0.                                    *)
FreshConZeroed == [connected |-> FALSE, cmd |-> 0, event |-> 0,
                   ai |-> FALSE, connId |-> Zero, guid |-> FALSE]

FreshCon == [connected |-> FALSE, cmd |-> Invalid, event |-> Invalid,
             ai |-> FALSE, connId |-> Zero, guid |-> FALSE]

CamLost == [up |-> FALSE, id |-> NoId, bound |-> FALSE, session |-> FALSE]
CamIdle == [CamLost EXCEPT !.up = TRUE]

LowestFree(used) ==
    IF Fds \ used = {} THEN Invalid
    ELSE CHOOSE f \in Fds \ used : \A g \in Fds \ used : f <= g

(* ptp_closesession over the command link: blocks when the link is silent. *)
CloseSessionBlocks(w) == w.con.connected /\ w.chan.cmd = "silent"

(* close_camera_tcp: CloseSession if connected, then close both sockets    *)
(* and free the address list; the camera ends the PTP/IP connection.       *)
CloseCameraTcp(w) ==
    LET live == w.chan.cmd = "ok" \/ w.chan.ev = "ok"
    IN [w EXCEPT
          !.con = [@ EXCEPT !.cmd = Invalid, !.event = Invalid, !.ai = FALSE],
          !.fds = @ \ {w.con.cmd, w.con.event},
          !.chan = [cmd |-> "none", ev |-> "none"],
          !.desync = FALSE,
          !.cam = IF live THEN CamIdle ELSE @]

(* Mutant: the failure path closes only a connected transport, as         *)
(* close_connection does.                                                 *)
ConnectFailIfConnected(w) ==
    /\ ~CloseSessionBlocks(w)
    /\ SetWorld(IF w.con.connected
                THEN [CloseCameraTcp(w) EXCEPT !.con.connected = FALSE] ELSE w)
    /\ pc' = "idle"

(* connect_cam_tcp's failure path: close_camera_tcp, then connected = 0.  *)
ConnectFail(w) ==
    /\ ~CloseSessionBlocks(w)
    /\ SetWorld([CloseCameraTcp(w) EXCEPT !.con.connected = FALSE])
    /\ pc' = "idle"

(* A recv on a link: data, an error, or no return at all.                 *)
RecvFails(link) == link \in {"none", "reset"}
RecvBlocks(link) == link = "silent"

(* Bytes of the INIT_COMMAND_ACK a recv of r bytes leaves in pkt.          *)
TypeRead(r) == r >= 5              \* type is little-endian, < 256
IdRead(r, id) == IF r >= 12 THEN id ELSE Zero
GuidRead(r) == r >= 28

(***************************************************************************)
(* Lua API calls and connect's steps.                                      *)
(***************************************************************************)

(* chdk.connection for a tcp key: a fresh object, both sockets invalid.   *)
Connection ==
    /\ ~alive
    /\ alive' = TRUE
    /\ con' = FreshCon
    /\ UNCHANGED <<pc, fds, chan, desync, cam>>

(* A connect on a connection that allows it; the copy below is the check  *)
(* without chdk_connect's connected test.                                 *)
ConnectAllowedAlways == alive /\ pc = "idle"

(* chdk_connect: throws connect_connected on a connected object.          *)
ConnectAllowed == alive /\ pc = "idle" /\ ~con.connected

(* chdk_connect -> init_ptp_tcp up to the INIT_COMMAND send: resolve,     *)
(* try each address with the lowest free descriptor (closed again when    *)
(* connect fails), store ai and cmd_sock, send INIT_COMMAND_REQUEST.      *)
TcpConnect ==
    /\ ConnectAllowed
    /\ \E gaiOk \in Ok, reach \in [1..NAddr -> BOOLEAN], sendOk \in Ok, id \in Ids :
        LET fd == LowestFree(fds)
            found == cam.up /\ \E i \in 1..NAddr : reach[i]
            w == [World EXCEPT !.con = [FreshCon EXCEPT !.ai = TRUE,
                                         !.cmd = IF found THEN fd ELSE Invalid],
                               !.fds = IF found THEN @ \cup {fd} ELSE @,
                               !.chan.cmd = IF found THEN "ok" ELSE "none"]
        IN \/ /\ (~gaiOk \/ fd = Invalid)
              /\ ConnectFail(World)
           \/ /\ gaiOk /\ fd # Invalid
              /\ (~found \/ ~sendOk)
              /\ ConnectFail(w)
           \/ /\ gaiOk /\ fd # Invalid /\ found /\ sendOk
              /\ SetWorld([w EXCEPT !.cam = [CamIdle EXCEPT !.id = id]])
              /\ pc' = "cmdAck"
    /\ UNCHANGED alive

(* init_ptp_tcp: one read_func (one recv) of the INIT_COMMAND_ACK, the    *)
(* length and type checks, connection_id and cam_guid taken from pkt.     *)
CmdAck ==
    /\ pc = "cmdAck"
    /\ ~RecvBlocks(chan.cmd)
    /\ IF RecvFails(chan.cmd) THEN ConnectFail(World)
       ELSE \E r \in AckSplits :
              IF ~TypeRead(r) THEN ConnectFail(World)
              ELSE /\ con' = [con EXCEPT !.connId = IdRead(r, cam.id),
                                         !.guid = GuidRead(r)]
                   /\ desync' = (r < AckLen)
                   /\ pc' = "evOpen"
                   /\ UNCHANGED <<fds, chan, cam>>
    /\ UNCHANGED alive

(* init_event_channel_tcp up to its send: socket (unchecked), connect to  *)
(* ai_con (on failure return 0 without closing sock), store event_sock,   *)
(* send INIT_EVENT_REQUEST with connection_id.  The camera binds the      *)
(* event link only to the number it issued on the command link.           *)
EvOpen ==
    /\ pc = "evOpen"
    /\ \E reach \in Ok, sendOk \in Ok :
        LET fd == LowestFree(fds)
            up == fd # Invalid /\ cam.up /\ reach
            w == [World EXCEPT !.con.event = fd, !.fds = @ \cup {fd},
                               !.chan.ev = "ok"]
        IN \/ /\ ~up
              /\ ConnectFail([World EXCEPT !.fds = IF fd = Invalid THEN @
                                                   ELSE @ \cup {fd}])
           \/ /\ up /\ ~sendOk
              /\ ConnectFail(w)
           \/ /\ up /\ sendOk
              /\ SetWorld([w EXCEPT !.cam.bound =
                                      cam.id # NoId /\ con.connId = cam.id])
              /\ pc' = "evAck"
    /\ UNCHANGED alive

(* init_event_channel_tcp: one recv of the reply; r >= 8, declared length *)
(* equal to r and type INIT_EVENT_ACK (the camera sends INIT_FAIL when it *)
(* did not bind the link).                                                 *)
EvAck ==
    /\ pc = "evAck"
    /\ ~RecvBlocks(chan.ev)
    /\ IF RecvFails(chan.ev) THEN ConnectFail(World)
       ELSE \E r \in EvSplits :
              IF r >= 8 /\ cam.bound
              THEN pc' = "open" /\ UNCHANGED <<con, fds, chan, desync, cam>>
              ELSE ConnectFail(World)
    /\ UNCHANGED alive

(* ptp_opensession, then connected = 1.  With unread ACK bytes ahead of   *)
(* the response, what ptp.c makes of the stream is not known.             *)
OpenSession ==
    /\ pc = "open"
    /\ ~RecvBlocks(chan.cmd)
    /\ IF RecvFails(chan.cmd) THEN ConnectFail(World)
       ELSE \E ok \in Ok, garbled \in BOOLEAN :
              LET opened == cam.bound /\ ~cam.session
                  w == [World EXCEPT !.cam.session = @ \/ opened]
                  read == IF desync THEN garbled ELSE opened /\ ok
              IN IF read
                 THEN /\ SetWorld([w EXCEPT !.con.connected = TRUE])
                      /\ pc' = "info"
                 ELSE ConnectFail(w)
    /\ UNCHANGED alive

(* ptp_getdeviceinfo; on failure connect_cam_tcp closes (CloseSession     *)
(* first, as connected is already set) and clears connected.              *)
GetDeviceInfo ==
    /\ pc = "info"
    /\ ~RecvBlocks(chan.cmd)
    /\ IF RecvFails(chan.cmd) THEN ConnectFail(World)
       ELSE \E ok \in Ok, garbled \in BOOLEAN :
              IF IF desync THEN garbled ELSE cam.session /\ ok
              THEN pc' = "idle" /\ UNCHANGED <<con, fds, chan, desync, cam>>
              ELSE ConnectFail(World)
    /\ UNCHANGED alive

(* chdk_disconnect -> close_connection.                                    *)
Disconnect ==
    /\ alive /\ pc = "idle"
    /\ ~CloseSessionBlocks(World)
    /\ IF con.connected
       THEN SetWorld([CloseCameraTcp(World) EXCEPT !.con.connected = FALSE])
       ELSE UNCHANGED <<con, fds, chan, desync, cam>>
    /\ UNCHANGED <<alive, pc>>

(* chdk_connection_gc: close_camera if connected, free ptp_cs.            *)
Finalize ==
    /\ alive /\ pc = "idle"
    /\ ~CloseSessionBlocks(World)
    /\ IF con.connected THEN SetWorld(CloseCameraTcp(World))
       ELSE UNCHANGED <<con, fds, chan, desync, cam>>
    /\ alive' = FALSE
    /\ UNCHANGED pc

(* The camera powers off: the links it held are reset, or go silent.      *)
CameraOff ==
    /\ cam.up
    /\ \E how \in {"reset", "silent"} :
        chan' = [k \in {"cmd", "ev"} |-> IF chan[k] = "ok" THEN how ELSE chan[k]]
    /\ cam' = CamLost
    /\ UNCHANGED <<con, alive, pc, fds, desync>>

CameraOn ==
    /\ ~cam.up
    /\ cam' = CamIdle
    /\ UNCHANGED <<con, alive, pc, fds, chan, desync>>

ConnectStep == CmdAck \/ EvOpen \/ EvAck \/ OpenSession \/ GetDeviceInfo

Init ==
    /\ con = FreshCon /\ alive = TRUE /\ pc = "idle"
    /\ fds = {} /\ chan = [cmd |-> "none", ev |-> "none"]
    /\ desync = FALSE /\ cam = CamIdle

Next ==
    \/ Connection \/ TcpConnect \/ ConnectStep \/ Disconnect \/ Finalize
    \/ CameraOff \/ CameraOn

Spec == Init /\ [][Next]_vars

FairSpec == Spec /\ WF_vars(ConnectStep)

(***************************************************************************)
(* Properties.                                                             *)
(***************************************************************************)

TypeOK ==
    /\ con \in [connected : BOOLEAN, cmd : Fds \cup {Invalid},
                event : Fds \cup {Invalid}, ai : BOOLEAN,
                connId : Ids \cup {Zero}, guid : BOOLEAN]
    /\ alive \in BOOLEAN /\ pc \in Steps /\ fds \subseteq Fds
    /\ chan \in [{"cmd", "ev"} -> Links] /\ desync \in BOOLEAN
    /\ cam \in [up : BOOLEAN, id : Ids \cup {NoId}, bound : BOOLEAN,
                session : BOOLEAN]

(* Between Lua calls, the transport handles (both sockets and the address *)
(* list) are held exactly while the connection is connected: every        *)
(* failure path of init_ptp_tcp, after any prefix of the handshake, is    *)
(* undone by connect_cam_tcp, and disconnect and __gc release them.       *)
HandlesIffConnected ==
    (alive /\ pc = "idle") =>
        /\ con.connected <=> con.cmd # Invalid
        /\ con.connected <=> con.event # Invalid
        /\ con.connected <=> con.ai

(* Every descriptor the process holds is one of the connection's two      *)
(* sockets: no path of connect, disconnect or __gc loses one.              *)
NoLeakedSocket ==
    fds = {con.cmd, con.event} \ {Invalid}

(* A connected client has read the whole INIT_COMMAND_ACK: the next PTP  *)
(* response is read from a packet boundary and cam_guid is the camera's. *)
HandshakeConsumed ==
    con.connected => ~desync /\ con.guid

(***************************************************************************)
(* Refinement of ConnectionAbstract.  A connect call is "connecting" from *)
(* TcpConnect until the step that returns to idle; a collected object is  *)
(* disconnected and holds nothing.                                        *)
(***************************************************************************)

AbsState ==
    IF ~alive THEN "disconnected"
    ELSE IF pc # "idle" THEN "connecting"
    ELSE IF con.connected THEN "connected" ELSE "disconnected"

AbsHeld == alive /\ (con.cmd # Invalid \/ con.event # Invalid \/ con.ai)

Abstract == INSTANCE ConnectionAbstract
                WITH exists <- alive, state <- AbsState, held <- AbsHeld

(* Seen from Lua, a tcp connection behaves as the abstract Connection:    *)
(* connect starts only on a disconnected object and ends connected with   *)
(* the sockets open or disconnected with nothing open; disconnect and     *)
(* __gc release everything, and no step of the handshake, a camera       *)
(* power-off or a failure is seen as any other transition.                *)
ImplementsConnection == Abstract!Spec

(* A connect call returns: every step of the handshake ends with success *)
(* or with an error, whatever the camera does meanwhile.                  *)
ConnectReturns ==
    pc # "idle" ~> pc = "idle"

=============================================================================
