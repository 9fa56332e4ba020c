--------------------------- MODULE ScriptMessaging ---------------------------
(***************************************************************************)
(* Script messaging on one connection object (src/chdkptp.c): con:execlua, *)
(* con:read_msg, con:write_msg, con:get_script_id, con:script_status, and  *)
(* the con:connect / con:disconnect / con:is_connected calls that decide   *)
(* whether they reach the camera.  Every call returns a value or throws an *)
(* error object (api_throw_error, api_throw_error_critical,                *)
(* push_api_error_ptp); `result` is that outcome.                          *)
(*                                                                         *)
(* The PTP transaction of each call (ptp_chdk_* in ptp.c, not in src/) is  *)
(* modelled from the spec: it fails when the link is gone or the transfer  *)
(* fails (Flaky), and a failed transaction may or may not have reached the *)
(* camera.  The camera is the environment: it numbers scripts from 1 after *)
(* each boot, runs one script at a time, keeps a bounded input queue per   *)
(* running script and an output queue of messages for the host.           *)
(***************************************************************************)
EXTENDS Integers, Sequences

CONSTANTS
    MaxId,      \* bound on the camera's script id counter
    MaxBoot,    \* bound on camera power cycles
    QSize,      \* capacity of the camera's script input queue
    OutMax,     \* bound on queued host messages (a state constraint)
    Flaky       \* whether a transfer on a live link may fail

VARIABLES
    connected,  \* ptp_cs->connected
    session,    \* the link under the connection still reaches this boot
    scriptId,   \* ptp_cs->script_id
    cam,        \* the camera: on, boot, lastId, running, inbox, outbox
    result,     \* what the last Lua call returned or threw
    lastStart,  \* history: fate of the last execlua
    acked,      \* history: [boot, id] of the last start whose reply arrived
    delivered   \* history: the last message the camera queued for a script

vars == <<connected, session, scriptId, cam, result, lastStart, acked,
          delivered>>

Ok == IF Flaky THEN BOOLEAN ELSE {TRUE}
NoScript == [boot |-> 0, id |-> 0]
NoDelivery == [dflt |-> FALSE, boot |-> 0, id |-> 0]

(* Lua outcomes: a return value, or a thrown error object.               *)
(* Lua values are tagged records: nil, false, a number, a boolean, a      *)
(* message table or a status table.                                      *)
Nil == [t |-> "nil"]
False == [t |-> "false"]
Num(n) == [t |-> "num", n |-> n]
Bool(b) == [t |-> "bool", b |-> b]
Ret(op, v) ==
    [op |-> op, ok |-> TRUE, val |-> v, etype |-> "none", critical |-> FALSE]
Throw(op, etype) ==
    [op |-> op, ok |-> FALSE, val |-> Nil, etype |-> etype, critical |-> FALSE]
ThrowCritical(op, etype) ==
    [op |-> op, ok |-> FALSE, val |-> Nil, etype |-> etype, critical |-> TRUE]
(* push_api_error_ptp: etype "ptp" with the PTP return code.              *)
ThrowPtp(op, rc) == Throw(op, "ptp:" \o rc)

(* CHDK_ENSURE_CONNECTED's early return.                                  *)
NotConnected(op) ==
    /\ ~connected
    /\ result' = ThrowPtp(op, "not_connected")
    /\ UNCHANGED <<connected, session, scriptId, cam, acked>>

(* The camera runs an ExecuteScript request: the status and id it replies  *)
(* and its state after.  A loaded script gets the next id, also when it   *)
(* fails to compile; while one runs, the reply carries the last id.       *)
CamExec(c, code) ==
    IF c.running # 0 THEN [status |-> "running", id |-> c.lastId, cam |-> c]
    ELSE LET id == c.lastId + 1
         IN  IF code = "syntax"
             THEN [status |-> "compile", id |-> id,
                   cam |-> [c EXCEPT !.lastId = id,
                            !.outbox = Append(@, [sid |-> id, type |-> "error"])]]
             ELSE [status |-> "none", id |-> id,
                   cam |-> [c EXCEPT !.lastId = id, !.running = id,
                            !.inbox = <<>>]]

(* A transaction that may have reached the camera before it failed: the   *)
(* camera's change is kept or not.                                        *)
Transact(ok, reached, after) ==
    /\ reached \/ ~(session /\ ok)
    /\ session \/ ~reached
    /\ cam' = IF reached THEN after ELSE cam

(* Mutant: the script id is left as it was when the transaction fails.   *)
StartScriptKeepsId(code, ok) ==
    LET r == CamExec(cam, code)
    IN  [cam |-> r.cam,
         id |-> IF session /\ ok THEN r.id ELSE scriptId,
         status |-> IF session /\ ok THEN r.status ELSE "io"]

(* ptp_chdk_exec_lua: the script id is cleared, then set from the reply.  *)
(* A failed transaction may still have started the script.               *)
StartScript(code, ok) ==
    LET r == CamExec(cam, code)
    IN  [cam |-> r.cam,
         id |-> IF session /\ ok THEN r.id ELSE 0,
         status |-> IF session /\ ok THEN r.status ELSE "io"]

(* con:execlua: the status of the reply becomes an error of its own.      *)
ExecLua ==
    \/ /\ NotConnected("execlua")
       /\ lastStart' = "unreached" /\ UNCHANGED delivered
    \/ /\ connected
       /\ \E code \in {"run", "syntax"}, ok \in Ok, reached \in BOOLEAN :
            LET s == StartScript(code, ok)
            IN  /\ Transact(ok, reached, s.cam)
                /\ reached /\ cam.running = 0 => cam.lastId < MaxId
                /\ scriptId' = s.id
                /\ result' = CASE s.status = "none" -> Ret("execlua", Nil)
                               [] s.status = "compile" ->
                                     Throw("execlua", "execlua_compile")
                               [] s.status = "running" ->
                                     Throw("execlua", "execlua_scriptrun")
                               [] OTHER -> ThrowPtp("execlua", "io")
                /\ lastStart' = IF s.status # "io" THEN "acked"
                                ELSE IF reached THEN "lost" ELSE "unreached"
                /\ acked' = IF s.status = "io" THEN acked
                            ELSE [boot |-> cam.boot, id |-> s.id]
                /\ delivered' = NoDelivery
       /\ UNCHANGED <<connected, session>>

NoMsg == [sid |-> 0, type |-> "none"]

(* Mutant: the PTP result is not checked; a failed read is taken for an   *)
(* empty queue.                                                           *)
ReadMsgResultIgnoresError(ok, msg) ==
    Ret("read_msg", IF ok THEN msg ELSE NoMsg)

(* api_check_ptp_throw on ptp_chdk_read_script_msg, then the message      *)
(* table.                                                                 *)
ReadMsgResult(ok, msg) ==
    IF ok THEN Ret("read_msg", msg) ELSE ThrowPtp("read_msg", "io")

(* con:read_msg: one message of the camera's output queue, or type none.  *)
ReadMsg ==
    \/ NotConnected("read_msg") /\ UNCHANGED <<lastStart, delivered>>
    \/ /\ connected
       /\ \E ok \in Ok, reached \in BOOLEAN :
            LET q == cam.outbox
                msg == IF q = <<>> THEN NoMsg ELSE Head(q)
            IN  /\ Transact(ok, reached,
                            [cam EXCEPT !.outbox = IF q = <<>> THEN q ELSE Tail(q)])
                /\ result' = ReadMsgResult(session /\ ok, msg)
       /\ UNCHANGED <<connected, session, scriptId, lastStart, acked, delivered>>

(* The camera's answer to WriteScriptMsg for script t.                    *)
CamWrite(c, t) ==
    CASE c.running = 0 -> [status |-> "msg_notrun", cam |-> c]
      [] t # c.running -> [status |-> "msg_badid", cam |-> c]
      [] Len(c.inbox) >= QSize -> [status |-> "msg_full", cam |-> c]
      [] OTHER -> [status |-> "ok",
                   cam |-> [c EXCEPT !.inbox = Append(@, [to |-> t])]]

(* api_check_ptp_throw on ptp_chdk_write_script_msg, then the switch on   *)
(* the status the camera replied.                                          *)
WriteMsgResult(ok, status) ==
    CASE ~ok -> ThrowPtp("write_msg", "io")
      [] status = "ok" -> Ret("write_msg", Nil)
      [] OTHER -> Throw("write_msg", status)

(* con:write_msg(msg[, script_id]): the target defaults to                *)
(* ptp_cs->script_id; an empty message is refused before the transfer.    *)
WriteMsg ==
    \/ NotConnected("write_msg") /\ UNCHANGED <<lastStart, delivered>>
    \/ /\ connected
       /\ \E target \in {Nil} \cup {Num(n) : n \in 1..MaxId}, empty \in BOOLEAN :
            LET t == IF target = Nil THEN scriptId ELSE target.n
            IN  \/ /\ empty
                   /\ result' = ThrowCritical("write_msg", "bad_arg")
                   /\ UNCHANGED <<cam, delivered>>
                \/ /\ ~empty
                   /\ \E ok \in Ok, reached \in BOOLEAN :
                        LET w == CamWrite(cam, t)
                        IN  /\ Transact(ok, reached, w.cam)
                            /\ result' = WriteMsgResult(session /\ ok, w.status)
                            /\ delivered' =
                                 IF reached /\ w.status = "ok"
                                 THEN [dflt |-> target = Nil,
                                       boot |-> cam.boot, id |-> t]
                                 ELSE delivered
       /\ UNCHANGED <<connected, session, scriptId, lastStart, acked>>

(* Mutant: script_id returned as it is, 0 included.                       *)
GetScriptIdRaw ==
    /\ result' = Ret("get_script_id", Num(scriptId))
    /\ UNCHANGED <<connected, session, scriptId, cam, lastStart, acked, delivered>>

(* con:get_script_id: no connection check; false when script_id is 0.     *)
GetScriptId ==
    /\ result' = Ret("get_script_id", IF scriptId # 0 THEN Num(scriptId) ELSE False)
    /\ UNCHANGED <<connected, session, scriptId, cam, lastStart, acked, delivered>>

(* con:script_status: the run and msg flags of the camera's reply.        *)
ScriptStatus ==
    \/ NotConnected("script_status") /\ UNCHANGED <<lastStart, delivered>>
    \/ /\ connected
       /\ \E ok \in Ok :
            /\ Transact(ok, session /\ ok, cam)
            /\ result' = IF session /\ ok
                         THEN Ret("script_status", [run |-> cam.running # 0,
                                                     msg |-> cam.outbox # <<>>])
                         ELSE ThrowPtp("script_status", "io")
       /\ UNCHANGED <<connected, session, scriptId, lastStart, acked, delivered>>

(* con:connect: refused when connected; otherwise the transport connect,  *)
(* which needs the camera present.                                        *)
Connect ==
    /\ \/ /\ connected
          /\ result' = Throw("connect", "connect_connected")
          /\ UNCHANGED <<connected, session>>
       \/ /\ ~connected /\ ~cam.on
          /\ result' = Throw("connect", "connect_no_dev")
          /\ UNCHANGED <<connected, session>>
       \/ /\ ~connected /\ cam.on
          /\ \E ok \in Ok :
               /\ connected' = ok /\ session' = ok
               /\ result' = IF ok THEN Ret("connect", Nil)
                            ELSE Throw("connect", "connect_fail")
    /\ UNCHANGED <<scriptId, cam, lastStart, acked, delivered>>

(* con:disconnect (close_connection): closes the session if connected and *)
(* clears the flag; ptp_cs->script_id is kept.                            *)
Disconnect ==
    /\ connected' = FALSE /\ session' = FALSE
    /\ result' = Ret("disconnect", Nil)
    /\ UNCHANGED <<scriptId, cam, lastStart, acked, delivered>>

(* con:is_connected over USB: the flag is re-read from a device status    *)
(* query, which fails once the link is gone.                              *)
IsConnected ==
    /\ \E ok \in Ok :
         connected' = (connected /\ session /\ ok)
    /\ result' = Ret("is_connected", Bool(connected'))
    /\ UNCHANGED <<session, scriptId, cam, lastStart, acked, delivered>>

(* The camera powers off: scripts and queues are gone, and so is the link *)
(* under the connection; ptp_cs->connected is not told.                   *)
CameraOff ==
    /\ cam.on
    /\ cam' = [cam EXCEPT !.on = FALSE, !.running = 0, !.inbox = <<>>,
                          !.outbox = <<>>]
    /\ session' = FALSE
    /\ UNCHANGED <<connected, scriptId, result, lastStart, acked, delivered>>

(* It boots again and numbers scripts from 1.                             *)
CameraOn ==
    /\ ~cam.on /\ cam.boot < MaxBoot
    /\ cam' = [cam EXCEPT !.on = TRUE, !.boot = @ + 1, !.lastId = 0]
    /\ UNCHANGED <<connected, session, scriptId, result, lastStart, acked,
                   delivered>>

(* The running script posts a message for the host, takes one of its      *)
(* input queue, or ends with a return message.                            *)
ScriptPost ==
    /\ cam.running # 0
    /\ cam' = [cam EXCEPT !.outbox = Append(@, [sid |-> cam.running,
                                                 type |-> "user"])]
    /\ UNCHANGED <<connected, session, scriptId, result, lastStart, acked,
                   delivered>>

ScriptTake ==
    /\ cam.running # 0 /\ cam.inbox # <<>>
    /\ cam' = [cam EXCEPT !.inbox = Tail(@)]
    /\ UNCHANGED <<connected, session, scriptId, result, lastStart, acked,
                   delivered>>

ScriptEnd ==
    /\ cam.running # 0
    /\ cam' = [cam EXCEPT !.running = 0,
                          !.outbox = Append(@, [sid |-> cam.running,
                                                type |-> "return"])]
    /\ UNCHANGED <<connected, session, scriptId, result, lastStart, acked,
                   delivered>>

Init ==
    /\ connected = FALSE /\ session = FALSE /\ scriptId = 0
    /\ cam = [on |-> TRUE, boot |-> 1, lastId |-> 0, running |-> 0,
              inbox |-> <<>>, outbox |-> <<>>]
    /\ result = Ret("none", Nil)
    /\ lastStart = "none" /\ acked = NoScript /\ delivered = NoDelivery

Next ==
    \/ ExecLua \/ ReadMsg \/ WriteMsg \/ GetScriptId \/ ScriptStatus
    \/ Connect \/ Disconnect \/ IsConnected
    \/ CameraOff \/ CameraOn \/ ScriptPost \/ ScriptTake \/ ScriptEnd

Spec == Init /\ [][Next]_vars

(* State constraint for TLC: the host's message queue stays short.        *)
OutBound == Len(cam.outbox) <= OutMax

-----------------------------------------------------------------------------
Msgs == [sid : 0..MaxId, type : {"none", "error", "return", "user"}]
Etypes == {"ptp:not_connected", "ptp:io", "execlua_compile",
           "execlua_scriptrun", "bad_arg", "msg_notrun", "msg_badid",
           "msg_full", "connect_connected", "connect_no_dev", "connect_fail"}
(* What the calls return: get_script_id gives an id from 1 or false.      *)
Vals == {Nil, False} \cup {Num(n) : n \in 1..MaxId} \cup {Bool(b) : b \in BOOLEAN}
        \cup Msgs \cup [run : BOOLEAN, msg : BOOLEAN]

TypeOK ==
    /\ connected \in BOOLEAN /\ session \in BOOLEAN
    /\ scriptId \in 0..MaxId
    /\ cam.lastId \in 0..MaxId /\ cam.running \in 0..cam.lastId
    /\ cam.inbox \in Seq([to : 1..MaxId]) /\ Len(cam.inbox) <= QSize
    /\ cam.outbox \in Seq(Msgs)
    /\ result.val \in Vals /\ result.etype \in Etypes \cup {"none"}
    /\ lastStart \in {"none", "acked", "lost", "unreached"}

(* write_msg without a script id is meant for "the most recently started  *)
(* script".  Whatever reboots, reconnects and lost replies came between,  *)
(* a message the camera accepts for the default target goes to the       *)
(* script whose start the host last saw acknowledged, on that same boot:  *)
(* never to a script of a later boot that happens to reuse the number.    *)
DefaultReachesAckedScript ==
    delivered.dflt => [boot |-> delivered.boot, id |-> delivered.id] = acked

(* read_msg and write_msg: whenever a call changed the camera's queues,  *)
(* the caller learns of it.  A read that dequeued a message returns that  *)
(* message or an io error; a read that returns a message dequeued it; a   *)
(* write that queued a message returns normally or with an io error, and  *)
(* a normal return means the message was queued.  Only an io error leaves *)
(* the caller unsure whether its message was lost or delivered.           *)
CallerSeesMessageTransfers ==
    [][ /\ ReadMsg =>
             /\ cam'.outbox # cam.outbox =>
                    result'.val = Head(cam.outbox) \/ result'.etype = "ptp:io"
             /\ result'.ok /\ result'.val.type # "none" =>
                    cam'.outbox = Tail(cam.outbox)
        /\ WriteMsg =>
             /\ cam'.inbox # cam.inbox => result'.ok \/ result'.etype = "ptp:io"
             /\ result'.ok => Len(cam'.inbox) = Len(cam.inbox) + 1 ]_vars

(* The comment on con:get_script_id: the id is false when the last script *)
(* request failed to reach the camera (the spec: "none" if the last start *)
(* never reached the device).                                             *)
ScriptIdFalseWhenUnreached ==
    result.op = "get_script_id" /\ lastStart = "unreached" =>
        result.val = False
=============================================================================
