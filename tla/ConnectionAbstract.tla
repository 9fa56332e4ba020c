------------------------- MODULE ConnectionAbstract -------------------------
(***************************************************************************)
(* What a connection object promises its caller, whatever the transport:  *)
(* the Connection of the design description (sections 3 and 4.4).  A      *)
(* connect call runs from a disconnected object and ends connected, with  *)
(* the transport open, or disconnected, with nothing held; while it runs  *)
(* the transport may be partly open.  Disconnect and finalization close   *)
(* everything.  A connect on a connected object, or a disconnect on a     *)
(* disconnected one, changes nothing.                                     *)
(***************************************************************************)

VARIABLES
    exists,  \* the object has not been collected
    state,   \* "disconnected", "connecting" (a connect call runs), "connected"
    held     \* some transport handle (socket, address list, usb handle) is open

vars == <<exists, state, held>>

States == {"disconnected", "connecting", "connected"}

Init == exists = TRUE /\ state = "disconnected" /\ held = FALSE

(* A new object for the key starts disconnected.                          *)
Create ==
    /\ exists = FALSE
    /\ exists' = TRUE /\ state' = "disconnected" /\ held' = FALSE

(* connect on a disconnected object starts opening the transport.         *)
BeginConnect ==
    /\ exists = TRUE /\ state = "disconnected"
    /\ state' = "connecting" /\ held' \in BOOLEAN
    /\ UNCHANGED exists

(* A step of the handshake: handles are opened or closed.                 *)
Handshake ==
    /\ state = "connecting"
    /\ held' \in BOOLEAN
    /\ UNCHANGED <<exists, state>>

(* connect returns: connected with the transport open, or an error with   *)
(* nothing left open.                                                     *)
Succeed ==
    /\ state = "connecting"
    /\ state' = "connected" /\ held' = TRUE
    /\ UNCHANGED exists

Fail ==
    /\ state = "connecting"
    /\ state' = "disconnected" /\ held' = FALSE
    /\ UNCHANGED exists

Disconnect ==
    /\ exists = TRUE /\ state # "connecting"
    /\ state' = "disconnected" /\ held' = FALSE
    /\ UNCHANGED exists

(* The finalizer of an unreachable object closes what it holds.           *)
Destroy ==
    /\ exists = TRUE /\ state # "connecting"
    /\ exists' = FALSE /\ state' = "disconnected" /\ held' = FALSE

Next == Create \/ BeginConnect \/ Handshake \/ Succeed \/ Fail \/ Disconnect
        \/ Destroy

Spec == Init /\ [][Next]_vars

=============================================================================
