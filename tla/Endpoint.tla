------------------------------ MODULE Endpoint ------------------------------
(***************************************************************************)
(* opencode-browser: every plugin and MCP server of a machine resolves a   *)
(* bridge token and calls createEndpoint, which binds the port and hosts   *)
(* the broker, or joins the broker that holds the port as a guest; a guest *)
(* whose connection closes elects again.  The token is shared by a file.   *)
(*                                                                         *)
(* A token is named by the process that generated it.  What a host does    *)
(* for the guests it has accepted is module Broker.                        *)
(***************************************************************************)
CONSTANTS
  Procs,
  Plugins,     \* the processes that are plugins of OpenCode; the others are MCP servers
  Pinned,      \* the processes an operator gave the token "pinned"
  Leftovers,   \* what the file may hold before anyone starts
  MayExit,     \* the processes that may exit or crash
  None

VARIABLES
  pc,          \* where each process is
  token,       \* opts.token of each endpoint
  source,      \* "explicit", "file" or "generated"
  read,        \* the bridge file as resolveSharedToken found it
  bridge,      \* bridge.json: for which port it is, and the token
  port,        \* who listens
  hostToken,   \* opts.token of the broker that listens
  peer         \* the broker each guest has dialled

endpointVars == <<pc, token, source, read, bridge, port, hostToken, peer>>

Contents(t) == [here |-> TRUE, token |-> t]

Init ==
  /\ pc = [p \in Procs |-> "off"]
  /\ token = [p \in Procs |-> None] /\ source = [p \in Procs |-> None]
  /\ read = [p \in Procs |-> None]
  /\ bridge \in Leftovers
  /\ port = None /\ hostToken = None
  /\ peer = [p \in Procs |-> None]

-----------------------------------------------------------------------------
(* resolveSharedToken: an explicit token wins, then the file if it is not  *)
(* for another port, then a generated one.                                 *)
ResolveSharedToken(p) ==
  LET shared == bridge # None /\ bridge.here
      src == IF p \in Pinned THEN "explicit" ELSE IF shared THEN "file" ELSE "generated"
  IN  /\ pc[p] = "off"
      /\ source' = [source EXCEPT ![p] = src]
      /\ token' = [token EXCEPT ![p] = CASE src = "explicit"  -> "pinned"
                                         [] src = "file"      -> bridge.token
                                         [] src = "generated" -> p]
      /\ read' = [read EXCEPT ![p] = bridge]
      /\ pc' = [pc EXCEPT ![p] = IF p \in Plugins THEN "elect" ELSE "write"]
      /\ UNCHANGED <<bridge, port, hostToken, peer>>

(* An MCP server writes what it has resolved, host or not.                 *)
WriteBridgeFile(p) ==
  /\ pc[p] = "write"
  /\ bridge' = Contents(token[p])
  /\ pc' = [pc EXCEPT ![p] = "elect"]
  /\ UNCHANGED <<token, source, read, port, hostToken, peer>>

(* elect() binds the port ...                                              *)
Bind(p) ==
  /\ pc[p] = "elect" /\ port = None
  /\ port' = p /\ hostToken' = token[p]
  /\ pc' = [pc EXCEPT ![p] = IF p \in Plugins THEN "onHost" ELSE "host"]
  /\ UNCHANGED <<token, source, read, bridge, peer>>

(* ... and a plugin that hosts makes the file say what it hosts with.      *)
AdvertiseToken(p) ==
  /\ pc[p] = "onHost"
  /\ bridge' = Contents(token[p])
  /\ pc' = [pc EXCEPT ![p] = "host"]
  /\ UNCHANGED <<token, source, read, port, hostToken, peer>>

BindLost(p) ==
  /\ pc[p] = "elect" /\ port # None
  /\ pc' = [pc EXCEPT ![p] = "dial"]
  /\ UNCHANGED <<token, source, read, bridge, port, hostToken, peer>>

Reelecting(p, peers) ==
  /\ pc' = [pc EXCEPT ![p] = "waiting"]
  /\ peer' = [peers EXCEPT ![p] = None]

DialOnce(p) ==
  /\ pc[p] = "dial"
  /\ pc' = [pc EXCEPT ![p] = IF port = None THEN "failed" ELSE "hello"]
  /\ peer' = [peer EXCEPT ![p] = port]
  /\ UNCHANGED <<token, source, read, bridge, port, hostToken>>

(* The host may have left since the bind was lost.                         *)
Dial(p) ==
  /\ pc[p] = "dial"
  /\ IF port = None
     THEN Reelecting(p, peer)
     ELSE pc' = [pc EXCEPT ![p] = "hello"] /\ peer' = [peer EXCEPT ![p] = port]
  /\ UNCHANGED <<token, source, read, bridge, port, hostToken>>

(* adoptRotatedToken: whatever the file says, of any port.                 *)
Reloaded(h) ==
  IF h \in Plugins /\ source[h] # "explicit" /\ bridge # None THEN bridge.token ELSE hostToken

HelloUnreloaded(p) ==
  /\ pc[p] = "hello" /\ port # None /\ peer[p] = port /\ pc[port] = "host"
  /\ IF token[p] = hostToken
     THEN pc' = [pc EXCEPT ![p] = "guest"]
     ELSE pc' = [pc EXCEPT ![p] = "rejected"]
  /\ UNCHANGED <<token, source, read, bridge, port, hostToken, peer>>

(* handleHello at the broker: on a mismatch the token is read again.  The  *)
(* answer is ready, or rejected and a close.                               *)
Hello(p) ==
  /\ pc[p] = "hello" /\ port # None /\ peer[p] = port /\ pc[port] = "host"
  /\ hostToken' = IF token[p] = hostToken THEN hostToken ELSE Reloaded(port)
  /\ pc' = [pc EXCEPT ![p] = IF token[p] = hostToken' THEN "guest" ELSE "rejected"]
  /\ UNCHANGED <<token, source, read, bridge, port, peer>>

(* The socket is closed: by the rejection, or because the host is gone.    *)
SocketCloses(p) ==
  /\ \/ pc[p] = "rejected"
     \/ pc[p] \in {"hello", "guest"} /\ pc[peer[p]] = "gone"
  /\ Reelecting(p, peer)
  /\ UNCHANGED <<token, source, read, bridge, port, hostToken>>

(* reelectMs after the drop.                                               *)
Reelect(p) ==
  /\ pc[p] = "waiting"
  /\ pc' = [pc EXCEPT ![p] = "elect"]
  /\ UNCHANGED <<token, source, read, bridge, port, hostToken, peer>>

(* shutdown() at the exit of the process, or a crash.                      *)
Exit(p) ==
  /\ p \in MayExit /\ pc[p] \notin {"off", "gone"}
  /\ pc' = [pc EXCEPT ![p] = "gone"]
  /\ peer' = [peer EXCEPT ![p] = None]
  /\ IF port = p THEN port' = None /\ hostToken' = None ELSE UNCHANGED <<port, hostToken>>
  /\ UNCHANGED <<token, source, read, bridge>>

Elect(p) ==
  Bind(p) \/ AdvertiseToken(p) \/ BindLost(p) \/ Dial(p) \/ Hello(p) \/ SocketCloses(p) \/ Reelect(p)

Next ==
  \E p \in Procs : ResolveSharedToken(p) \/ WriteBridgeFile(p) \/ Elect(p) \/ Exit(p)

(* Processes that run take their steps; nothing has to start or to exit.   *)
Fairness == \A p \in Procs : WF_endpointVars(WriteBridgeFile(p)) /\ WF_endpointVars(Elect(p))

Spec == Init /\ [][Next]_endpointVars /\ Fairness

-----------------------------------------------------------------------------
Started(p) == pc[p] # "off"

(* The file is there so that "a rotation reaches a running host without a  *)
(* restart" (broker.ts:222-225) and adapters "share a bridge token" (token-*)
(* file.ts:7): whoever took its token from the file is turned away only by *)
(* an MCP server, by an operator's token, or when the file has changed     *)
(* since.  A cold start, in which each generates a token, is the           *)
(* documented exception.                                                   *)
NewcomerIsAccepted ==
  [][\A p \in Procs :
       pc[p] = "hello" /\ pc'[p] = "rejected" /\ source[p] = "file" =>
         port \notin Plugins \/ source[port] = "explicit" \/ read[p] # bridge]_endpointVars

(* A process that runs comes to host or to join, through every failover,   *)
(* unless processes have started with different tokens: those may be kept  *)
(* apart for as long as the host lives (endpoint.ts:174-194).              *)
EverybodyAttaches ==
  \A p \in Procs :
    pc[p] = "elect" ~>
      (pc[p] \in {"host", "guest", "gone"} \/ \E q, r \in Procs :
         Started(q) /\ Started(r) /\ token[q] # token[r])
=============================================================================
