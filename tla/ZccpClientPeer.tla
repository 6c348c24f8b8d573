---------------------------- MODULE ZccpClientPeer ----------------------------
(***************************************************************************)
(* The client facing an arbitrary ZCCP server: once the actor has greeted  *)
(* it, the server may send any message that zccp_msg_recv accepts, or one  *)
(* that it does not, at any time, asked for or not.                        *)
(***************************************************************************)
EXTENDS ZccpClient

CONSTANTS
    MaxQueue,   \* the server sends only while fewer messages are unread on
                \* either stream
    MaxPipe     \* ... and while fewer actor replies wait in the pipe

VARIABLE
    prompted    \* history: the clients that were ever sent a SUBSCRIBE

peerVars == <<clientVars, prompted>>

ServerSends(c) ==
    /\ state[c] # "start" /\ Alive(c)
    /\ Len(toClient[c]) < MaxQueue /\ Len(toServer[c]) < MaxQueue
    /\ Len(replies[c]) < MaxPipe
    /\ \E m \in Replies :
          /\ SendReply(c, m)
          /\ prompted' = IF m.id = "SUBSCRIBE" THEN prompted \cup {c} ELSE prompted
    /\ UNCHANGED <<clientState, toServer>>

ServerReceives(c) == TakeRequest(c) /\ UNCHANGED <<clientState, toClient, prompted>>

Next ==
    \/ ClientNext /\ UNCHANGED prompted
    \/ \E c \in Clients : ServerSends(c) \/ ServerReceives(c)

Init == ClientInit /\ NetworkInit /\ prompted = {}

ClientSpec == Init /\ [][Next]_peerVars

-----------------------------------------------------------------------------
(* Whatever a server sends and in whatever order, the status that the pipe  *)
(* holds is that of the call the application is in; except after a          *)
(* SUBSCRIBE from the server, which the actor takes for a command of its    *)
(* application and whose SUBSCRIBE_OK it reports although no call waits.    *)
StatusBelongsToCall == \A c \in Clients \ prompted : StatusBelongs(c)
=============================================================================
