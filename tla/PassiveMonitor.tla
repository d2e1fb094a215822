--------------------------- MODULE PassiveMonitor ---------------------------
(***************************************************************************)
(* cdp_megaphone_monitor.py: the main program that looks for game          *)
(* instances and has a CDPClient for each (MultiCDPMonitor), the clients   *)
(* (module MultiCDP), and the store they share (module MessageStore).      *)
(*                                                                         *)
(* The clock of the store stands still: everything happens within both of  *)
(* its windows.  It has no subscribers here.                               *)
(***************************************************************************)
EXTENDS MultiCDP, FiniteSetsExt

CONSTANTS CDP_PORT_START, CDP_PORT_END, MAX_CLIENTS

ASSUME PortAssumption ==
    /\ CDP_PORT_START \in Nat /\ CDP_PORT_END \in Nat
    /\ Ports \subseteq CDP_PORT_START..CDP_PORT_END
    /\ CDP_PORT_END - CDP_PORT_START < MAX_CLIENTS      \* add_client never raises

VARIABLES
    main,               \* where cdp_megaphone_monitor.main is
    probe,              \* detect_active_ports: the next port
    active,             \* ... and those that answered
    clients,            \* ports of MultiCDPMonitor.clients
    adding,             \* where the thread of a port is in store.add
    calls, call, note, targets,                 \* the other variables of the store
    heap, messages, seq, dedup, seenIds, lastSighting, lastHeard

mainVars == <<main, probe, active, clients>>
storeVars == <<adding, calls, call, note, targets, heap, messages, seq, dedup, seenIds,
               lastSighting, lastHeard>>
vars == <<clientVars, mainVars, storeVars>>

Store == INSTANCE MessageStore WITH
    Threads <- Ports, Channels <- Ids, Texts <- 1..MaxFrames,
    MsgIds <- (1..MaxFrames) \X Channels, Queues <- {},
    MSG_ID_TTL <- 1, GLOBAL_DEDUP_WINDOW <- 1, MAX_MESSAGES_PER_CHANNEL <- 1 + MaxFrames,
    MaxClock <- 0, MaxCalls <- 2 * MaxFrames * Cardinality(Ports),
    clock <- 0, pc <- adding, sseQueues <- {}, inbox <- << >>, since <- << >>

Init ==
    /\ ClientInit
    /\ main = "detect" /\ probe = CDP_PORT_START /\ active = {} /\ clients = {}
    /\ Store!Init

-----------------------------------------------------------------------------
(* main() *)

\* detect_active_ports, one port after the other, and again after five seconds
\* as long as none answers.  It is not called again when one has answered.
Probe ==
    /\ main = "detect" /\ probe <= CDP_PORT_END
    /\ active' = IF probe \in Ports /\ up[probe] THEN active \cup {probe} ELSE active
    /\ probe' = probe + 1
    /\ UNCHANGED <<main, clients, clientVars, storeVars>>
Probed ==
    /\ main = "detect" /\ probe > CDP_PORT_END
    /\ IF active = {} THEN probe' = CDP_PORT_START /\ UNCHANGED main
                      ELSE main' = "create" /\ UNCHANGED probe
    /\ UNCHANGED <<active, clients, clientVars, storeVars>>
add_clients(from, to) == clients \cup from..to
\* Clients for all ports from the least to the greatest...
from_port_range ==
    /\ main = "create"
    /\ clients' = add_clients(Min(active), Max(active))
    /\ main' = "remove"
    /\ UNCHANGED <<probe, active, clientVars, storeVars>>
\* ... without those that did not answer.
remove_client ==
    /\ main = "remove"
    /\ clients' = clients \cap active
    /\ main' = "start"
    /\ UNCHANGED <<probe, active, clientVars, storeVars>>
\* MultiCDPMonitor.start and stop; no thread looks at another's running.
Start ==
    /\ main = "start"
    /\ start(clients)
    /\ main' = "monitor"
    /\ UNCHANGED <<probe, active, clients, storeVars>>
\* Ctrl+C.
Interrupt ==
    /\ main = "monitor"
    /\ stop(clients)
    /\ main' = "stopped"
    /\ UNCHANGED <<probe, active, clients, storeVars>>

Main == Probe \/ Probed \/ from_port_range \/ remove_client \/ Start

-----------------------------------------------------------------------------
(* The threads: while one is in store.add it reads no event *)

ReadAndAdd(p) ==
    LET e == Head(events[p]) IN
    /\ ReadFrame(p)
    /\ Store!CallAdd(p, current[p], <<e.text, e.channel>>, e.text)
    /\ UNCHANGED mainVars
Add(p) == Store!Continue(p) /\ UNCHANGED <<clientVars, mainVars>>
Thread(p) ==
    \/ Add(p)
    \/ adding[p] = "idle" /\ ClientStep(p) /\ UNCHANGED <<mainVars, storeVars>>
    \/ adding[p] = "idle" /\ ReadAndAdd(p)

\* Games that did not answer will never be watched; what they do is left out.
Watched == {p \in Ports : active = {} \/ p \in active \/ p >= probe}

Next ==
    \/ Main \/ Interrupt
    \/ \E p \in Ports : Thread(p)
    \/ GameStep(Watched) /\ UNCHANGED <<mainVars, storeVars>>

\* The main program and the threads run (every wait has a timeout).  Nothing is
\* assumed of the games and the user.
Spec == Init /\ [][Next]_vars /\ WF_vars(Main) /\ \A p \in Ports : WF_vars(Thread(p))

-----------------------------------------------------------------------------
(* Properties of the whole *)

Copies(text) == {r \in stored : r.frame.text = text}
Kept(text) == {i \in Store!Refs : heap[i].text = text}
\* The monitor knows that the games heard it in different channels.
ToldApart(r, q) ==
    /\ r.sure /\ q.sure
    /\ ws_url_to_channel_id(r.frame.channel) # ws_url_to_channel_id(q.frame.channel)
TypesOK == Store!TypeOK /\ main \in {"detect", "create", "remove", "start", "monitor", "stopped"}

\* However many games hear a megaphone, in whatever order their threads get to
\* the store, one message is stored for it, unless copies came from two channels
\* that the monitor could not tell apart
\* (multi_cdp.py:48-55, 175-177, store.py:68-114).
OnePerMegaphone ==
    /\ TypesOK
    /\ \A text \in 1..MaxFrames : Cardinality(Kept(text)) > 1 =>
          \E r, q \in Copies(text) :
             r.frame.channel # q.frame.channel /\ ~ToldApart(r, q)

\* ... and when no thread is in the store and there is one message, it is "global"
\* if it came from two channels the monitor tells apart; and a megaphone to one
\* channel is "global" only if one of the games that heard it was not known to be
\* in that channel (multi_cdp.py:152-177, store.py:83-95).  With a second message,
\* which replaces the first in the record, the copies that come later promote
\* the second.
ScopeIsTrue ==
    (\A p \in Ports : adding[p] = "idle") =>
        \A text \in 1..MaxFrames : \A i \in Kept(text) :
            /\ Kept(text) = {i} /\ (\E r, q \in Copies(text) : ToldApart(r, q)) =>
                   heap[i].scope = "global"
            /\ heap[i].scope = "global" =>
                   \E r \in Copies(text) : r.frame.global \/ ~r.sure

\* After Ctrl+C every thread ends, also one that waits for an event, sleeps or
\* is in store.add (multi_cdp.py:125, 147).
StopEnds == main = "stopped" ~> \A p \in Ports : pc[p] \in {"none", "ended"}
=============================================================================
