------------------------------ MODULE CdpCapture ------------------------------
(***************************************************************************)
(* extract_token_and_channels_cdp of megaphone/cdp.py: the thread that     *)
(* waits on the debugging socket of the game until it has seen the token   *)
(* and the channel list of a channel switch.  The game and the browser it  *)
(* runs in are not part of the repository: a switch asks for the list,     *)
(* gets it and sends the token, in any order that starts with the question *)
(* before the answer; the browser reports what happens after               *)
(* Network.enable, and answers the thread's requests in any order.         *)
(***************************************************************************)
EXTENDS Integers, Sequences, FiniteSets

CONSTANTS
    CAPTURE_TIMEOUT,
    MaxRequests,        \* bound on the responses the thread asks the bodies of
    MaxInbox            \* bound on the events of the game in the socket

ASSUME TimeoutAssumption == CAPTURE_TIMEOUT \in Nat \ {0}
ASSUME RequestsAssumption == MaxRequests \in Nat

VARIABLES
    pc,                 \* dial, recv, done or raised
    token, channels, channel_api,   \* has it been captured?
    pending, cdp_id,    \* pending_body_requests, the number of requests sent
    inbox,              \* events of the socket that are not read
    owed,               \* requests that the browser has not answered
    quiet, elapsed,     \* time since recv was called and since the first recv
    stages,             \* what of the current switch has happened ...
    reported,           \* ... and has been reported
    switched, whole,    \* history: has a switch begun? one been reported in full?
    missed, failed,     \* history: a request not reported; a body or the socket lost,
                        \* or the body so late that recv has given up
    silent              \* does the game do nothing more?

found == <<token, channels, channel_api>>
requests == <<pending, cdp_id>>
time == <<quiet, elapsed>>
history == <<switched, whole, missed>>
game == <<stages, reported, history, silent>>
vars == <<pc, found, requests, inbox, owed, time, game, failed>>

Stages == {"request", "response", "auth"}
Bodies == {"list", "useless"}
Event(kind) == [kind |-> kind, id |-> 0]
Ended == {"done", "raised"}

Init ==
    /\ pc = "dial"
    /\ token = FALSE /\ channels = FALSE /\ channel_api = FALSE
    /\ pending = {} /\ cdp_id = 0
    /\ inbox = << >> /\ owed = {}
    /\ quiet = 0 /\ elapsed = 0
    /\ stages = {} /\ reported = {}
    /\ switched = FALSE /\ whole = FALSE /\ missed = FALSE
    /\ failed = FALSE /\ silent = FALSE

-----------------------------------------------------------------------------
(* The thread *)

\* connect_cdp, create_connection and Network.enable: the game may not run.
Dial ==
    /\ pc = "dial"
    /\ \/ pc' = "recv" /\ UNCHANGED failed
       \/ pc' \in Ended /\ failed' = TRUE
    /\ UNCHANGED <<found, requests, inbox, owed, time, game>>

\* One event has been handled: stop when both are there, else call recv.
Handled ==
    /\ inbox' = Tail(inbox)
    /\ pc' = IF token' /\ channels' THEN "done" ELSE "recv"
    /\ quiet' = 0
    /\ UNCHANGED <<elapsed, game, failed>>
Reads(kinds) == pc = "recv" /\ inbox # << >> /\ Head(inbox).kind \in kinds

\* Mutant: the request of the game is not looked at.
OnRequest_Ignored ==
    /\ Reads({"request"})
    /\ UNCHANGED <<found, requests, owed>>
    /\ Handled
OnRequest ==
    /\ Reads({"request"})
    /\ channel_api' = TRUE
    /\ UNCHANGED <<token, channels, requests, owed>>
    /\ Handled
OnAuth ==
    /\ Reads({"auth"})
    /\ token' = TRUE
    /\ UNCHANGED <<channels, channel_api, requests, owed>>
    /\ Handled
\* Mutant: the body is asked for and the number not remembered.
OnResponse_NotPending ==
    /\ Reads({"response"})
    /\ cdp_id' = cdp_id + 1
    /\ owed' = owed \cup {cdp_id'}
    /\ UNCHANGED <<found, pending>>
    /\ Handled
\* Network.getResponseBody
OnResponse ==
    /\ Reads({"response"})
    /\ cdp_id' = cdp_id + 1
    /\ owed' = owed \cup {cdp_id'}
    /\ pending' = pending \cup {cdp_id'}
    /\ UNCHANGED found
    /\ Handled
OnBody ==
    /\ Reads(Bodies)
    /\ channels' = (channels \/ (Head(inbox).id \in pending /\ Head(inbox).kind = "list"))
    /\ UNCHANGED <<token, channel_api, requests, owed>>
    /\ Handled
OnOther ==
    /\ Reads({"other"})
    /\ UNCHANGED <<found, requests, owed>>
    /\ Handled

\* Mutant: the thread goes on after the timeout.
TimesOut_GoesOn ==
    /\ pc = "recv" /\ inbox = << >> /\ quiet = CAPTURE_TIMEOUT
    /\ quiet' = 0 /\ failed' = (failed \/ owed # {})
    /\ UNCHANGED <<pc, found, requests, inbox, owed, elapsed, game>>
\* WebSocketTimeoutException: what was found is returned, also when a request is
\* still to be answered.
TimesOut ==
    /\ pc = "recv" /\ inbox = << >> /\ quiet = CAPTURE_TIMEOUT
    /\ pc' = "done" /\ failed' = (failed \/ owed # {})
    /\ UNCHANGED <<found, requests, inbox, owed, time, game>>
\* Any other exception of recv or send: nothing is returned.
Broken ==
    /\ pc = "recv"
    /\ pc' = "raised"
    /\ failed' = TRUE
    /\ UNCHANGED <<found, requests, inbox, owed, time, game>>

Thread == Dial \/ OnRequest \/ OnAuth \/ OnResponse \/ OnBody \/ OnOther \/ TimesOut

-----------------------------------------------------------------------------
(* The game, the browser, the time *)

Fits == pc = "recv" => Len(inbox) < MaxInbox
Responses(box) == {i \in DOMAIN box : box[i].kind = "response"}
Asked == cdp_id + Cardinality(Responses(inbox))
Report(event) == inbox' = IF pc = "recv" THEN Append(inbox, event) ELSE inbox

\* The next stage of a switch; before Network.enable nobody hears of it.
Switch(stage) ==
    /\ ~silent /\ stage \notin stages /\ Fits
    /\ stage = "response" => "request" \in stages /\ Asked < MaxRequests
    /\ stages' = stages \cup {stage}
    /\ Report(Event(stage))
    /\ reported' = IF pc = "recv" THEN reported \cup {stage} ELSE reported
    /\ switched' = TRUE
    /\ whole' = (whole \/ reported' = Stages)
    /\ missed' = (missed \/ (stage = "request" /\ pc = "dial"))
    /\ UNCHANGED <<pc, found, requests, owed, time, silent, failed>>
\* The next switch, which may come before the last one is over.
SwitchAgain ==
    /\ ~silent /\ stages # {}
    /\ stages' = {} /\ reported' = {}
    /\ UNCHANGED <<pc, found, requests, inbox, owed, time, history, silent, failed>>
\* Every other frame and request of the game, heartbeats for example.
Other ==
    /\ ~silent /\ pc = "recv" /\ inbox = << >>
    /\ inbox' = << Event("other") >>
    /\ UNCHANGED <<pc, found, requests, owed, time, game, failed>>
FallSilent ==
    /\ ~silent
    /\ silent' = TRUE
    /\ UNCHANGED <<pc, found, requests, inbox, owed, time, stages, reported, history, failed>>

Reply(id, kind) ==
    /\ id \in owed /\ pc = "recv"
    /\ owed' = owed \ {id}
    /\ inbox' = Append(inbox, [kind |-> kind, id |-> id])
    /\ failed' = (failed \/ kind = "useless")
    /\ UNCHANGED <<pc, found, requests, time, game>>
Browser == \E id \in owed : Reply(id, "list")

\* recv waits, for the game or for an answer of the browser.
Tick ==
    /\ pc = "recv" /\ inbox = << >> /\ quiet < CAPTURE_TIMEOUT
    /\ quiet' = quiet + 1
    /\ elapsed' = IF elapsed > CAPTURE_TIMEOUT THEN elapsed ELSE elapsed + 1
    /\ UNCHANGED <<pc, found, requests, inbox, owed, game, failed>>

Next ==
    \/ Thread \/ Broken \/ SwitchAgain \/ Other \/ FallSilent \/ Tick
    \/ \E stage \in Stages : Switch(stage)
    \/ \E id \in owed, kind \in Bodies : Reply(id, kind)

\* The thread reads what has come, the browser answers, and time passes.
Spec == Init /\ [][Next]_vars /\ WF_vars(Thread) /\ WF_vars(Browser) /\ WF_vars(Tick)

-----------------------------------------------------------------------------
(* Properties *)

\* The types of the variables; part of ListHasAddress.
TypeOK ==
    /\ pc \in {"dial", "recv"} \cup Ended
    /\ {token, channels, channel_api, switched, whole, missed, failed, silent} \subseteq BOOLEAN
    /\ cdp_id \in 0..MaxRequests /\ pending \subseteq 1..cdp_id /\ owed \subseteq pending
    /\ \A i \in 1..Len(inbox) :
          inbox[i].kind \in Stages \cup Bodies \cup {"other"} /\ inbox[i].id \in 0..cdp_id
    /\ quiet \in 0..CAPTURE_TIMEOUT /\ elapsed \in 0..CAPTURE_TIMEOUT + 1
    /\ stages \subseteq Stages /\ reported \subseteq stages

\* One switch that the thread hears of in full is enough, in whatever order its
\* parts, the traffic around it and the answers of the browser come: the thread
\* ends with the token and the list, unless the socket or a body is lost, the body
\* also when recv gives up before it has come (cdp.py:86-143).
SwitchIsEnough ==
    whole ~> failed \/ (pc = "done" /\ token /\ channels)

\* Whoever has the list also has the address it came from, which the poller
\* needs, unless the thread came too late for the question (cdp.py:92-95, 137).
ListHasAddress == TypeOK /\ (channels /\ ~missed => channel_api)

\* When the game falls silent the thread does not wait for ever, with or without
\* unanswered requests (cdp.py:85, 140).
SilenceEnds == silent ~> pc \in Ended

-----------------------------------------------------------------------------
(* What a comment says *)

\* "CDP capture timeout (seconds) - give up if no channel switch occurs."
\* (config.py:30)
GivesUp == pc = "recv" /\ ~switched => elapsed <= CAPTURE_TIMEOUT
=============================================================================
