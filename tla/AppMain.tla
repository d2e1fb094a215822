------------------------------- MODULE AppMain -------------------------------
(***************************************************************************)
(* The start and the end of the direct mode: main() of megaphone/app.py,   *)
(* the capture thread that it stops waiting for after three minutes but    *)
(* that goes on, and the signals.  The two share the variables token and   *)
(* channels; main reads them, filters them and assigns them again.         *)
(*                                                                         *)
(* Module Settings has the files and the command line, module CdpCapture   *)
(* the capture; what it yields is chosen here.  Each run of the program    *)
(* finds any file that an earlier one, or the user, may have left.         *)
(***************************************************************************)
EXTENDS Settings, FiniteSets

CONSTANTS
    EXCLUDED_CHANNELS, CORE_CHANNEL,
    Hostless            \* bound: the sets of channels that may be listed without a host

ASSUME CoreAssumption ==
    /\ EXCLUDED_CHANNELS \subseteq Channels /\ CORE_CHANNEL \in Channels
    /\ Hostless \subseteq SUBSET Channels

VARIABLES
    pc,                 \* where main() is
    explicit, wanted,   \* --channels or selected_channels of the configuration
    overrides,          \* channels with a token in tokens.json
    hostless,           \* channels whose entries have no host
    file, cfg,          \* megaphone_config.json, and what main made of it
    token, channels,    \* shared with the capture thread
    capture, found,     \* the capture thread: where it is, and its channel list
    late,               \* has it assigned channels after main stopped waiting?
    ids, selected, tokens, todo,        \* locals of main
    conns,              \* channel -> token of its ChannelConnection
    poller,             \* has a PopulationPoller been started?
    running,            \* c.running, the same for all of them
    handler, http,      \* signal handler installed? web server up?
    signalled           \* has a signal come?

user == <<explicit, wanted, overrides, hostless>>
config == <<file, cfg>>
shared == <<token, channels>>
thread == <<capture, found, late>>
locals == <<ids, selected, tokens, todo>>
server == <<handler, http, signalled>>
world == <<conns, poller, running, server>>
vars == <<pc, user, config, shared, thread, locals, world>>

Tokens == {NoToken, "captured", "saved", "own"}
Waits == {"stuck", "idle"}      \* the loops that keep only the web server alive
\* "refused" and "unsaved": exceptions while the files are read and written.
Over == {"exited", "refused", "unsaved", "crashed", "killed"}
PCs == {"start", "source", "join", "check", "token", "wait", "save", "list", "write", "normal",
        "exclude", "ids", "decide", "select", "tokens", "drop", "print", "poll", "connect", "monitor"}
            \cup Waits \cup Over
\* Where main reads the list and assigns it again.
Filters == {"check", "exclude", "select", "drop"}
Normalized == {"exclude", "ids", "decide", "select", "tokens", "drop", "print", "poll", "connect"}
\* Where it goes through a list that it takes for one of integers.
Loops == {"exclude", "ids", "select", "tokens", "drop", "print", "connect"}

Init ==
    /\ pc = "start"
    /\ explicit = FALSE /\ wanted = {} /\ overrides = {} /\ hostless \in Hostless
    /\ file \in {f \in ConfigFile : f.cfg.token # "captured"} /\ cfg = NoSettings
    /\ token = NoToken /\ channels = {}
    /\ capture = "off" /\ found = {} /\ late = FALSE
    /\ ids = {} /\ selected = {} /\ tokens = << >> /\ todo = {}
    /\ conns = << >> /\ poller = FALSE /\ running = TRUE
    /\ handler = FALSE /\ http = FALSE /\ signalled = FALSE

-----------------------------------------------------------------------------
(* main(), up to the choice of the channels *)

\* A missing dependency (megaphone_server.py); an exception of load_config, of
\* tokens.json when it is no object, or of a port that is taken.
NoDependency ==
    /\ pc = "start"
    /\ pc' = "exited"
    /\ UNCHANGED <<user, config, shared, thread, locals, world>>
StartRaises ==
    /\ pc = "start"
    /\ pc' = "refused"
    /\ UNCHANGED <<user, config, shared, thread, locals, world>>
\* The files are read and the web server is started.  --channels goes before
\* selected_channels.  A port that is none would raise OverflowError; a token
\* that is no text has no strip(), when the server is up already.
ReadFiles ==
    /\ pc = "start" /\ file.state \notin Unreadable
    /\ cfg' = load_config(file)
    /\ \E argv \in Args, raw \in TokenFiles, port \in PortValues :
          LET given == parse_selected_channels(argv) IN
          /\ wanted' = IF given # {} THEN given ELSE cfg'.selected_channels
          /\ overrides' = load_token_overrides(raw)
          /\ http' = (normalize_port(port, WEB_PORT) \in PortNumbers)
    /\ explicit' = (wanted' # {})
    /\ pc' = IF http' /\ file.state # "badtoken" THEN "source" ELSE "crashed"
    /\ UNCHANGED <<hostless, file, shared, thread, locals, conns, poller, running, handler, signalled>>

UseSaved ==
    /\ pc = "source" /\ cfg.token # NoToken /\ cfg.channels # {}
    /\ token' = cfg.token /\ channels' = cfg.channels
    /\ pc' = "normal"
    /\ UNCHANGED <<user, config, thread, locals, world>>
StartCapture ==
    /\ pc = "source" /\ (cfg.token = NoToken \/ cfg.channels = {})
    /\ capture' = "running"
    /\ pc' = "join"
    /\ UNCHANGED <<user, config, shared, found, late, locals, world>>

\* The thread has ended, or 180 seconds are over.
Joined ==
    /\ pc = "join"
    /\ pc' = "check"
    /\ UNCHANGED <<user, config, shared, thread, locals, world>>

\* No channel list captured: that of the configuration, or none at all.
CheckChannels ==
    /\ pc = "check"
    /\ channels' = IF channels = {} THEN cfg.channels ELSE channels
    /\ pc' = IF channels' = {} THEN "stuck" ELSE "token"
    /\ UNCHANGED <<user, config, token, thread, locals, world>>
CheckToken ==
    /\ pc = "token"
    /\ token' = IF token = NoToken /\ overrides = {} THEN cfg.token ELSE token
    /\ pc' = IF token' = NoToken /\ overrides = {} THEN "wait" ELSE "save"
    /\ UNCHANGED <<user, config, channels, thread, locals, world>>
\* Mutant: the wait goes on for ever.
WaitOver_Never == FALSE
\* Every five seconds, for half an hour.
TokenCame ==
    /\ pc = "wait" /\ token # NoToken
    /\ pc' = "save"
    /\ UNCHANGED <<user, config, shared, thread, locals, world>>
WaitOver ==
    /\ pc = "wait" /\ token = NoToken
    /\ http' = FALSE
    /\ pc' = "exited"
    /\ UNCHANGED <<user, config, shared, thread, locals, conns, poller, running, handler, signalled>>

\* Mutant: only the channel list is saved.
SaveToken_Not == pc = "save" /\ pc' = "list"
                 /\ UNCHANGED <<user, config, shared, thread, locals, world>>
\* cfg gets the token, if there is one, and then the list.
SaveToken ==
    /\ pc = "save"
    /\ cfg' = [cfg EXCEPT !.token = IF token # NoToken THEN token ELSE @]
    /\ pc' = "list"
    /\ UNCHANGED <<user, file, shared, thread, locals, world>>
\* save_config: open("w") truncates the file.
SaveList ==
    /\ pc = "list"
    /\ cfg' = [cfg EXCEPT !.channels = channels]
    /\ file' = Truncated
    /\ pc' = "write"
    /\ UNCHANGED <<user, shared, thread, locals, world>>
\* A part of the text reaches the disk.
WritePart ==
    /\ pc = "write" /\ file = Truncated
    /\ file' = [Truncated EXCEPT !.state = "cut"]
    /\ UNCHANGED <<pc, user, cfg, shared, thread, locals, world>>
\* Mutant: what is written is a new dictionary.
Write_Fresh ==
    /\ pc = "write"
    /\ file' = [state |-> "whole", cfg |-> [cfg EXCEPT !.selected_channels = {}]]
    /\ pc' = "normal"
    /\ UNCHANGED <<user, cfg, shared, thread, locals, world>>
Write ==
    /\ pc = "write"
    /\ file' = [state |-> "whole", cfg |-> cfg]
    /\ pc' = "normal"
    /\ UNCHANGED <<user, cfg, shared, thread, locals, world>>
\* OSError: the file cannot be opened, or the disk is full.
SaveRaises ==
    /\ pc \in {"list", "write"}
    /\ pc' = "unsaved"
    /\ UNCHANGED <<user, config, shared, thread, locals, world>>

-----------------------------------------------------------------------------
(* The channels to connect to *)

\* The ids are made integers; int(), or the missing key, raises.
Normalize ==
    /\ pc = "normal"
    /\ pc' = IF channels \subseteq Channels THEN "exclude" ELSE "crashed"
    /\ UNCHANGED <<user, config, shared, thread, locals, world>>
\* So may an entry of a list that came later.
EntryRaises ==
    /\ pc \in Loops /\ Text \in IF pc = "connect" THEN todo ELSE channels
    /\ pc' = "crashed"
    /\ UNCHANGED <<user, config, shared, thread, locals, world>>

Keep(from, S, to) ==
    /\ pc = from
    /\ channels' = channels \cap S
    /\ pc' = to

\* Mutant: the list is used as it was captured.
Exclude_Forgotten ==
    /\ Keep("exclude", Entries, "ids")
    /\ UNCHANGED <<user, config, token, thread, locals, world>>
Exclude ==
    /\ Keep("exclude", Entries \ EXCLUDED_CHANNELS, "ids")
    /\ UNCHANGED <<user, config, token, thread, locals, world>>
\* available_ids, and the first populations.
AvailableIds ==
    /\ pc = "ids"
    /\ ids' = channels
    /\ pc' = "decide"
    /\ UNCHANGED <<user, config, shared, thread, selected, tokens, todo, world>>

\* Mutant: without a selection, all channels.
decide_selected_channels_All(choice) ==
    choice = IF explicit THEN wanted
             ELSE IF overrides # {} THEN overrides ELSE ids
\* What the function may return; nothing when available_ids[0] raises.
decide_selected_channels(choice) ==
    \/ explicit /\ choice = wanted
    \/ ~explicit /\ overrides # {} /\ choice = overrides
    \/ /\ ~explicit /\ overrides = {}
       /\ IF CORE_CHANNEL \in ids THEN choice = {CORE_CHANNEL}
          ELSE \E first \in ids : choice = {first}
Decide ==
    /\ pc = "decide"
    /\ \E choice \in SUBSET Entries :
          decide_selected_channels(choice) /\ selected' = choice
    /\ pc' = "select"
    /\ UNCHANGED <<user, config, shared, thread, ids, tokens, todo, world>>
NothingToDecide ==
    /\ pc = "decide" /\ ~explicit /\ overrides = {} /\ ids = {}
    /\ pc' = "crashed"
    /\ UNCHANGED <<user, config, shared, thread, locals, world>>
Select ==
    /\ Keep("select", selected, "tokens")
    /\ UNCHANGED <<user, config, token, thread, locals, world>>

-----------------------------------------------------------------------------
(* Their tokens *)

\* Mutant: the captured token comes first.
TokenFor_CapturedFirst(c) ==
    IF token # NoToken THEN token ELSE IF c \in overrides THEN "own" ELSE NoToken
TokenFor(c) == IF c \in overrides THEN "own" ELSE token
\* "Not in list", or resolve_channel_tokens.
ResolveTokens ==
    /\ pc = "tokens"
    /\ IF channels = {}
       THEN pc' = "exited" /\ UNCHANGED tokens
       ELSE /\ tokens' = [c \in {d \in channels : TokenFor(d) # NoToken} |-> TokenFor(c)]
            /\ pc' = "drop"
    /\ UNCHANGED <<user, config, shared, thread, ids, selected, todo, world>>
\* Mutant: channels without a token stay in the list.
DropMissing_Kept ==
    /\ pc = "drop"
    /\ todo' = channels
    /\ pc' = "print"
    /\ UNCHANGED <<user, config, shared, thread, ids, selected, tokens, world>>
\* Mutant: the channels with a token of their own are connected elsewhere.
DropMissing_CapturedOnly ==
    /\ pc = "drop"
    /\ channels' = {c \in channels \cap DOMAIN tokens : tokens[c] = token}
    /\ todo' = channels'
    /\ pc' = IF channels' = {} THEN "idle" ELSE "print"
    /\ UNCHANGED <<user, config, token, thread, ids, selected, tokens, world>>
\* The channels without a token are left out; the loop below takes the list.
DropMissing ==
    /\ pc = "drop"
    /\ channels' = channels \cap DOMAIN tokens
    /\ todo' = channels'
    /\ pc' = IF channels' = {} THEN "idle" ELSE "print"
    /\ UNCHANGED <<user, config, token, thread, ids, selected, tokens, world>>

\* The list is printed, with the hosts.
PrintChannels ==
    /\ pc = "print"
    /\ pc' = IF channels \cap hostless = {} THEN "poll" ELSE "crashed"
    /\ UNCHANGED <<user, config, shared, thread, locals, world>>

\* With the address of the list, if the thread has assigned that by now, and if
\* it has found one (it may not, see ListHasAddress of CdpCapture).
StartPoller ==
    /\ pc = "poll"
    /\ poller' \in {FALSE, capture = "done" /\ found # {}}
    /\ pc' = "connect"
    /\ UNCHANGED <<user, config, shared, thread, locals, conns, running, server>>

\* An assignment of the capture thread between the filter and the loop.
LateList ==
    /\ pc \in {"print", "poll", "connect"} /\ conns = << >> /\ todo # channels
    /\ todo' = channels
    /\ UNCHANGED <<pc, user, config, shared, thread, ids, selected, tokens, world>>
Connect(c) ==
    /\ pc = "connect" /\ c \in todo
    /\ IF c \in DOMAIN tokens \ hostless
       THEN /\ conns' = [d \in DOMAIN conns \cup {c} |-> tokens[d]]
            /\ todo' = todo \ {c}
            /\ UNCHANGED pc
       ELSE pc' = "crashed" /\ UNCHANGED <<conns, todo>>
    /\ UNCHANGED <<user, config, shared, thread, ids, selected, tokens, poller, running, server>>
InstallHandler ==
    /\ pc = "connect" /\ todo = {}
    /\ handler' = TRUE
    /\ pc' = "monitor"
    /\ UNCHANGED <<user, config, shared, thread, locals, conns, poller, running, http, signalled>>

-----------------------------------------------------------------------------
(* The capture thread: it may find a token, a list, mostly with its address, *)
(* both or none, or raise; it assigns one after the other.                   *)

CaptureFinds(t, list) ==
    /\ capture = "running"
    /\ capture' = "assign"
    /\ found' = list
    /\ token' = IF t # NoToken THEN t ELSE token
    /\ UNCHANGED <<pc, user, config, channels, late, locals, world>>
\* While main filters the list, its assignment may overwrite this one.  A list
\* that comes after the ids were made integers keeps them as they are: mostly
\* texts, and no text is in a set of integers.
CaptureAssigns ==
    /\ capture = "assign"
    /\ capture' = IF found = {} THEN "done" ELSE "address"
    /\ IF found = {}
       THEN UNCHANGED <<channels, late>>
       ELSE \/ /\ late' = (pc # "join")
               /\ \/ channels' = found
                  \/ pc \in Normalized /\ channels' = {Text}
            \/ pc \in Filters /\ UNCHANGED <<channels, late>>
    /\ UNCHANGED <<pc, user, config, token, found, locals, world>>
CaptureAddress ==
    /\ capture = "address"
    /\ capture' = "done"
    /\ UNCHANGED <<pc, user, config, shared, found, late, locals, world>>
CaptureRaises ==
    /\ capture = "running"
    /\ capture' = "done"
    /\ UNCHANGED <<pc, user, config, shared, found, late, locals, world>>

-----------------------------------------------------------------------------
(* Signals *)

\* SIGINT before the handler is installed: KeyboardInterrupt, which only the
\* waiting loops catch.
Interrupted ==
    /\ ~signalled /\ ~handler /\ pc \notin Over
    /\ signalled' = TRUE
    /\ IF pc \in Waits THEN http' = FALSE /\ pc' = "exited"
                       ELSE pc' = "crashed" /\ UNCHANGED http
    /\ UNCHANGED <<user, config, shared, thread, locals, conns, poller, running, handler>>
Terminated ==
    /\ ~signalled /\ ~handler /\ pc \notin Over
    /\ signalled' = TRUE
    /\ pc' = "killed"
    /\ UNCHANGED <<user, config, shared, thread, locals, conns, poller, running, handler, http>>
\* shutdown_handler, for SIGINT and SIGTERM: it returns to the loop.
shutdown_handler ==
    /\ handler /\ ~signalled /\ pc = "monitor"
    /\ signalled' = TRUE
    /\ running' = FALSE
    /\ UNCHANGED <<pc, user, config, shared, thread, locals, conns, poller, handler, http>>

-----------------------------------------------------------------------------
Main ==
    \/ NoDependency \/ StartRaises \/ ReadFiles
    \/ UseSaved \/ StartCapture \/ Joined \/ CheckChannels \/ CheckToken \/ TokenCame
    \/ WaitOver \/ SaveToken \/ SaveList \/ WritePart \/ Write \/ SaveRaises
    \/ Normalize \/ EntryRaises \/ Exclude \/ AvailableIds \/ Decide \/ NothingToDecide \/ Select
    \/ ResolveTokens \/ DropMissing \/ PrintChannels \/ StartPoller \/ LateList
    \/ InstallHandler \/ \E c \in Entries : Connect(c)
Capture ==
    /\ pc \notin Over
    /\ \/ \E t \in {NoToken, "captured"}, list \in Lists \cup {{}} : CaptureFinds(t, list)
       \/ CaptureAssigns \/ CaptureAddress \/ CaptureRaises
Signal == Interrupted \/ Terminated \/ shutdown_handler

Next == Main \/ Capture \/ Signal

\* main never blocks for ever: its waits are limited and its loops sleep.
\* Nothing is assumed of the capture and the user.
Spec == Init /\ [][Next]_vars /\ WF_vars(Main)

-----------------------------------------------------------------------------
(* Properties *)

\* The types of the variables; part of NoOtherCrash.
TypeOK ==
    /\ pc \in PCs /\ explicit \in BOOLEAN
    /\ {wanted, overrides, hostless} \subseteq SUBSET Channels
    /\ {channels, found, ids, selected, todo} \subseteq SUBSET Entries
    /\ file \in ConfigFile /\ cfg \in Cfg /\ token \in Tokens
    /\ capture \in {"off", "running", "assign", "address", "done"}
    /\ {late, poller, running, handler, http, signalled} \subseteq BOOLEAN
    /\ DOMAIN tokens \subseteq Entries /\ DOMAIN conns \subseteq DOMAIN tokens
    /\ \A c \in DOMAIN tokens : tokens[c] \in Tokens \ {NoToken}

\* As long as the capture thread does not assign a list after main stopped
\* waiting for it, whatever the user and the files say: only channels that were
\* selected are connected, never an excluded one, and a channel that has a
\* token of its own uses that (app.py:183-207, tokens.py:48-60).
ConnectionsAllowed ==
    ~late => \A c \in DOMAIN conns :
                /\ c \in selected \ EXCLUDED_CHANNELS
                /\ explicit => c \in wanted
                /\ c \in overrides <=> conns[c] = "own"

\* ... and when all are started, no selected channel of the list was forgotten
\* that has a token of its own, nor, without tokens.json, any (app.py:200-251).
NoneForgotten ==
    ~late /\ pc = "monitor" =>
        \A c \in (ids \cap selected) \ EXCLUDED_CHANNELS :
            c \in overrides \/ overrides = {} => c \in DOMAIN conns

\* Without a selection and without tokens of their own, no two channels get
\* the one token, of which the server allows one session (app.py:63-78,
\* README.md:160).
OneSessionPerToken ==
    ~late /\ ~explicit => \A c, d \in DOMAIN conns :
        conns[c] = conns[d] /\ conns[c] # "own" => c = d

\* When main monitors, the configuration can be read, and still has what the
\* user selected there; without tokens.json it has a channel list and the very
\* token the connections use, captured late or not: the next run needs no
\* capture.  Selections that a file had which was no JSON are lost, as they are
\* not read (app.py:89-95, 177-181, config.py:109-152).
NextRunKnows ==
    pc = "monitor" =>
        LET next == load_config(file) IN
        /\ file.state \notin Unreadable \cup {"badtoken"}
        /\ next.selected_channels = cfg.selected_channels
        /\ overrides = {} =>
              next.channels # {} /\ \A c \in DOMAIN conns : conns[c] = next.token

\* Once the web server is up and as long as the file can be written, main ends
\* with an exception only for a signal, a late list, a token in the file that
\* is no text, a list that has an entry without an integer as its id, or that
\* has nothing but excluded channels when nothing is selected, or a channel to
\* connect to that is listed without a host (app.py:78, 105, 183-185, 233,
\* 247-248).  The list with the bad entry is saved before it is looked at.
NoOtherCrash ==
    /\ TypeOK
    /\ pc = "crashed" =>
          \/ signalled \/ late
          \/ /\ http
             /\ \/ file.state = "badtoken"
                \/ Text \in cfg.channels
                \/ ~explicit /\ overrides = {} /\ cfg.channels # {}
                   /\ cfg.channels \subseteq EXCLUDED_CHANNELS
                \/ channels \cap hostless # {}

\* Whatever the capture does, or does not do, main comes to an end of its
\* start: it monitors, keeps the web server alive, or is over (app.py:124-175).
StartEnds == <>(pc \in {"monitor"} \cup Waits \cup Over)

-----------------------------------------------------------------------------
(* What the program prints and a test says *)

\* "Press Ctrl+C to exit" (app.py:254).
CtrlCExits == signalled ~> pc \in Over

\* "the secret channel (19) is excluded from the connections even if the
\* selection contains it" (tests/test_app.py:133, in Korean).
ExcludedNeverConnected == DOMAIN conns \cap EXCLUDED_CHANNELS = {}
=============================================================================
