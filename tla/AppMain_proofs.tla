---------------------------- MODULE AppMain_proofs ----------------------------
(***************************************************************************)
(* The theorems of AppMain, for any channels, lists, selections, excluded  *)
(* channels and core channel, whatever the files say, whatever the capture *)
(* thread does and whenever a signal comes.                                *)
(***************************************************************************)
EXTENDS AppMain, TLAPS

\* The places of main, in the order in which it gets there.
Asking == {"join", "check", "token", "wait"}
Saving == {"save", "list", "write"}
Filtered == {"drop", "print", "poll", "connect", "monitor", "idle"}      \* after the filters
Decided == {"select", "tokens"} \cup Filtered
Counted == {"decide"} \cup Decided
Excluded == {"ids"} \cup Counted
Known == {"normal", "exclude"} \cup Excluded      \* token and list are known

Begun == DOMAIN conns # {}              \* the loop that connects has begun

\* The types, where they depend on the place: a list is saved before it is
\* filtered, and there are no connections before there are tokens.
TypeInv ==
    /\ TypeOK
    /\ token # "own"
    /\ found \in Lists \cup {{}}
    /\ pc \in {"start", "source"} \cup Asking \cup {"save", "list"} =>
          channels \in Lists \cup {{}}
    /\ Begun => pc \in {"connect", "monitor"} \cup Over

\* What the capture thread has done: it is not started before it is needed, and
\* it assigns a list once.
CaptureInv ==
    /\ pc \in {"start", "source"} => capture = "off" /\ channels = {} /\ token = NoToken
    /\ capture \in {"off", "running", "assign"} => ~late

\* When main has a token to go on with, and no channel has one of its own, the
\* capture thread will not assign another: either the configuration had a
\* token, and then the list came from the thread, or the token did.
TokenInv ==
    /\ pc \in Asking => cfg.token = NoToken \/ cfg.channels = {}
    /\ pc \in {"join", "check"} /\ capture \in {"running", "assign"} => channels = {}
    /\ pc \in {"token", "wait"} /\ capture \in {"running", "assign"} => cfg.token = NoToken
    /\ pc \in Asking /\ capture = "running" => token = NoToken
    /\ pc \in Saving \cup Known /\ overrides = {} => token # NoToken /\ capture # "running"
    /\ pc \in {"list", "write"} \cup Known /\ overrides = {} => cfg.token = token

\* There is a list, and the file holds what main has in cfg.
FileInv ==
    /\ pc = "source" => cfg = load_config(file)
    /\ pc \in {"token", "wait", "save", "list"} => channels # {}
    /\ pc \in {"write"} \cup Known => cfg.channels # {}
    /\ pc \in Known => file.state = "whole" /\ file.cfg = cfg

\* What is selected, and which tokens the channels get.
ChoiceInv ==
    /\ pc \in Decided \/ Begun => decide_selected_channels(selected)
    /\ pc \in Filtered \/ Begun =>
          \A c \in DOMAIN tokens : /\ tokens[c] = "own" <=> c \in overrides
                                   /\ overrides = {} => tokens[c] = token
    /\ \A c \in DOMAIN conns : conns[c] = tokens[c]

\* What is in the list after each of the filters, if it is main's own.
ListInv ==
    /\ pc \in {"write", "normal", "exclude"} => channels = cfg.channels
    /\ pc = "ids" => channels = cfg.channels \ EXCLUDED_CHANNELS
    /\ pc \in Counted => ids = cfg.channels \ EXCLUDED_CHANNELS
    /\ pc \in {"exclude"} \cup Excluded => channels \subseteq Channels
    /\ pc \in {"poll", "connect"} => channels \cap hostless = {}
    /\ pc \in Excluded => channels \cap EXCLUDED_CHANNELS = {}
    /\ pc \in Counted \/ Begun => ids \cap EXCLUDED_CHANNELS = {}
    /\ pc \in {"decide", "select"} => channels = ids
    /\ pc \in {"tokens", "drop"} => channels = ids \cap selected
    /\ pc \in Filtered \/ Begun => DOMAIN tokens \subseteq ids \cap selected
    /\ pc \in Filtered => \A c \in ids \cap selected :
                              c \in overrides \/ overrides = {} => c \in DOMAIN tokens
    /\ pc \in {"print", "poll", "connect", "monitor"} => channels = DOMAIN tokens
    /\ pc \in {"print", "poll", "connect"} => todo \cup DOMAIN conns = channels
    /\ pc = "monitor" => DOMAIN conns = channels

Causes ==
    \/ file.state = "badtoken"
    \/ Text \in cfg.channels
    \/ /\ ~explicit /\ overrides = {} /\ cfg.channels # {}
       /\ cfg.channels \subseteq EXCLUDED_CHANNELS
    \/ channels \cap hostless # {}
CrashInv ==
    /\ pc \notin {"start"} \cup Over => http
    /\ pc = "crashed" => signalled \/ late \/ (http /\ Causes)

IInv == TypeInv /\ CaptureInv /\ TokenInv /\ FileInv /\ ChoiceInv /\ (~late => ListInv) /\ CrashInv

-----------------------------------------------------------------------------
(* What main reads *)

\* What is made of any file can be used as settings.
LEMMA LoadedIsCfg ==
    ASSUME NEW f \in ConfigFile
    PROVE  load_config(f) \in Cfg /\ load_config(f).selected_channels \in SUBSET Channels
<1>1. load_config(f) \in Cfg
    BY DEF load_config, ConfigFile, Cfg, NoSettings, NoToken
<1> QED
    BY <1>1, SettingsAssumption DEF Cfg

\* The lists of Settings are sets of entries.
LEMMA ListsAreEntries == Lists \cup {{}} \subseteq SUBSET Entries
BY SettingsAssumption

\* What main takes from its settings, and what it writes into them.
LEMMA CfgFields ==
    ASSUME NEW f \in Cfg
    PROVE  /\ f.token \in {NoToken, "saved", "captured"}
           /\ f.channels \in Lists \cup {{}}
           /\ \A t \in {NoToken, "saved", "captured"} : [f EXCEPT !.token = t] \in Cfg
           /\ \A l \in Lists \cup {{}} : [f EXCEPT !.channels = l] \in Cfg
           /\ [state |-> "whole", cfg |-> f] \in ConfigFile
BY DEF Cfg, ConfigFile

\* What the file is while it is written.
LEMMA TruncatedIsFile ==
    Truncated \in ConfigFile /\ [Truncated EXCEPT !.state = "cut"] \in ConfigFile
BY DEF Truncated, ConfigFile, Unreadable

\* Whatever is set, the web server gets a port.
LEMMA PortIsOne == \A port : normalize_port(port, WEB_PORT) \in PortNumbers
BY DEF normalize_port, WEB_PORT, PortNumbers

\* The whole effect of the step that reads the files and the command line.
LEMMA ReadFilesDoes ==
    ASSUME TypeOK, ReadFiles
    PROVE  /\ pc = "start" /\ http' = TRUE
           /\ pc' = IF file.state # "badtoken" THEN "source" ELSE "crashed"
           /\ cfg' = load_config(file) /\ cfg' \in Cfg
           /\ wanted' \in SUBSET Channels /\ overrides' \in SUBSET Channels
           /\ explicit' = (wanted' # {})
           /\ UNCHANGED <<hostless, file, token, channels, capture, found, late, ids, selected, tokens,
                          todo, conns, poller, running, handler, signalled>>
<1>1. /\ cfg' = load_config(file)
      /\ explicit' = (wanted' # {})
      /\ pc = "start" /\ pc' = IF http' /\ file.state # "badtoken" THEN "source" ELSE "crashed"
      /\ UNCHANGED <<hostless, file, token, channels, capture, found, late, ids, selected, tokens,
                     todo, conns, poller, running, handler, signalled>>
    BY DEF ReadFiles, shared, thread, locals
<1>2. cfg' \in Cfg /\ cfg'.selected_channels \in SUBSET Channels
    BY <1>1, LoadedIsCfg DEF TypeOK
<1>3. PICK argv \in Args, raw \in TokenFiles, port \in PortValues :
          /\ wanted' = IF parse_selected_channels(argv) # {} THEN parse_selected_channels(argv)
                                                            ELSE cfg'.selected_channels
          /\ overrides' = load_token_overrides(raw)
          /\ http' = (normalize_port(port, WEB_PORT) \in PortNumbers)
    BY DEF ReadFiles
<1>4. http' = TRUE
    BY <1>3, PortIsOne
<1>5. wanted' \in SUBSET Channels
  <2>1. parse_selected_channels(argv) \in SUBSET Channels
    BY DEF parse_selected_channels
  <2> QED
    BY <1>2, <1>3, <2>1
<1>6. overrides' \in SUBSET Channels
    BY <1>3 DEF load_token_overrides
<1> QED
    BY <1>1, <1>2, <1>4, <1>5, <1>6

-----------------------------------------------------------------------------

\* Every step keeps the types.
LEMMA TypeStep ==
    ASSUME TypeInv, [Next]_vars PROVE TypeInv'
<1> USE DEF TypeInv, TypeOK, PCs, Waits, Over, Filters, Normalized, Loops, Tokens, Asking, Saving, Filtered, Decided, Counted, Excluded, Known, Begun, Keep,
         user, config, shared, thread, locals, server, world
<1>1. CASE NoDependency \/ StartRaises \/ UseSaved
  <2>1. cfg.channels \in SUBSET Entries
    BY CfgFields, ListsAreEntries
  <2> QED
    BY <1>1, <2>1, CfgFields DEF NoDependency, StartRaises, UseSaved
<1>2. CASE ReadFiles
    BY <1>2, ReadFilesDoes
<1>3. CASE StartCapture \/ Joined \/ CheckChannels \/ CheckToken \/ TokenCame \/ WaitOver
  <2>1. cfg.channels \in SUBSET Entries
    BY CfgFields, ListsAreEntries
  <2>2. CASE StartCapture \/ Joined
    BY <2>2 DEF StartCapture, Joined
  <2>3. CASE CheckChannels
    BY <2>1, <2>3, CfgFields DEF CheckChannels
  <2>4. CASE CheckToken
    BY <2>4, CfgFields DEF CheckToken
  <2>5. CASE TokenCame \/ WaitOver
    BY <2>5 DEF TokenCame, WaitOver
  <2> QED
    BY <1>3, <2>2, <2>3, <2>4, <2>5
<1>4. CASE SaveToken \/ SaveList \/ WritePart \/ Write \/ SaveRaises
  <2>1. CASE SaveToken
    BY <2>1, CfgFields DEF SaveToken
  <2>2. CASE SaveList
    BY <2>2, CfgFields, TruncatedIsFile DEF SaveList
  <2>3. CASE WritePart
    BY <2>3, TruncatedIsFile DEF WritePart
  <2>4. CASE Write
    BY <2>4, CfgFields DEF Write
  <2>5. CASE SaveRaises
    BY <2>5 DEF SaveRaises
  <2> QED
    BY <1>4, <2>1, <2>2, <2>3, <2>4, <2>5
<1>5. CASE Normalize \/ EntryRaises \/ Exclude \/ AvailableIds \/ Decide \/ NothingToDecide \/ Select
    BY <1>5 DEF Normalize, EntryRaises, Exclude, AvailableIds, Decide, NothingToDecide, Select
<1>6. CASE ResolveTokens \/ DropMissing \/ PrintChannels \/ StartPoller \/ LateList \/ InstallHandler
  <2>1. CASE ResolveTokens
    BY <2>1 DEF ResolveTokens, TokenFor
  <2>2. CASE DropMissing
    BY <2>2 DEF DropMissing
  <2>3. CASE PrintChannels \/ StartPoller \/ LateList \/ InstallHandler
    BY <2>3 DEF PrintChannels, StartPoller, LateList, InstallHandler
  <2> QED
    BY <1>6, <2>1, <2>2, <2>3
<1>7. ASSUME NEW c \in Entries, Connect(c) PROVE TypeInv'
    BY <1>7 DEF Connect
<1>8. ASSUME NEW t \in {NoToken, "captured"}, NEW list \in Lists \cup {{}}, CaptureFinds(t, list),
           pc \notin Over
      PROVE TypeInv'
    BY <1>8, ListsAreEntries DEF CaptureFinds
<1>9. CASE pc \notin Over /\ (CaptureAssigns \/ CaptureAddress \/ CaptureRaises)
    BY <1>9 DEF CaptureAssigns, CaptureAddress, CaptureRaises, Entries
<1>10. CASE Signal
    BY <1>10 DEF Signal, Interrupted, Terminated, shutdown_handler
<1>11. CASE UNCHANGED vars
    BY <1>11 DEF vars
<1> QED
    BY <1>1, <1>2, <1>3, <1>4, <1>5, <1>6, <1>7, <1>8, <1>9, <1>10, <1>11 DEF Next, Main, Capture

\* Every step keeps what is known of the capture thread.
LEMMA CaptureStep ==
    ASSUME CaptureInv, [Next]_vars PROVE CaptureInv'
<1> USE DEF CaptureInv, PCs, Waits, Over, Filters, Normalized, Loops, Asking, Saving, Filtered, Decided, Counted, Excluded, Known, Begun, Keep,
         user, config, shared, thread, locals, server, world
<1>1. CASE NoDependency \/ StartRaises \/ UseSaved
    BY <1>1 DEF NoDependency, StartRaises, UseSaved
<1>2. CASE ReadFiles
    BY <1>2 DEF ReadFiles
<1>3. CASE StartCapture \/ Joined \/ CheckChannels \/ CheckToken \/ TokenCame \/ WaitOver
    BY <1>3 DEF StartCapture, Joined, CheckChannels, CheckToken, TokenCame, WaitOver
<1>4. CASE SaveToken \/ SaveList \/ WritePart \/ Write \/ SaveRaises
    BY <1>4 DEF SaveToken, SaveList, WritePart, Write, SaveRaises
<1>5. CASE Normalize \/ EntryRaises \/ Exclude \/ AvailableIds \/ Decide \/ NothingToDecide \/ Select
    BY <1>5 DEF Normalize, EntryRaises, Exclude, AvailableIds, Decide, NothingToDecide, Select
<1>6. CASE ResolveTokens \/ DropMissing \/ PrintChannels \/ StartPoller \/ LateList \/ InstallHandler
  <2>1. CASE ResolveTokens \/ DropMissing \/ PrintChannels \/ LateList \/ InstallHandler
    BY <2>1 DEF ResolveTokens, DropMissing, PrintChannels, LateList, InstallHandler
  <2>2. CASE StartPoller
    BY <2>2 DEF StartPoller
  <2> QED
    BY <1>6, <2>1, <2>2
<1>7. ASSUME NEW c \in Entries, Connect(c) PROVE CaptureInv'
    BY <1>7 DEF Connect
<1>8. ASSUME NEW t \in {NoToken, "captured"}, NEW list \in Lists \cup {{}}, CaptureFinds(t, list),
           pc \notin Over
      PROVE CaptureInv'
    BY <1>8 DEF CaptureFinds
<1>9. CASE pc \notin Over /\ (CaptureAssigns \/ CaptureAddress \/ CaptureRaises)
    BY <1>9 DEF CaptureAssigns, CaptureAddress, CaptureRaises
<1>10. CASE Signal
    BY <1>10 DEF Signal, Interrupted, Terminated, shutdown_handler
<1>11. CASE UNCHANGED vars
    BY <1>11 DEF vars
<1> QED
    BY <1>1, <1>2, <1>3, <1>4, <1>5, <1>6, <1>7, <1>8, <1>9, <1>10, <1>11 DEF Next, Main, Capture

\* Every step keeps what is known of the token while the thread runs.
LEMMA TokenStep ==
    ASSUME TypeInv, CaptureInv, TokenInv, FileInv, [Next]_vars PROVE TokenInv'
<1> USE DEF TypeInv, TypeOK, Tokens, CaptureInv, TokenInv, FileInv, Waits, Over, Filters, Normalized, Loops, Asking, Saving, Filtered, Decided, Counted, Excluded, Known, Begun, Keep,
         user, config, shared, thread, locals, server, world
<1>1. CASE NoDependency \/ StartRaises \/ UseSaved
    BY <1>1 DEF NoDependency, StartRaises, UseSaved
<1>2. CASE ReadFiles
    BY <1>2, ReadFilesDoes
<1>3. CASE StartCapture \/ Joined \/ CheckChannels \/ CheckToken \/ TokenCame \/ WaitOver
    BY <1>3 DEF StartCapture, Joined, CheckChannels, CheckToken, TokenCame, WaitOver
<1>4. CASE SaveToken \/ SaveList \/ WritePart \/ Write \/ SaveRaises
  <2>1. CASE SaveToken
    BY <2>1, CfgFields DEF SaveToken, Cfg
  <2>2. CASE SaveList
    BY <2>2, CfgFields DEF SaveList, Cfg
  <2>3. CASE WritePart \/ Write \/ SaveRaises
    BY <2>3 DEF WritePart, Write, SaveRaises
  <2> QED
    BY <1>4, <2>1, <2>2, <2>3
<1>5. CASE Normalize \/ EntryRaises \/ Exclude \/ AvailableIds \/ Decide \/ NothingToDecide \/ Select
    BY <1>5 DEF Normalize, EntryRaises, Exclude, AvailableIds, Decide, NothingToDecide, Select
<1>6. CASE ResolveTokens \/ DropMissing \/ PrintChannels \/ StartPoller \/ LateList \/ InstallHandler
    BY <1>6 DEF ResolveTokens, DropMissing, PrintChannels, StartPoller, LateList, InstallHandler
<1>7. ASSUME NEW c \in Entries, Connect(c) PROVE TokenInv'
    BY <1>7 DEF Connect
<1>8. ASSUME NEW t \in {NoToken, "captured"}, NEW list \in Lists \cup {{}}, CaptureFinds(t, list),
           pc \notin Over
      PROVE TokenInv'
    BY <1>8 DEF CaptureFinds
<1>9. CASE pc \notin Over /\ (CaptureAssigns \/ CaptureAddress \/ CaptureRaises)
    BY <1>9 DEF CaptureAssigns, CaptureAddress, CaptureRaises
<1>10. CASE Signal
    BY <1>10 DEF Signal, Interrupted, Terminated, shutdown_handler
<1>11. CASE UNCHANGED vars
    BY <1>11 DEF vars
<1> QED
    BY <1>1, <1>2, <1>3, <1>4, <1>5, <1>6, <1>7, <1>8, <1>9, <1>10, <1>11 DEF Next, Main, Capture

\* Every step keeps what is known of the list and the file.
LEMMA FileStep ==
    ASSUME TypeInv, FileInv, [Next]_vars PROVE FileInv'
<1> USE DEF TypeInv, TypeOK, FileInv, Waits, Over, Filters, Normalized, Loops, Asking, Saving, Filtered, Decided, Counted, Excluded, Known, Begun, Keep,
         user, config, shared, thread, locals, server, world
<1>1. CASE NoDependency \/ StartRaises \/ UseSaved
  <2>1. CASE UseSaved
    BY <2>1 DEF UseSaved, load_config, NoSettings
  <2> QED
    BY <1>1, <2>1 DEF NoDependency, StartRaises
<1>2. CASE ReadFiles
    BY <1>2, ReadFilesDoes
<1>3. CASE StartCapture \/ Joined \/ CheckChannels \/ CheckToken \/ TokenCame \/ WaitOver
    BY <1>3 DEF StartCapture, Joined, CheckChannels, CheckToken, TokenCame, WaitOver
<1>4. CASE SaveToken \/ SaveList \/ WritePart \/ Write \/ SaveRaises
  <2>1. CASE SaveToken
    BY <2>1 DEF SaveToken
  <2>2. CASE SaveList
    BY <2>2, CfgFields DEF SaveList, Cfg
  <2>3. CASE WritePart \/ Write \/ SaveRaises
    BY <2>3 DEF WritePart, Write, SaveRaises
  <2> QED
    BY <1>4, <2>1, <2>2, <2>3
<1>5. CASE Normalize \/ EntryRaises \/ Exclude \/ AvailableIds \/ Decide \/ NothingToDecide \/ Select
    BY <1>5 DEF Normalize, EntryRaises, Exclude, AvailableIds, Decide, NothingToDecide, Select
<1>6. CASE ResolveTokens \/ DropMissing \/ PrintChannels \/ StartPoller \/ LateList \/ InstallHandler
    BY <1>6 DEF ResolveTokens, DropMissing, PrintChannels, StartPoller, LateList, InstallHandler
<1>7. ASSUME NEW c \in Entries, Connect(c) PROVE FileInv'
    BY <1>7 DEF Connect
<1>8. ASSUME NEW t \in {NoToken, "captured"}, NEW list \in Lists \cup {{}}, CaptureFinds(t, list),
           pc \notin Over
      PROVE FileInv'
    BY <1>8 DEF CaptureFinds
<1>9. CASE pc \notin Over /\ (CaptureAssigns \/ CaptureAddress \/ CaptureRaises)
    BY <1>9 DEF CaptureAssigns, CaptureAddress, CaptureRaises
<1>10. CASE Signal
    BY <1>10 DEF Signal, Interrupted, Terminated, shutdown_handler
<1>11. CASE UNCHANGED vars
    BY <1>11 DEF vars
<1> QED
    BY <1>1, <1>2, <1>3, <1>4, <1>5, <1>6, <1>7, <1>8, <1>9, <1>10, <1>11 DEF Next, Main, Capture

\* Every step keeps what is known of the selection and of the channels' tokens.
LEMMA ChoiceStep ==
    ASSUME TypeInv, TokenInv, ChoiceInv, [Next]_vars PROVE ChoiceInv'
<1> USE DEF TypeInv, TypeOK, TokenInv, ChoiceInv, decide_selected_channels, Waits, Over, Filters, Normalized, Loops, Asking, Saving, Filtered, Decided, Counted, Excluded, Known, Begun, Keep,
         user, config, shared, thread, locals, server, world
<1>1. CASE NoDependency \/ StartRaises \/ UseSaved
    BY <1>1 DEF NoDependency, StartRaises, UseSaved
<1>2. CASE ReadFiles
    BY <1>2, ReadFilesDoes
<1>3. CASE StartCapture \/ Joined \/ CheckChannels \/ CheckToken \/ TokenCame \/ WaitOver
    BY <1>3 DEF StartCapture, Joined, CheckChannels, CheckToken, TokenCame, WaitOver
<1>4. CASE SaveToken \/ SaveList \/ WritePart \/ Write \/ SaveRaises
    BY <1>4 DEF SaveToken, SaveList, WritePart, Write, SaveRaises
<1>5. CASE Normalize \/ EntryRaises \/ Exclude \/ AvailableIds \/ Decide \/ NothingToDecide \/ Select
    BY <1>5 DEF Normalize, EntryRaises, Exclude, AvailableIds, Decide, NothingToDecide, Select
<1>6. CASE ResolveTokens \/ DropMissing \/ PrintChannels \/ StartPoller \/ LateList \/ InstallHandler
  <2>1. CASE ResolveTokens
    BY <2>1 DEF ResolveTokens, TokenFor
  <2>2. CASE DropMissing
    BY <2>2 DEF DropMissing
  <2>3. CASE LateList \/ PrintChannels \/ InstallHandler
    BY <2>3 DEF LateList, PrintChannels, InstallHandler
  <2>4. CASE StartPoller
    BY <2>4 DEF StartPoller
  <2> QED
    BY <1>6, <2>1, <2>2, <2>3, <2>4
<1>7. ASSUME NEW c \in Entries, Connect(c) PROVE ChoiceInv'
    BY <1>7 DEF Connect
<1>8. ASSUME NEW t \in {NoToken, "captured"}, NEW list \in Lists \cup {{}}, CaptureFinds(t, list),
           pc \notin Over
      PROVE ChoiceInv'
    BY <1>8 DEF CaptureFinds
<1>9. CASE pc \notin Over /\ (CaptureAssigns \/ CaptureAddress \/ CaptureRaises)
    BY <1>9 DEF CaptureAssigns, CaptureAddress, CaptureRaises
<1>10. CASE Signal
    BY <1>10 DEF Signal, Interrupted, Terminated, shutdown_handler
<1>11. CASE UNCHANGED vars
    BY <1>11 DEF vars
<1> QED
    BY <1>1, <1>2, <1>3, <1>4, <1>5, <1>6, <1>7, <1>8, <1>9, <1>10, <1>11 DEF Next, Main, Capture

\* Every step keeps what is known of the list, unless the thread assigns it.
LEMMA ListStep ==
    ASSUME TypeInv, CaptureInv, TokenInv, ~late => ListInv, [Next]_vars
    PROVE  ~late' => ListInv'
<1> USE DEF TypeInv, TypeOK, CaptureInv, ListInv, Waits, Over, Filters, Normalized, Loops, Asking, Saving, Filtered, Decided, Counted, Excluded, Known, Begun, Keep,
         user, config, shared, thread, locals, server, world
<1>1. CASE NoDependency \/ StartRaises \/ UseSaved
    BY <1>1 DEF NoDependency, StartRaises, UseSaved
<1>2. CASE ReadFiles
    BY <1>2, ReadFilesDoes
<1>3. CASE StartCapture \/ Joined \/ CheckChannels \/ CheckToken \/ TokenCame \/ WaitOver
    BY <1>3 DEF StartCapture, Joined, CheckChannels, CheckToken, TokenCame, WaitOver
<1>4. CASE SaveToken \/ SaveList \/ WritePart \/ Write \/ SaveRaises
  <2>1. CASE SaveList
    BY <2>1, CfgFields DEF SaveList, Cfg
  <2>2. CASE SaveToken \/ WritePart \/ Write \/ SaveRaises
    BY <2>2 DEF SaveToken, WritePart, Write, SaveRaises
  <2> QED
    BY <1>4, <2>1, <2>2
<1>5. CASE Normalize \/ EntryRaises \/ Exclude \/ AvailableIds \/ Decide \/ NothingToDecide \/ Select
    BY <1>5 DEF Normalize, EntryRaises, Exclude, AvailableIds, Decide, NothingToDecide, Select
<1>6. CASE ResolveTokens \/ DropMissing \/ PrintChannels \/ StartPoller \/ LateList \/ InstallHandler
  <2>1. CASE ResolveTokens
    <3>1. CASE channels = {}
      BY <2>1, <3>1 DEF ResolveTokens
    <3>2. CASE channels # {}
      <4>1. /\ DOMAIN tokens' = {c \in channels : TokenFor(c) # NoToken}
            /\ pc = "tokens" /\ pc' = "drop"
            /\ UNCHANGED <<channels, ids, selected, overrides, hostless, cfg, late, conns>>
        BY <2>1, <3>2 DEF ResolveTokens
      <4>2. ~late => \A c \in ids \cap selected :
                         c \in overrides \/ overrides = {} => TokenFor(c) # NoToken
        BY <4>1 DEF TokenFor, NoToken, TokenInv
      <4> QED
        BY <4>1, <4>2
    <3> QED
      BY <3>1, <3>2
  <2>2. CASE DropMissing
    BY <2>2 DEF DropMissing
  <2>3. CASE PrintChannels \/ StartPoller \/ LateList
    BY <2>3 DEF PrintChannels, StartPoller, LateList
  <2>4. CASE InstallHandler
    BY <2>4 DEF InstallHandler
  <2> QED
    BY <1>6, <2>1, <2>2, <2>3, <2>4
<1>7. ASSUME NEW c \in Entries, Connect(c) PROVE ~late' => ListInv'
    BY <1>7 DEF Connect
<1>8. ASSUME NEW t \in {NoToken, "captured"}, NEW list \in Lists \cup {{}}, CaptureFinds(t, list),
           pc \notin Over
      PROVE ~late' => ListInv'
    BY <1>8 DEF CaptureFinds
<1>9. CASE pc \notin Over /\ (CaptureAssigns \/ CaptureAddress \/ CaptureRaises)
  <2>1. CASE CaptureAssigns
    <3>1. late' \/ UNCHANGED <<channels, late>> \/ pc = "join"
      BY <2>1 DEF CaptureAssigns
    <3> QED
      BY <2>1, <3>1 DEF CaptureAssigns
  <2>2. CASE CaptureAddress \/ CaptureRaises
    BY <2>2 DEF CaptureAddress, CaptureRaises
  <2> QED
    BY <1>9, <2>1, <2>2
<1>10. CASE Signal
    BY <1>10 DEF Signal, Interrupted, Terminated, shutdown_handler
<1>11. CASE UNCHANGED vars
    BY <1>11 DEF vars
<1> QED
    BY <1>1, <1>2, <1>3, <1>4, <1>5, <1>6, <1>7, <1>8, <1>9, <1>10, <1>11 DEF Next, Main, Capture

\* An exception ends main only for the reasons that CrashInv names.
LEMMA CrashStep ==
    ASSUME TypeInv, FileInv, ~late => ListInv, CrashInv, [Next]_vars PROVE CrashInv'
<1> USE DEF TypeInv, TypeOK, FileInv, ListInv, Causes, CrashInv, Waits, Over, Filters, Normalized, Loops, Asking, Saving, Filtered, Decided, Counted, Excluded, Known, Begun, Keep,
         user, config, shared, thread, locals, server, world
<1>1. CASE NoDependency \/ StartRaises \/ UseSaved
    BY <1>1 DEF NoDependency, StartRaises, UseSaved
<1>2. CASE ReadFiles
    BY <1>2, ReadFilesDoes
<1>3. CASE StartCapture \/ Joined \/ CheckChannels \/ CheckToken \/ TokenCame \/ WaitOver
    BY <1>3 DEF StartCapture, Joined, CheckChannels, CheckToken, TokenCame, WaitOver
<1>4. CASE SaveToken \/ SaveList \/ WritePart \/ Write \/ SaveRaises
    BY <1>4 DEF SaveToken, SaveList, WritePart, Write, SaveRaises
<1>5. CASE Normalize \/ EntryRaises \/ Exclude \/ AvailableIds \/ Decide \/ NothingToDecide \/ Select
  <2>1. CASE Normalize
    BY <2>1 DEF Normalize, Entries
  <2>2. CASE EntryRaises
    <3>1. pc \in {"exclude"} \cup Excluded /\ (pc = "connect" /\ ~late => todo \subseteq channels)
      BY <2>2 DEF EntryRaises
    <3>2. Text \in channels \/ (pc = "connect" /\ Text \in todo)
      BY <2>2 DEF EntryRaises
    <3>3. ~late => Text \notin channels
      BY <3>1, SettingsAssumption
    <3>4. late
      BY <3>1, <3>2, <3>3
    <3> QED
      BY <2>2, <3>4 DEF EntryRaises
  <2>3. CASE NothingToDecide
    BY <2>3 DEF NothingToDecide
  <2>4. CASE Exclude \/ AvailableIds \/ Decide \/ Select
    BY <2>4 DEF Exclude, AvailableIds, Decide, Select
  <2> QED
    BY <1>5, <2>1, <2>2, <2>3, <2>4
<1>6. CASE ResolveTokens \/ DropMissing \/ PrintChannels \/ StartPoller \/ LateList \/ InstallHandler
    BY <1>6 DEF ResolveTokens, DropMissing, PrintChannels, StartPoller, LateList, InstallHandler
<1>7. ASSUME NEW c \in Entries, Connect(c) PROVE CrashInv'
    BY <1>7 DEF Connect
<1>8. ASSUME NEW t \in {NoToken, "captured"}, NEW list \in Lists \cup {{}}, CaptureFinds(t, list),
           pc \notin Over
      PROVE CrashInv'
    BY <1>8 DEF CaptureFinds
<1>9. CASE pc \notin Over /\ (CaptureAssigns \/ CaptureAddress \/ CaptureRaises)
    BY <1>9 DEF CaptureAssigns, CaptureAddress, CaptureRaises
<1>10. CASE Signal
    BY <1>10 DEF Signal, Interrupted, Terminated, shutdown_handler
<1>11. CASE UNCHANGED vars
    BY <1>11 DEF vars
<1> QED
    BY <1>1, <1>2, <1>3, <1>4, <1>5, <1>6, <1>7, <1>8, <1>9, <1>10, <1>11 DEF Next, Main, Capture
-----------------------------------------------------------------------------
(* The invariant and what follows from it *)

\* The invariant holds in the beginning.
LEMMA InvInit == Init => IInv
<1> SUFFICES ASSUME Init PROVE IInv
    OBVIOUS
<1> USE DEF Init, Asking, Saving, Filtered, Decided, Counted, Excluded, Known, Begun
<1>1. TypeInv
  <2>1. NoSettings \in Cfg
    BY DEF NoSettings, Cfg
  <2>2. DOMAIN tokens = {} /\ DOMAIN conns = {}
    OBVIOUS
  <2>3. file \in ConfigFile /\ cfg \in Cfg
    BY <2>1
  <2>4. TypeOK
    BY <2>2, <2>3, CoreAssumption DEF TypeOK, PCs, Tokens
  <2> QED
    BY <2>2, <2>4 DEF TypeInv, NoToken
<1>2. CaptureInv /\ TokenInv /\ FileInv /\ ChoiceInv /\ ListInv /\ CrashInv
    BY DEF CaptureInv, TokenInv, FileInv, ChoiceInv, ListInv, CrashInv
<1> QED
    BY <1>1, <1>2 DEF IInv

\* Every step keeps the invariant.
LEMMA InvStep == IInv /\ [Next]_vars => IInv'
BY TypeStep, CaptureStep, TokenStep, FileStep, ChoiceStep, ListStep, CrashStep DEF IInv

\* The invariant holds throughout.
THEOREM InvCorrect == Spec => []IInv
BY InvInit, InvStep, PTL DEF Spec

\* As long as the capture thread assigns no list after main stopped waiting for
\* it, only selected channels are connected, none of them excluded, and each
\* with its own token if it has one: for every command line, every file and any
\* result of the capture (app.py:183-207, tokens.py:48-60).
THEOREM ConnectionsCorrect == Spec => []ConnectionsAllowed
<1>1. IInv => ConnectionsAllowed
  <2> SUFFICES ASSUME IInv, ~late, NEW c \in DOMAIN conns
               PROVE  /\ c \in selected \ EXCLUDED_CHANNELS
                      /\ explicit => c \in wanted
                      /\ c \in overrides <=> conns[c] = "own"
    BY DEF ConnectionsAllowed
  <2>1. c \in DOMAIN tokens /\ conns[c] = tokens[c] /\ Begun
    BY DEF IInv, TypeInv, TypeOK, ChoiceInv, Begun
  <2>2. c \in (ids \cap selected) \ EXCLUDED_CHANNELS
    BY <2>1 DEF IInv, ListInv
  <2>3. explicit => selected = wanted
    BY <2>1 DEF IInv, ChoiceInv, decide_selected_channels
  <2>4. tokens[c] = "own" <=> c \in overrides
    BY <2>1 DEF IInv, ChoiceInv
  <2> QED
    BY <2>1, <2>2, <2>3, <2>4
<1> QED
    BY <1>1, InvCorrect, PTL

\* ... and when main monitors, no selected channel of the list was forgotten
\* for which there is a token (app.py:200-251).
THEOREM ForgottenCorrect == Spec => []NoneForgotten
<1>1. IInv => NoneForgotten
    BY DEF IInv, ListInv, NoneForgotten, Filtered
<1> QED
    BY <1>1, InvCorrect, PTL

\* Without a selection and without tokens of their own no two channels share
\* the one token (app.py:63-78).
THEOREM SessionsCorrect == Spec => []OneSessionPerToken
<1>1. IInv => OneSessionPerToken
  <2> SUFFICES ASSUME IInv, ~late, ~explicit, NEW c \in DOMAIN conns, NEW d \in DOMAIN conns,
                      conns[c] = conns[d], conns[c] # "own"
               PROVE  c = d
    BY DEF OneSessionPerToken
  <2>1. /\ c \in DOMAIN tokens /\ d \in DOMAIN tokens /\ conns[c] = tokens[c]
        /\ Begun
    BY DEF IInv, TypeInv, TypeOK, ChoiceInv, Begun
  <2>2. c \in selected /\ d \in selected /\ c \notin overrides
    BY <2>1 DEF IInv, ListInv, ChoiceInv
  <2>3. decide_selected_channels(selected)
    BY <2>1 DEF IInv, ChoiceInv
  <2>4. \E e : selected = {e}
    BY <2>2, <2>3 DEF decide_selected_channels
  <2> QED
    BY <2>2, <2>4
<1> QED
    BY <1>1, InvCorrect, PTL

\* When main monitors, the file has the list, the selection and the token of
\* the connections, however late the capture was (app.py:89-95, 177-181).
THEOREM NextRunCorrect == Spec => []NextRunKnows
<1>1. IInv => NextRunKnows
  <2> SUFFICES ASSUME IInv, pc = "monitor"
               PROVE  /\ file.state \notin Unreadable \cup {"badtoken"}
                      /\ load_config(file).selected_channels = cfg.selected_channels
                      /\ overrides = {} =>
                            /\ load_config(file).channels # {}
                            /\ \A c \in DOMAIN conns : conns[c] = load_config(file).token
    BY DEF NextRunKnows
  <2>1. pc \in Known /\ pc \in Filtered
    BY DEF Known, Excluded, Counted, Decided, Filtered
  <2>2. file.state = "whole" /\ load_config(file) = cfg /\ cfg.channels # {}
    BY <2>1 DEF IInv, FileInv, load_config
  <2>3. ASSUME overrides = {}, NEW c \in DOMAIN conns PROVE conns[c] = cfg.token
    BY <2>1, <2>3 DEF IInv, TypeInv, TypeOK, ChoiceInv, TokenInv
  <2> QED
    BY <2>2, <2>3 DEF Unreadable
<1> QED
    BY <1>1, InvCorrect, PTL

\* Types hold, and main crashes once the web server is up, and while the file
\* can be written, only for a signal, a late list, a token that is no text, an
\* entry without an integer id or without a host, or a list that is empty after
\* the exclusion (app.py:78, 105, 183-185, 233, 247-248).
THEOREM CrashCorrect == Spec => []NoOtherCrash
<1>1. IInv => NoOtherCrash
    BY DEF IInv, TypeInv, CrashInv, Causes, NoOtherCrash
<1> QED
    BY <1>1, InvCorrect, PTL
=============================================================================
