------------------------------ MODULE Settings ------------------------------
(***************************************************************************)
(* What main() makes of its inputs: config.py, tokens.py and the command   *)
(* line (parse_selected_channels of app.py), as operators.                 *)
(*                                                                         *)
(* megaphone_config.json is a record: what json.load says to its text, and *)
(* those of its settings that main uses later.  A channel list is the set  *)
(* of its entries, {} for a setting that is missing, null or an empty list; *)
(* an entry is its id.                                                     *)
(***************************************************************************)
EXTENDS Integers

CONSTANTS
    Channels,           \* channels of the game
    Lists, Selections,  \* bounds: the channel lists and the selected_channels that occur
    Text                \* stands for every text that is not a number, and in a
                        \* channel list for an entry without an integer as its id

Entries == Channels \cup {Text}

ASSUME SettingsAssumption ==
    /\ Text \notin Channels
    /\ Lists \subseteq SUBSET Entries /\ Selections \subseteq SUBSET Channels

NoToken == "none"
WEB_PORT == 8080

Cfg == [token : {NoToken, "saved", "captured"}, channels : Lists \cup {{}},
        selected_channels : Selections \cup {{}}]
NoSettings == [token |-> NoToken, channels |-> {}, selected_channels |-> {}]

\* "garbled": not JSON, like a file that was truncated.  "cut": it ends inside
\* a UTF-8 sequence.  "mistyped": JSON that is no object, or whose
\* selected_channels are no numbers.  "badtoken": its token is no text.
Unreadable == {"cut", "mistyped"}
ConfigFile == [state : {"whole"}, cfg : Cfg]
         \cup [state : {"absent", "garbled", "badtoken"} \cup Unreadable, cfg : {NoSettings}]
Truncated == [state |-> "garbled", cfg |-> NoSettings]

\* {} unless there is a JSON object; what is Unreadable raises instead, here or
\* in main, before the web server is started, and a bad token after that.
load_config(file) == IF file.state = "whole" THEN file.cfg ELSE NoSettings

PortNumbers == 1..65535
\* Mutant: only the lower end of the range is checked.
normalize_port_Low(value, default) == IF value = Text \/ value < 1 THEN default ELSE value
normalize_port(value, default) == IF value \in PortNumbers THEN value ELSE default
\* What web_port may be in the file; apply_config_defaults takes the result.
PortValues == {0, 8081, 65536, Text}

\* The value of --channels is the set of its parts, {} if there is none.
Args == SUBSET Entries
parse_selected_channels(argv) == argv \cap Channels

\* tokens.json is a set of pairs; empty tokens and keys that are no integers
\* are skipped.
TokenFiles == SUBSET (Entries \X {"own", "empty"})
load_token_overrides(raw) == {c \in Channels : <<c, "own">> \in raw}
=============================================================================
