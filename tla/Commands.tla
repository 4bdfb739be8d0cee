------------------------------ MODULE Commands ------------------------------
(***************************************************************************)
(* The commands of a bot (commands.rs): how they are configured, which     *)
(* configurations the server accepts, what a text is parsed to, and what   *)
(* the help text lists.                                                    *)
(*                                                                         *)
(* A text, and a name in it, is a sequence of tokens: the prefix, white    *)
(* space, or a piece of a word.  Adjacent pieces make one word.  A page of *)
(* help is the sequence of the commands it lists, each with its section;   *)
(* descriptions, headings and the quoted prelude are left out.  Messages   *)
(* are taken one at a time: the registry does not change while the server  *)
(* runs, and the visibility belongs to the message.                        *)
(***************************************************************************)
EXTENDS Naturals, Sequences, SequencesExt

CONSTANTS
  Pieces,       \* pieces of words other than "help", as sequences of one token
  Names,        \* the names a bot may register
  GroupIds,     \* the identifiers of groups
  Ungrouped,    \* the section that is no group
  MaxCommands,  \* bound: registrations of a bot
  MaxGroups,    \* bound: its groups
  MaxText,      \* bound: tokens of a text
  MaxOverrides  \* bound: overrides of one message

Prefix == "/"
Space == " "
Help == <<"help">>  \* HELP_COMMAND_NAME
Tokens == {Prefix, Space, "help"} \cup Pieces

ASSUME CommandsAssumption ==
  /\ {Prefix, Space, "help"} \cap Pieces = {}
  /\ Names \subseteq Seq(Tokens)
  /\ Ungrouped \notin GroupIds
  /\ {MaxCommands, MaxGroups, MaxText, MaxOverrides} \subseteq Nat

VARIABLES
  commands,   \* the configuration: Commands, then the CommandRegistry's
  status,     \* what the server is doing
  received,   \* the message it parsed and the outcome
  visibility, \* the HelpVisibility the bot builds
  calls,      \* the calls that built it
  page        \* the help text it sends

vars == <<commands, status, received, visibility, calls, page>>

Nothing == <<>>
Texts == BoundedSeq(Tokens, MaxText)
Sections == GroupIds \cup {Ungrouped}

\* The calls on a HelpVisibility: show_ and hide_, of a group or a command.
Overrides ==
  [level : {"groups"}, id : GroupIds, visible : BOOLEAN]
    \cup [level : {"commands"}, id : Names, visible : BOOLEAN]

\* A HashMap with some of the identifiers as its keys.
Maps(ids) == UNION {[keys -> BOOLEAN] : keys \in SUBSET ids}

TypeOK ==
  /\ commands \in [style : {"Slash", "Word"}, handle_unknown : BOOLEAN,
                   registered : Seq(Names),
                   groups : Seq([id : GroupIds, commands : Seq(Names)])]
  /\ status \in {"configuring", "rejected", "serving", "handler", "help", "visibility",
                "sending"}
  /\ received = Nothing \/ received.text \in Texts
  /\ visibility \in [base : BOOLEAN, groups : Maps(GroupIds), commands : Maps(Names)]
  /\ calls \in Seq(Overrides)
  /\ page \in Seq([section : Sections, name : Names \cup {Help}])

-----------------------------------------------------------------------------
(* Configuration *)

\* HelpVisibility::all and none: a base and no override.
Base(visible) == [base |-> visible, groups |-> Nothing, commands |-> Nothing]

\* Commands::new.
Init ==
  /\ commands = [style |-> "Slash", handle_unknown |-> FALSE,
                 registered |-> <<>>, groups |-> <<>>]
  /\ status = "configuring"
  /\ received = Nothing
  /\ visibility = Base(TRUE)
  /\ calls = <<>>
  /\ page = <<>>

Idle == UNCHANGED <<received, visibility, calls, page>>

Grouped(c) == FlattenSeq([i \in DOMAIN c.groups |-> c.groups[i].commands])

\* all_commands, in the order of the sections.
AllCommands(c) == c.registered \o Grouped(c)

IsRegistered(c, name) == name \in ToSet(AllCommands(c))

Style(style) ==
  /\ status = "configuring"
  /\ commands' = [commands EXCEPT !.style = style]
  /\ UNCHANGED status /\ Idle

HandleUnknown(enabled) ==
  /\ status = "configuring"
  /\ commands' = [commands EXCEPT !.handle_unknown = enabled]
  /\ UNCHANGED status /\ Idle

Register(name) ==
  /\ status = "configuring"
  /\ Len(AllCommands(commands)) < MaxCommands
  /\ commands' = [commands EXCEPT !.registered = Append(@, name)]
  /\ UNCHANGED status /\ Idle

\* The closure that registers the commands of the group runs within the call.
Group(id, names) ==
  /\ status = "configuring"
  /\ Len(AllCommands(commands)) + Len(names) <= MaxCommands
  /\ Len(commands.groups) < MaxGroups
  /\ commands' = [commands EXCEPT !.groups =
                    Append(@, [id |-> id, commands |-> names])]
  /\ UNCHANGED status /\ Idle

\* Faulty: the reserved name is accepted.
CheckSectionUnreserved(section) == IsInjective(section)

\* Faulty: a name may be registered twice in a section.
CheckSectionRepeated(section) == Help \notin ToSet(section)

CheckSection(section) ==
  /\ Help \notin ToSet(section)
  /\ IsInjective(section)

Validate(c) ==
  /\ CheckSection(c.registered)
  /\ IsInjective([i \in DOMAIN c.groups |-> c.groups[i].id])
  /\ \A i \in DOMAIN c.groups : CheckSection(c.groups[i].commands)

\* BotServer::new fails on a registry that is not valid.
New ==
  /\ status = "configuring"
  /\ status' = IF Validate(commands) THEN "serving" ELSE "rejected"
  /\ UNCHANGED commands /\ Idle

-----------------------------------------------------------------------------
(* Parsing *)

IsSpace(token) == token = Space
IsVisible(token) == token # Space

\* str::trim.
Trim(s) ==
  LET first == SelectInSeq(s, IsVisible)
  IN IF first = 0 THEN <<>> ELSE SubSeq(s, first, SelectLastInSeq(s, IsVisible))

\* split_whitespace().next(), with <<>> for None.
FirstWord(s) ==
  LET trimmed == Trim(s)
      end == SelectInSeq(trimmed, IsSpace)
  IN IF end = 0 THEN trimmed ELSE SubSeq(trimmed, 1, end - 1)

\* s without the prefix p, which it has.
StripPrefix(s, p) == SubSeq(s, Len(p) + 1, Len(s))

\* Faulty: the blanks before the arguments stay.
ArgsUntrimmed(rest, name) == IF IsPrefix(name, rest) THEN StripPrefix(rest, name) ELSE <<>>

\* White space in front of the name keeps the name from being a prefix.
Args(rest, name) ==
  IF IsPrefix(name, rest) THEN Trim(StripPrefix(rest, name)) ELSE <<>>

Plain(text) == [kind |-> "None", text |-> text]

\* What both styles do with the text after the prefix.
Classify(c, trimmed, rest) ==
  LET name == FirstWord(rest)
      args == Args(rest, name)
  IN CASE name = <<>> -> Plain(trimmed)
       [] name = Help -> [kind |-> "Help"]
       [] name \notin {<<>>, Help} /\ IsRegistered(c, name) ->
            [kind |-> "Registered", name |-> name, args |-> args]
       [] name \notin {<<>>, Help} /\ ~IsRegistered(c, name) ->
            IF c.style = "Slash" THEN [kind |-> "Unknown", name |-> name, args |-> args]
                                 ELSE Plain(trimmed)

StylePrefix(c) == IF c.style = "Slash" THEN <<Prefix>> ELSE <<>>

\* A word without the prefix is plain text; in word style every text has it.
Parse(c, text) ==
  LET trimmed == Trim(text)
  IN IF IsPrefix(StylePrefix(c), trimmed)
     THEN Classify(c, trimmed, StripPrefix(trimmed, StylePrefix(c)))
     ELSE Plain(trimmed)

\* Faulty: the name is formatted as it is.
FormatCommandBare(c, name) == name

FormatCommand(c, name) == StylePrefix(c) \o name

-----------------------------------------------------------------------------
(* Messages *)

\* process_text_message: help at once, or a method of the bot's handler.
Receive(text) ==
  LET parsed == Parse(commands, text)
      asks == \/ parsed.kind = "Help"
              \/ parsed.kind = "Unknown" /\ ~commands.handle_unknown
  IN /\ status = "serving"
     /\ received' = [text |-> text, parsed |-> parsed]
     /\ status' = IF asks THEN "help" ELSE "handler"
     /\ UNCHANGED <<commands, visibility, calls, page>>

\* handle_command or handle_text returns ShowHelp, another action or an error.
HandlerReturns ==
  /\ status = "handler"
  /\ status' \in {"help", "serving"}
  /\ received' = Nothing
  /\ UNCHANGED <<commands, visibility, calls, page>>

\* help_visibility begins with all or none ...
ChooseBase(visible) ==
  /\ status = "help"
  /\ status' = "visibility"
  /\ received' = Nothing
  /\ visibility' = Base(visible)
  /\ UNCHANGED <<commands, calls, page>>

\* HashMap::insert.
Insert(map, id, visible) ==
  [key \in DOMAIN map \cup {id} |-> IF key = id THEN visible ELSE map[key]]

\* Faulty: one map holds all overrides, and a group is a key like a command.
OverrideEntryInOneMap(call) ==
  /\ status = "visibility"
  /\ Len(calls) < MaxOverrides
  /\ visibility' = [visibility EXCEPT !.commands = Insert(@, call.id, call.visible)]
  /\ calls' = Append(calls, call)
  /\ UNCHANGED <<commands, status, received, page>>

\* ... and shows or hides a group or a command ...
OverrideEntry(call) ==
  /\ status = "visibility"
  /\ Len(calls) < MaxOverrides
  /\ visibility' = [visibility EXCEPT ![call.level] = Insert(@, call.id, call.visible)]
  /\ calls' = Append(calls, call)
  /\ UNCHANGED <<commands, status, received, page>>

\* ... or returns an error: the user is told, without any help text.
HelpVisibilityFails ==
  /\ status \in {"help", "visibility"}
  /\ status' = "serving"
  /\ received' = Nothing
  /\ visibility' = Base(TRUE)
  /\ calls' = <<>>
  /\ UNCHANGED <<commands, page>>

\* Faulty: the override of the group comes first.
IsCommandVisibleGroupFirst(v, name, section) ==
  \/ section \in DOMAIN v.groups /\ v.groups[section]
  \/ section \notin DOMAIN v.groups /\ name \in DOMAIN v.commands /\ v.commands[name]
  \/ section \notin DOMAIN v.groups /\ name \notin DOMAIN v.commands /\ v.base

\* The ungrouped section is in no domain.
IsCommandVisible(v, name, section) ==
  \/ name \in DOMAIN v.commands /\ v.commands[name]
  \/ name \notin DOMAIN v.commands /\ section \in DOMAIN v.groups /\ v.groups[section]
  \/ name \notin DOMAIN v.commands /\ section \notin DOMAIN v.groups /\ v.base

Entry(section, name) == [section |-> section, name |-> name]

Listing(v, section, names) ==
  FlattenSeq([i \in DOMAIN names |->
                IF IsCommandVisible(v, names[i], section)
                THEN <<Entry(section, names[i])>> ELSE <<>>])

HelpText(c, v) ==
  <<Entry(Ungrouped, Help)>>
    \o Listing(v, Ungrouped, c.registered)
    \o FlattenSeq([i \in DOMAIN c.groups |->
                     Listing(v, c.groups[i].id, c.groups[i].commands)])

\* handle_action renders the page and sends it.
ShowHelp ==
  /\ status = "visibility"
  /\ status' = "sending"
  /\ page' = HelpText(commands, visibility)
  /\ UNCHANGED <<commands, received, visibility, calls>>

\* send_text returns, and with it the processing of the message.
Sent ==
  /\ status = "sending"
  /\ status' = "serving"
  /\ visibility' = Base(TRUE)
  /\ calls' = <<>>
  /\ page' = <<>>
  /\ UNCHANGED <<commands, received>>

\* A configuration that was rejected ends the program.
Rejected == status = "rejected" /\ UNCHANGED vars

Next ==
  \/ \E style \in {"Slash", "Word"} : Style(style)
  \/ \E enabled \in BOOLEAN : HandleUnknown(enabled)
  \/ \E name \in Names : Register(name)
  \/ \E id \in GroupIds, names \in BoundedSeq(Names, MaxCommands) : Group(id, names)
  \/ New
  \/ \E text \in Texts : Receive(text)
  \/ HandlerReturns
  \/ \E visible \in BOOLEAN : ChooseBase(visible)
  \/ \E call \in Overrides : OverrideEntry(call)
  \/ HelpVisibilityFails
  \/ ShowHelp
  \/ Sent
  \/ Rejected

Spec == Init /\ [][Next]_vars

-----------------------------------------------------------------------------
(* Properties *)

OneWord(name) == name # <<>> /\ Space \notin ToSet(name)

\* What the help text lists can be typed: a user who sends a listed command as
\* it is written there reaches that command, whatever else is registered,
\* under whatever style, name and section.  This is between validate, parse and
\* help_text: a registered "help" would be listed and never be called.  Names
\* with white space, and the empty one, are accepted by validate and listed,
\* and are excluded here: parse cannot produce them.
ListedIsDispatched ==
  \A i \in DOMAIN page :
    LET name == page[i].name
        parsed == Parse(commands, FormatCommand(commands, name))
    IN OneWord(name) =>
         IF i = 1 THEN parsed.kind = "Help"
         ELSE parsed = [kind |-> "Registered", name |-> name, args |-> <<>>]

\* No page lists a command twice in a section, or "help" a second time, however
\* the bot registered its commands and whatever is visible: validate accepts a
\* name in many sections and never twice in one.
ListedOnce == IsInjective(page)

Blanks(n) == [i \in 1..n |-> Space]

\* The bot's handler sees all of the text: up to the white space around it and
\* behind the name, the text is the prefix, the name parse returned and the
\* arguments, in this order; plain text is passed on whole.  parse drops the
\* arguments when white space follows the prefix ("/ remind 30m"): such texts
\* are excluded, and the README says what happens to them.
NothingIsLost ==
  received # Nothing =>
    LET parsed == received.parsed
        trimmed == Trim(received.text)
        head == StylePrefix(commands)
        detached == \E k \in 1..Len(trimmed) :
                      IsPrefix(head \o Blanks(k), trimmed)
    IN /\ parsed.kind = "None" => parsed.text = trimmed
       /\ parsed.kind \in {"Registered", "Unknown"} /\ ~detached =>
            \E k \in 0..Len(trimmed) :
              /\ trimmed = head \o parsed.name \o Blanks(k) \o parsed.args
              /\ k = 0 => parsed.args = <<>>

\* A command survives being quoted: what parse returned, written out again as
\* the server and the bot write commands (format_command in "Unknown command:
\* /x"), is parsed to the same command with the same arguments, and plain text
\* to the same plain text.
QuotedIsTheSame ==
  received # Nothing =>
    LET parsed == received.parsed
    IN /\ parsed.kind = "None" => Parse(commands, parsed.text) = parsed
       /\ parsed.kind \in {"Registered", "Unknown"} =>
            parsed = Parse(commands, FormatCommand(commands, parsed.name)
                                       \o <<Space>> \o parsed.args)

\* The place of the last call about an entry, 0 if there is none.
LastCall(level, id) ==
  LET About(call) == call.level = level /\ call.id = id
  IN SelectLastInSeq(calls, About)

\* A page of help follows the calls that built the visibility, as the bot's
\* author wrote them: a command is listed in a section exactly when the last
\* call about the command shows it, or, without one, the last call about the
\* group, or, without one, the base.
PageFollowsCalls ==
  page # <<>> =>
    LET Decides(call, default) == IF call = 0 THEN default ELSE calls[call].visible
        Listed(section, name) ==
          Decides(LastCall("commands", name),
                  Decides(LastCall("groups", section), visibility.base))
    IN /\ \A i \in DOMAIN commands.registered :
            Listed(Ungrouped, commands.registered[i])
              <=> Entry(Ungrouped, commands.registered[i]) \in ToSet(page)
       /\ \A i \in DOMAIN commands.groups :
            LET group == commands.groups[i]
            IN \A j \in DOMAIN group.commands :
                 Listed(group.id, group.commands[j])
                   <=> Entry(group.id, group.commands[j]) \in ToSet(page)

=============================================================================
