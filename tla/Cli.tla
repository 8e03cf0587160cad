---------------------------------- MODULE Cli ----------------------------------
(***************************************************************************)
(* The command line program: parse_args of src/src/cli.cpp, run_request of *)
(* src/src/cli_commands.cpp and load_config of src/src/config.cpp, with a  *)
(* configuration file that may be edited while it is being loaded.  What   *)
(* tmux answers is any answer; materialize_template is the module          *)
(* Materialize.  An optional result is a set of at most one element.       *)
(***************************************************************************)
EXTENDS Integers, SequencesExt

CONSTANTS Words,            \* what an argument may be
          Dashed,           \* the words that begin with `-`
          NotSessionNames,  \* the words SessionName::make refuses
          Documents,        \* TOML documents the configuration may be
          Missing,          \* there is no file, or no path for one
          Hidden,           \* its directory may not be searched
          Unreadable,       \* it cannot be opened
          Failing,          \* it can be opened and not be read, as a directory
          MaxArgs           \* bound: arguments given

Empty == ""
Globals == {"--help", "--version", "-L", "-S"}
Subcommands == {"attach", "save", "list-templates", "materialize"}

ASSUME CliAssumption ==
  /\ Globals \cup Subcommands \cup {Empty} \subseteq Words
  /\ Globals \subseteq Dashed /\ Dashed \subseteq Words
  /\ Dashed \cap (Subcommands \cup {Empty}) = {}
  /\ Empty \in NotSessionNames
  /\ MaxArgs \in Nat

(***************************************************************************)
(* parse_args                                                              *)
(***************************************************************************)
DefaultSocket == <<"default", Empty>>
Start == [at |-> "options", option |-> Empty, socket |-> DefaultSocket, saw |-> FALSE,
          command |-> Empty, rest |-> <<>>]

\* Mutant: a second socket option replaces the first.
ParseArgLax(t, arg) ==
  CASE t.at = "value" /\ arg # Empty ->
         [t EXCEPT !.at = "options", !.socket = <<t.option, arg>>, !.saw = TRUE]
    [] t.at = "options" /\ arg \in {"--help", "--version"} -> [t EXCEPT !.at = arg]
    [] t.at = "options" /\ arg \in {"-L", "-S"} ->
         [t EXCEPT !.at = "value", !.option = arg]
    [] t.at = "options" /\ arg \notin Dashed -> [t EXCEPT !.at = "command", !.command = arg]
    [] t.at = "command" -> [t EXCEPT !.rest = Append(@, arg)]
    [] OTHER -> [t EXCEPT !.at = "error"]

\* One argument, after those before it.  A value is taken as it is, whatever it
\* looks like, unless it is empty.
ParseArg(t, arg) ==
  CASE t.at = "value" /\ arg # Empty ->
         [t EXCEPT !.at = "options", !.socket = <<t.option, arg>>, !.saw = TRUE]
    [] t.at = "options" /\ arg \in {"--help", "--version"} -> [t EXCEPT !.at = arg]
    [] t.at = "options" /\ arg \in {"-L", "-S"} /\ ~t.saw ->
         [t EXCEPT !.at = "value", !.option = arg]
    [] t.at = "options" /\ arg \notin Dashed -> [t EXCEPT !.at = "command", !.command = arg]
    [] t.at = "command" -> [t EXCEPT !.rest = Append(@, arg)]
    [] OTHER -> [t EXCEPT !.at = "error"]

Command(kind, name) == [kind |-> kind, name |-> name]

\* parse_attach and the others: no global option may follow the subcommand.
ParseCommand(command, rest) ==
  IF ToSet(rest) \cap Globals # {} THEN {}
  ELSE CASE command = "attach" /\ Len(rest) = 1 ->
              {Command("attach", name) : name \in ToSet(rest) \ NotSessionNames}
         [] command \in {"save", "list-templates"} /\ rest = <<>> -> {Command(command, Empty)}
         [] command = "materialize" /\ Len(rest) = 2 ->
              {Command("materialize", name) :
                 name \in IF Empty \in ToSet(rest) THEN {} ELSE {rest[1]}}
         [] OTHER -> {}

ParseArgs(args) ==
  LET t == FoldLeft(ParseArg, Start, args)
      commands == CASE t.at \in {"options", "--help"} -> {Command("help", Empty)}
                    [] t.at = "--version" -> {Command("version", Empty)}
                    [] t.at = "command" -> ParseCommand(t.command, t.rest)
                    [] OTHER -> {}
  IN {[socket |-> t.socket, command |-> c] : c \in commands}

(***************************************************************************)
(* parse_config.  A node that is missing or not of its kind is {}.         *)
(***************************************************************************)
Kinds == {"absent", "string", "other"}
Windows == [name : Kinds, command : Kinds, unknown : BOOLEAN]
Optional(S) == {{}} \cup {{x} : x \in S}
Booleans(doc) == {doc.toml, doc.unknown, doc.badTheme, doc.badTemplates}

ASSUME DocumentsAssumption ==
  \A doc \in Documents :
    /\ doc = [toml |-> doc.toml, unknown |-> doc.unknown, badTheme |-> doc.badTheme,
              badTemplates |-> doc.badTemplates, templates |-> doc.templates]
    /\ Booleans(doc) \subseteq BOOLEAN
    /\ \A name \in DOMAIN doc.templates : \A t \in doc.templates[name] :
         \A windows \in t.windows : windows \in Seq(Optional(Windows))

ParsesAsWindow(node) ==
  \E w \in node : w.name = "string" /\ w.command # "other" /\ ~w.unknown

ParsesAsTemplate(node) ==
  \E t \in node :
    /\ ~t.unknown
    /\ \E windows \in t.windows :
         windows # <<>> /\ \A i \in DOMAIN windows : ParsesAsWindow(windows[i])

\* The theme is no table, or has a key, a colour or a border style that is none.
WrongTheme(doc) == doc.badTheme

\* The document is not TOML, has an unknown field, a wrong theme, or templates
\* that are not a table.
Rejected(doc) == ~doc.toml \/ doc.unknown \/ WrongTheme(doc) \/ doc.badTemplates

Named(doc) == DOMAIN doc.templates

\* Mutant: the first template that is malformed ends the parsing.
ParseTemplatesUpToError(doc) ==
  IF \A name \in Named(doc) : name # Empty /\ ParsesAsTemplate(doc.templates[name])
  THEN Named(doc) ELSE {}

\* A template that is malformed, or has an empty name, becomes an error of its
\* own and a part of the warning.
ParseTemplates(doc) ==
  {name \in Named(doc) : name # Empty /\ ParsesAsTemplate(doc.templates[name])}

\* LoadResult
Defaults(defaulted) == [templates |-> {}, warned |-> defaulted, defaulted |-> defaulted]

Parsed(doc) ==
  IF Rejected(doc) THEN Defaults(TRUE)
  ELSE [templates |-> ParseTemplates(doc), warned |-> ParseTemplates(doc) # Named(doc),
        defaulted |-> FALSE]

(***************************************************************************)
(* The process                                                             *)
(***************************************************************************)
Files == Documents \cup {Missing, Hidden, Unreadable, Failing}

ASSUME FilesAssumption ==
  /\ {Missing, Hidden, Unreadable, Failing} \cap Documents = {}
  /\ Missing # Hidden /\ Failing \notin {Missing, Hidden, Unreadable}

VARIABLES
  args,     \* the arguments given so far; forgotten once they are parsed
  pc,       \* where run_args is: "typing" before, "exit" or "replaced" after
  request,  \* the CliRequest
  file,     \* the configuration file
  loaded,   \* the LoadResult
  printed,  \* the template names printed
  exit,     \* the exit code
  \* History:
  seen,     \* the file as load_config read it, or Missing
  there,    \* the file as load_config looked for it, or Missing
  asked     \* the tmux commands run

vars == <<args, pc, request, file, loaded, printed, exit, seen, there, asked>>
outcome == <<printed, exit>>
history == <<seen, there, asked>>

NoRequest == [socket |-> DefaultSocket, command |-> Command("none", Empty)]

Init ==
  /\ args = <<>> /\ pc = "typing" /\ request = NoRequest
  /\ file = Missing /\ loaded = Defaults(FALSE)
  /\ printed = {} /\ exit = 0
  /\ seen = Missing /\ there = Missing /\ asked = {}

Goto(from, to) == pc = from /\ pc' = to
Exit(from, code) == Goto(from, "exit") /\ exit' = code

Argument(word) ==
  /\ pc = "typing" /\ Len(args) < MaxArgs
  /\ args' = Append(args, word)
  /\ UNCHANGED <<pc, request, file, loaded, outcome, history>>

UsageError ==
  /\ ParseArgs(args) = {}
  /\ Exit("typing", 2)
  /\ args' = <<>>
  /\ UNCHANGED <<request, file, loaded, printed, history>>

FirstStep(kind) == CASE kind \in {"help", "version"} -> "print"
                     [] kind = "attach" -> "lookup"
                     [] kind = "save" -> "locate"
                     [] OTHER -> "exists"

RunRequest ==
  /\ \E r \in ParseArgs(args) :
       /\ request' = r
       /\ Goto("typing", FirstStep(r.command.kind))
  /\ args' = <<>>
  /\ UNCHANGED <<file, loaded, outcome, history>>

\* help and version
PrintUsage ==
  /\ Exit("print", 0)
  /\ UNCHANGED <<args, request, file, loaded, printed, history>>

(***************************************************************************)
(* load_config_from_path                                                   *)
(***************************************************************************)
\* exists() that fails is taken for no file.
ConfigExists ==
  /\ IF file \in {Missing, Hidden} THEN Goto("exists", "use") ELSE Goto("exists", "read")
  /\ loaded' = Defaults(FALSE)
  /\ there' = file
  /\ UNCHANGED <<args, request, file, outcome, seen, asked>>

\* Mutant: a file that cannot be opened any more is one that is not there.
ReadConfigLax ==
  /\ Goto("read", "use")
  /\ \/ file \in Documents /\ loaded' = Parsed(file)
     \/ file = Failing /\ \E doc \in Documents : loaded' = Parsed(doc)
     \/ file \in {Missing, Hidden, Unreadable} /\ loaded' = Defaults(FALSE)
  /\ seen' = file
  /\ UNCHANGED <<args, request, file, outcome, there, asked>>

\* An error of reading is lost (`out << in.rdbuf()` sets a bit of out, and in
\* is looked at): what was read before it is parsed.
ReadConfig ==
  /\ Goto("read", "use")
  /\ \/ file \in Documents /\ loaded' = Parsed(file)
     \/ file = Failing /\ \E doc \in Documents : loaded' = Parsed(doc)
     \/ file \in {Missing, Hidden, Unreadable} /\ loaded' = Defaults(TRUE)
  /\ seen' = file
  /\ UNCHANGED <<args, request, file, outcome, there, asked>>

\* The user edits the file; a document half written is a document too.
Edit ==
  /\ pc \in {"exists", "read"}
  /\ file' \in Files
  /\ UNCHANGED <<args, pc, request, loaded, outcome, history>>

(***************************************************************************)
(* The commands                                                            *)
(***************************************************************************)
\* History: a command is run on the server that the request names.
Ask(what) == asked' = asked \cup {what}

RefuseDefaults ==
  /\ loaded.defaulted
  /\ Exit("use", 1)
  /\ UNCHANGED <<args, request, file, loaded, printed, history>>

ListTemplates ==
  /\ request.command.kind = "list-templates" /\ ~loaded.defaulted
  /\ Exit("use", 0)
  /\ printed' = loaded.templates
  /\ UNCHANGED <<args, request, file, loaded, history>>

FindTemplate ==
  /\ request.command.kind = "materialize" /\ ~loaded.defaulted
  /\ IF request.command.name \in loaded.templates \ NotSessionNames
     THEN Goto("use", "materialize") /\ UNCHANGED exit
     ELSE Exit("use", 1)
  /\ UNCHANGED <<args, request, file, loaded, printed, history>>

\* A command to tmux succeeds or not.
MaterializeTemplate ==
  /\ Ask("materialize")
  /\ \E code \in {0, 1} : Exit("materialize", code)
  /\ UNCHANGED <<args, request, file, loaded, printed, seen, there>>

LocateSaveScript ==
  /\ \/ Goto("locate", "shell") /\ UNCHANGED exit
     \/ Exit("locate", 1)
  /\ UNCHANGED <<args, request, file, loaded, printed, history>>

RunShell ==
  /\ Ask("run-shell")
  /\ \E code \in {0, 1} : Exit("shell", code)
  /\ UNCHANGED <<args, request, file, loaded, printed, seen, there>>

\* session_exists: yes, or no or an error.
SessionExists ==
  /\ Ask("has-session")
  /\ \/ Goto("lookup", "exec") /\ UNCHANGED exit
     \/ Exit("lookup", 1)
  /\ UNCHANGED <<args, request, file, loaded, printed, seen, there>>

\* replace_process returns only if execvp has failed.
ReplaceProcess ==
  /\ \/ Goto("exec", "replaced") /\ Ask("attach-session") /\ UNCHANGED exit
     \/ Exit("exec", 1) /\ UNCHANGED asked
  /\ UNCHANGED <<args, request, file, loaded, printed, seen, there>>

Next ==
  \/ \E word \in Words : Argument(word)
  \/ UsageError \/ RunRequest \/ PrintUsage
  \/ ConfigExists \/ ReadConfig \/ Edit
  \/ RefuseDefaults \/ ListTemplates \/ FindTemplate \/ MaterializeTemplate
  \/ LocateSaveScript \/ RunShell \/ SessionExists \/ ReplaceProcess

Spec == Init /\ [][Next]_vars

(***************************************************************************)
(* Properties                                                              *)
(***************************************************************************)

Places == {"typing", "print", "exists", "read", "use", "materialize", "locate", "shell",
           "lookup", "exec", "exit", "replaced"}
TmuxCommands == {"materialize", "run-shell", "has-session", "attach-session"}

\* Every variable has its type; the name to attach to is a session's, and
\* defaults in place of a document never come without a warning.
TypeOK ==
  /\ args \in Seq(Words) /\ Len(args) <= MaxArgs
  /\ request.socket[1] \in {"default", "-L", "-S"} /\ request.socket[2] \in Words
  /\ request.command.kind \in Subcommands \cup {"none", "help", "version"}
  /\ request.command.kind = "attach" => request.command.name \in Words \ NotSessionNames
  /\ request.command.kind = "materialize" => request.command.name \in Words \ {Empty}
  /\ {file, seen, there} \subseteq Files
  /\ loaded \in {Defaults(FALSE), Defaults(TRUE)} \cup {Parsed(doc) : doc \in Documents}
  /\ loaded.defaulted => loaded.warned /\ loaded.templates = {}
  /\ printed \subseteq loaded.templates /\ Empty \notin printed
  /\ exit \in 0..2
  /\ pc \in Places /\ asked \subseteq TmuxCommands

\* The command lines of the usage text, and what each asks for.
Forms(line) ==
  LET Is(form, what) == IF form THEN {what} ELSE {}
      Plain(i) == line[i] \notin Globals
  IN UNION {
       Is(line \in {<<>>, <<"--help">>}, Command("help", Empty)),
       Is(line = <<"--version">>, Command("version", Empty)),
       Is(line \in {<<"save">>, <<"list-templates">>}, Command(line[1], Empty)),
       Is(/\ Len(line) = 2 /\ line[1] = "attach"
          /\ line[2] \notin NotSessionNames /\ Plain(2), Command("attach", line[2])),
       Is(/\ Len(line) = 3 /\ line[1] = "materialize"
          /\ \A i \in {2, 3} : line[i] # Empty /\ Plain(i), Command("materialize", line[2]))}

Requests(socket, line) == {[socket |-> socket, command |-> c] : c \in Forms(line)}

\* parse_args accepts exactly the lines of the usage text, at most one socket
\* option with its value first and no option after the subcommand, and reads
\* each as what it says; in particular nothing is read in two ways.
ParsesTheUsage ==
  pc = "typing" =>
    ParseArgs(args) =
      IF Len(args) > 1 /\ args[1] \in {"-L", "-S"}
      THEN IF args[2] = Empty THEN {} ELSE Requests(<<args[1], args[2]>>, SubSeq(args, 3, Len(args)))
      ELSE Requests(DefaultSocket, args)

\* The document without the other templates.
Alone(doc, name) == [doc EXCEPT !.templates = [n \in {name} |-> doc.templates[name]]]

\* A template is to be had exactly if it would be were it the only one in the
\* file: what is wrong with one takes no other away, and none is had from a file
\* whose rest is wrong.
TemplatesAreIsolated ==
  seen \in Documents =>
    \A name \in Named(seen) :
      name \in loaded.templates <=> Parsed(Alone(seen, name)) = [
        templates |-> {name}, warned |-> FALSE, defaulted |-> FALSE]

\* If exists() found a file then, however it is edited meanwhile, a command that
\* needs it succeeds, and asks anything of tmux, only with the configuration of
\* a text that parsed ("refusing to run command with defaults"): the text of the
\* file when it was read, or, when reading it failed, what came before the
\* failure.  A file that exists() does not find, as in a directory that may not
\* be searched, is not spoken of: see DefaultsAreNoticed.
NothingOnDefaults ==
  (there \notin {Missing, Hidden} /\ pc = "exit" /\ (exit = 0 \/ asked # {})) =>
    \E doc \in Documents :
      ~Rejected(doc) /\ loaded = Parsed(doc) /\ seen \in {doc, Failing}

\* What config.hpp says of used_defaults_due_to_error: an existing config that
\* cannot be read is not replaced by defaults unnoticed.  It is if exists()
\* fails, as it does in a directory that may not be searched, and an error of
\* reading is lost, so that the end of the file is missing unnoticed.
DefaultsAreNoticed ==
  (pc = "exit" /\ exit = 0) => there # Hidden /\ seen # Failing

=============================================================================
