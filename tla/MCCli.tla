--------------------------------- MODULE MCCli ---------------------------------
(* Every line of up to five of twelve words; documents with the templates    *)
(* `dev` and `a:b`, which is no session name, in every state of repair, and  *)
(* one with an empty name, and none at all.                                  *)
EXTENDS Cli

MCDashed == {"--help", "--version", "-L", "-S", "-x"}
MCWords == MCDashed \cup {"attach", "save", "list-templates", "materialize", "", "dev", "a:b"}
MCNotSessionNames == {"", "a:b"}

Good == {[name |-> "string", command |-> "absent", unknown |-> FALSE]}
Nameless == {[name |-> "absent", command |-> "string", unknown |-> FALSE]}
Template(windows) == {[windows |-> windows, unknown |-> FALSE]}
Whole == Template({<<Good>>})
Torn == Template({<<Good, Nameless>>})
Others == {Template({<<>>}), Template({}), {[windows |-> {<<Good>>}, unknown |-> TRUE]}, {}}
Document(toml, unknown, templates) ==
  [toml |-> toml, unknown |-> unknown, badTheme |-> FALSE, badTemplates |-> FALSE,
   templates |-> templates]
Wrong(theme) ==
  [toml |-> TRUE, unknown |-> FALSE, badTheme |-> theme, badTemplates |-> ~theme,
   templates |-> [n \in {"dev"} |-> Whole]]
MCDocuments ==
  {Document(TRUE, FALSE, t) :
     t \in [{"dev", "a:b"} -> {Whole, Torn}] \cup [{""} -> {Whole}] \cup [{"dev"} -> Others] \cup [{} -> {Whole}]}
    \cup {Document(toml, toml, [n \in {"dev"} |-> Whole]) : toml \in BOOLEAN}
    \cup {Wrong(theme) : theme \in BOOLEAN}
=============================================================================
