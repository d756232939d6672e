--------------------------- MODULE Configuration ---------------------------
(* How a server's configuration comes from its defaults, one TOML file and   *)
(* the options of its command line, and which configurations it accepts.     *)
(*                                                                           *)
(* An address is abstracted to whether it is a loopback address, a path to   *)
(* whether it is empty; the durability policy, which the journal's own model *)
(* chooses, and the log's settings are left out.                             *)
EXTENDS Naturals, Sequences, SequencesExt

Default ==
  [tcp |-> TRUE, local |-> TRUE, socket |-> FALSE,
   mode |-> "disabled", unsafe |-> FALSE, names |-> TRUE,
   certificate |-> FALSE, privateKey |-> FALSE, clientCas |-> FALSE,
   cacheLimit |-> "none", checkpointBytes |-> 1, checkpointOps |-> 1,
   empty |-> {}]    \* settings whose text is empty

\* A file gives some of the settings; an option overrides it.
Resolved(file) == file @@ Default

WithOption(config, option) ==
  CASE option.flag = "--tcp-bind" ->
         [config EXCEPT !.tcp = TRUE, !.local = option.value]
    [] option.flag = "--no-tcp" -> [config EXCEPT !.tcp = FALSE]
    [] option.flag = "--unix-socket" -> [config EXCEPT !.socket = TRUE]
    [] option.flag = "--security-mode" ->
         [config EXCEPT !.mode = option.value]
    [] option.flag = "--server-certificate" ->
         [config EXCEPT !.certificate = TRUE]
    [] option.flag = "--server-private-key" ->
         [config EXCEPT !.privateKey = TRUE]
    [] option.flag = "--trusted-client-ca" ->
         [config EXCEPT !.clientCas = TRUE]
    [] option.flag = "--unsafe-disable-auth" ->
         [config EXCEPT !.unsafe = TRUE]
    [] option.flag = "--max-cached-drawers" ->
         [config EXCEPT !.cacheLimit = option.value]

FromArgs(file, options) == FoldLeft(WithOption, Resolved(file), options)

SecurityComplete(config) ==
  CASE config.mode = "managed" -> config.names
    [] config.mode = "external" ->
         config.certificate /\ config.privateKey /\ config.clientCas
    [] config.mode = "disabled" -> TRUE

\* The listeners' addresses matter where the listeners are enabled.
TextRequired(config) ==
  {"data.directory", "transactions.log_directory",
   "security.access_control_file", "security.security_dir"}
    \cup (IF config.tcp THEN {"network.tcp_bind"} ELSE {})
    \cup (IF config.socket THEN {"network.unix_socket"} ELSE {})

Valid(config) ==
  /\ TextRequired(config) \cap config.empty = {}
  /\ config.cacheLimit # "zero"
  /\ config.checkpointBytes > 0 /\ config.checkpointOps > 0
  /\ SecurityComplete(config)

\* Without authentication TCP is for this machine only, unless that is
\* overridden; with it, there is no socket beside the TLS listener.
ValidForServer(config) ==
  /\ Valid(config)
  /\ config.tcp \/ config.socket
  /\ config.mode # "disabled" => ~config.socket
  /\ config.mode = "disabled" /\ config.tcp =>
       config.unsafe \/ config.local

\* A file is looked at by itself before the options are.
Accepted(file, options) ==
  Valid(Resolved(file)) /\ ValidForServer(FromArgs(file, options))
=============================================================================
