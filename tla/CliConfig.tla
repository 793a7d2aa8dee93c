------------------------------ MODULE CliConfig ------------------------------
(***************************************************************************)
(* The configuration file of the command line client, and client processes  *)
(* that edit, replace, remove and read it.  Each process loads the file,    *)
(* works on what it has loaded, and stores it; processes may overlap, and   *)
(* one may be killed while it writes.                                       *)
(***************************************************************************)
EXTENDS Integers

CONSTANTS
  Processes,
  Hosts, Ports, Disks,  \* what users enter
  ValidHosts,           \* the hosts of the expression in valid_host_name
  MayCrash

\* What the proofs assume of the constants: users enter numbers, and the default is valid.
Entries ==
  Ports \cup Disks \subseteq Int /\ ValidHosts \subseteq Hosts /\ "localhost" \in ValidHosts

VARIABLES
  file,   \* Absent, Torn or the configuration
  proc    \* process -> stage, configuration in hand, what the user gave, what the file
          \* held when the command began, and whether the open file is still in the directory

vars == <<file, proc>>

Absent == [absent |-> TRUE]
Torn == [torn |-> TRUE]
Default == [host |-> "localhost", port |-> 7888, disk |-> 10]
Fields == {"host", "port", "disk"}

None == <<>>
Option(values) == {None} \cup {<<v>> : v \in values}

Idle == [stage |-> "idle", cfg |-> Default, before |-> Default, linked |-> FALSE,
         given |-> [host |-> None, port |-> None, disk |-> None]]

Init ==
  /\ file = Absent
  /\ proc = [p \in Processes |-> Idle]

-----------------------------------------------------------------------------
(* Validation                                                              *)

valid_host_name(host) == host \in ValidHosts

\* parse::<u16>
valid_port(port) == 0 <= port /\ port <= 65535

\* DISK_SPACE_NUM_MIN < n <= DISK_SPACE_NUM_MAX
valid_disk_space(disk) == 0 < disk /\ disk <= 4096

Valid(f, value) ==
  /\ f = "host" => valid_host_name(value)
  /\ f = "port" => valid_port(value)
  /\ f = "disk" => valid_disk_space(value)

-----------------------------------------------------------------------------
(* The commands                                                            *)

\* confy::load_path: a missing file is written with the default values first; one
\* that does not parse is an error.
Loaded == IF file = Absent THEN Default ELSE file

\* A configuration with the given fields; an option that was not given is None.
Entered(option, value) == IF option = None THEN value ELSE option[1]
With(cfg, given) == [host |-> Entered(given.host, cfg.host),
                     port |-> Entered(given.port, cfg.port),
                     disk |-> Entered(given.disk, cfg.disk)]
AllValid(given) == \A f \in Fields : given[f] # None => Valid(f, given[f][1])

Begin(p, given, before, after) ==
  proc' = [proc EXCEPT ![p] = [stage |-> "add", given |-> given, before |-> before,
                               cfg |-> after, linked |-> FALSE]]

\* config_edit: the loaded configuration with the given fields, when all of them are
\* valid; otherwise, or if it cannot be loaded, an error.
Edit(p, given) ==
  /\ proc[p].stage = "idle" /\ file # Torn
  /\ file' = Loaded
  /\ \/ AllValid(given) /\ Begin(p, given, Loaded, With(Loaded, given))
     \/ ~AllValid(given) /\ UNCHANGED proc

\* config_add: read_interactive_input asks until the answer is valid; an empty answer is the
\* default.
Add(p, given) ==
  /\ proc[p].stage = "idle" /\ AllValid(given)
  /\ Begin(p, given, Default, With(Default, given))
  /\ UNCHANGED file

\* add_config loads the file once more, and overwrites every field that is not empty, which
\* is all of them.
LoadAgain(p) ==
  /\ proc[p].stage = "add"
  /\ file' = Loaded
  /\ proc' = [proc EXCEPT ![p] = IF file = Torn THEN Idle ELSE [@ EXCEPT !.stage = "open"]]

\* store_path opens the file, which creates or empties it ...
Open(p) ==
  /\ proc[p].stage = "open"
  /\ file' = Torn
  /\ proc' = [proc EXCEPT ![p] = [@ EXCEPT !.stage = "store", !.linked = TRUE]]

\* ... and writes it.  Nobody sees it if the file was removed meanwhile; what another process
\* wrote meanwhile may be longer, and its end remains.
Store(p) ==
  /\ proc[p].stage = "store"
  /\ file' \in IF proc[p].linked THEN {proc[p].cfg} \cup ({Torn} \ {file}) ELSE {file}
  /\ proc' = [proc EXCEPT ![p] = Idle]

config_remove(p) ==
  /\ proc[p].stage = "idle"
  /\ file' = Absent
  /\ proc' = [q \in Processes |-> [proc[q] EXCEPT !.linked = FALSE]]

\* config_show, and get_url of every other command.
get_config(p) ==
  /\ proc[p].stage = "idle"
  /\ file' = Loaded
  /\ UNCHANGED proc

Kill(p) ==
  /\ MayCrash
  /\ proc[p].stage # "idle"
  /\ proc' = [proc EXCEPT ![p] = Idle]
  /\ UNCHANGED file

Given == [host : Option(Hosts), port : Option(Ports), disk : Option(Disks)]

\* main: config edit without any option asks for all of them.
config(p) ==
  \/ \E given \in Given : (\E f \in Fields : given[f] # None) /\ Edit(p, given)
  \/ \E given \in Given : Add(p, given)
  \/ config_remove(p)
  \/ get_config(p)

Next ==
  \E p \in Processes : config(p) \/ LoadAgain(p) \/ Open(p) \/ Store(p) \/ Kill(p)

Spec == Init /\ [][Next]_vars

-----------------------------------------------------------------------------
(* Properties                                                              *)

TypeOK ==
  /\ file \in {Absent, Torn} \/ DOMAIN file = Fields
  /\ \A p \in Processes :
       /\ proc[p].stage \in {"idle", "add", "open", "store"}
       /\ DOMAIN proc[p].cfg = Fields

\* "it will accept value greater than 0 GB till 4096 GB": whatever the processes do, a
\* configuration in the file has a host, a port and a disk space that are in range.
StoredIsValid ==
  file \notin {Absent, Torn}
    => /\ file.host \in ValidHosts
       /\ 0 <= file.port /\ file.port <= 65535
       /\ 0 < file.disk /\ file.disk <= 4096

\* A command changes what its user gave and nothing else: what is in the file once it
\* is stored differs from what was there when the command began, or from the default
\* where the user was asked for everything, in the given fields only.
EditKeepsRest ==
  [][\A p \in Processes :
       proc[p].stage = "store" /\ file' \notin {Absent, Torn}
         => \A f \in {g \in Fields : proc[p].given[g] = None} : file'[f] = proc[p].before[f]]_vars
=============================================================================
