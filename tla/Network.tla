------------------------------- MODULE Network -------------------------------
(***************************************************************************)
(* The 8network command (src/satellites/network/Network.cc): Main() turns *)
(* the command line into one operation, and Network::Create, Destroy and   *)
(* Information act on the administrator's files for a network name:        *)
(*   descriptor : the names whose descriptor file is stored                *)
(*   netdir     : the names whose network directory exists                 *)
(*   shelter    : per name, the blocks in its shelter: the "everybody"     *)
(*                group block and the root directory object block          *)
(* Each invocation is a process running the steps of its operation in the *)
(* code's order; a step may be the last one (the store throws, the user   *)
(* interrupts, the machine stops), after which the files stay as they are.*)
(* Concurrent invocations share the files and take no lock.               *)
(***************************************************************************)
EXTENDS FiniteSets

CONSTANTS
  Names,    \* network names given with -n
  Procs     \* invocations of the command that may overlap in time

Blocks == {"group", "directory"}

\* The command-line switches: -h, -c, -d, -x.
Switches == {"help", "create", "destroy", "information"}

\* The model string given with -m: a known model, "Null", or unparsable.
ModelArgs == {"known", "null", "unparsable"}

VARIABLES
  descriptor, netdir, shelter,
  pc,       \* per process, the next step of its invocation
  arg       \* per process, its parsed command line

vars == <<descriptor, netdir, shelter, pc, arg>>

Steps == {"idle", "create_check", "create_group", "create_directory",
          "create_descriptor", "destroy_descriptor", "destroy_shelter",
          "destroy_network", "information", "exit_ok", "exit_error"}

Init ==
  /\ descriptor = {}
  /\ netdir = {}
  /\ shelter = [n \in Names |-> {}]
  /\ pc = [p \in Procs |-> "idle"]
  /\ arg = [p \in Procs |-> [switches |-> {}, name |-> CHOOSE n \in Names : TRUE,
                             model |-> "known"]]

Exit(p, ok) == pc' = [pc EXCEPT ![p] = IF ok THEN "exit_ok" ELSE "exit_error"]

Goto(p, step) == pc' = [pc EXCEPT ![p] = step]

(***************************************************************************)
(* Main(): -h prints the usage and succeeds; the "mutually exclusive"     *)
(* check refuses the switches only when -c, -d and -x are all given; then *)
(* each of -c, -d, -x given overwrites the operation, so the last one      *)
(* tested wins; no operation prints the usage and fails. For -c an         *)
(* unparsable model string fails before Network::Create is entered.       *)
(***************************************************************************)
Operation(sw) ==
  IF "information" \in sw THEN "information"
  ELSE IF "destroy" \in sw THEN "destroy"
  ELSE IF "create" \in sw THEN "create"
  ELSE "unknown"

\* The switch on the operation: for -c, model.Create() of the -m string
\* fails before Network::Create; no operation prints the usage and fails.
Dispatch(p, sw, m) ==
  CASE Operation(sw) = "create" ->
         IF m = "unparsable" THEN Exit(p, FALSE) ELSE Goto(p, "create_check")
    [] Operation(sw) = "destroy" -> Goto(p, "destroy_descriptor")
    [] Operation(sw) = "information" -> Goto(p, "information")
    [] OTHER -> Exit(p, FALSE)

Main(p) ==
  /\ pc[p] \in {"idle", "exit_ok", "exit_error"}
  /\ \E sw \in SUBSET Switches, n \in Names, m \in ModelArgs :
       /\ arg' = [arg EXCEPT ![p] = [switches |-> sw, name |-> n, model |-> m]]
       /\ CASE "help" \in sw -> Exit(p, TRUE)
            [] {"create", "destroy", "information"} \subseteq sw -> Exit(p, FALSE)
            [] OTHER -> Dispatch(p, sw, m)
  /\ UNCHANGED <<descriptor, netdir, shelter>>

(***************************************************************************)
(* Network::Create: an existing descriptor, the Null model, an unknown    *)
(* administrator or a wrong passphrase (authority or identity) escapes    *)
(* before anything is written. Then the group block is stored, then the   *)
(* root directory block, and last the descriptor naming both.             *)
(***************************************************************************)
CreateCheck(p) ==
  /\ pc[p] = "create_check"
  /\ \/ Exit(p, FALSE)   \* any check escapes: no administrator, a passphrase
                        \* refused, or one of the two below
     \/ /\ arg[p].name \notin descriptor
        /\ arg[p].model # "null"
        /\ Goto(p, "create_group")
  /\ UNCHANGED <<descriptor, netdir, shelter, arg>>

\* Mutant: the storage.store() of the group block dropped.
CreateGroupUnstored(p) ==
  /\ pc[p] = "create_group"
  /\ Goto(p, "create_directory")
  /\ UNCHANGED <<descriptor, netdir, shelter, arg>>

CreateGroup(p) ==
  /\ pc[p] = "create_group"
  /\ shelter' = [shelter EXCEPT ![arg[p].name] = @ \cup {"group"}]
  /\ Goto(p, "create_directory")
  /\ UNCHANGED <<descriptor, netdir, arg>>

CreateDirectory(p) ==
  /\ pc[p] = "create_directory"
  /\ shelter' = [shelter EXCEPT ![arg[p].name] = @ \cup {"directory"}]
  /\ Goto(p, "create_descriptor")
  /\ UNCHANGED <<descriptor, netdir, arg>>

\* descriptor.store() writes the descriptor file into the network directory.
CreateDescriptor(p) ==
  /\ pc[p] = "create_descriptor"
  /\ descriptor' = descriptor \cup {arg[p].name}
  /\ netdir' = netdir \cup {arg[p].name}
  /\ Exit(p, TRUE)
  /\ UNCHANGED <<shelter, arg>>

(***************************************************************************)
(* Network::Destroy: erase the descriptor if there is one, then clear and *)
(* remove the shelter, then the network directory. A Clear() or Remove()  *)
(* that fails escapes with part of the directory's files already gone.    *)
(***************************************************************************)
DestroyDescriptor(p) ==
  /\ pc[p] = "destroy_descriptor"
  /\ descriptor' = descriptor \ {arg[p].name}
  /\ Goto(p, "destroy_shelter")
  /\ UNCHANGED <<netdir, shelter, arg>>

DestroyShelter(p) ==
  /\ pc[p] = "destroy_shelter"
  /\ \/ /\ shelter' = [shelter EXCEPT ![arg[p].name] = {}]
        /\ Goto(p, "destroy_network")
     \/ /\ \E left \in SUBSET shelter[arg[p].name] :
             shelter' = [shelter EXCEPT ![arg[p].name] = left]
        /\ Exit(p, FALSE)
  /\ UNCHANGED <<descriptor, netdir, arg>>

DestroyNetwork(p) ==
  /\ pc[p] = "destroy_network"
  /\ \/ /\ netdir' = netdir \ {arg[p].name}
        /\ descriptor' = descriptor \ {arg[p].name}
        /\ Exit(p, TRUE)
     \/ /\ Exit(p, FALSE)
        /\ UNCHANGED <<netdir, descriptor>>
  /\ UNCHANGED <<shelter, arg>>

\* Network::Information: fails unless the descriptor exists, else dumps it.
Information(p) ==
  /\ pc[p] = "information"
  /\ Exit(p, arg[p].name \in descriptor)
  /\ UNCHANGED <<descriptor, netdir, shelter, arg>>

\* The invocation stops between two steps: a store throws, or the process
\* is interrupted; the files written so far stay.
Stop(p) ==
  /\ pc[p] \notin {"idle", "exit_ok", "exit_error"}
  /\ Exit(p, FALSE)
  /\ UNCHANGED <<descriptor, netdir, shelter, arg>>

Next ==
  \E p \in Procs :
    \/ Main(p)
    \/ CreateCheck(p) \/ CreateGroup(p) \/ CreateDirectory(p) \/ CreateDescriptor(p)
    \/ DestroyDescriptor(p) \/ DestroyShelter(p) \/ DestroyNetwork(p)
    \/ Information(p)
    \/ Stop(p)

Spec == Init /\ [][Next]_vars

-----------------------------------------------------------------------------
(***************************************************************************)
(* Properties.                                                             *)
(***************************************************************************)

(***************************************************************************)
(* A stored descriptor names the group and root directory blocks of its   *)
(* network, so both must be in the shelter whenever the descriptor is:    *)
(* otherwise the network can be mounted but its root cannot be loaded.    *)
(* Create writes the descriptor last and Destroy erases it first, so an   *)
(* invocation stopped between any two of its stores keeps this.           *)
(***************************************************************************)
DescriptorComplete ==
  \A n \in descriptor : shelter[n] = Blocks /\ n \in netdir

(***************************************************************************)
(* Main() says of -c, -d and -x that they "are mutually exclusive": an    *)
(* invocation that goes on to perform an operation was given exactly one  *)
(* of them.                                                                *)
(***************************************************************************)
OneOperation ==
  \A p \in Procs :
    pc[p] \notin {"idle", "exit_ok", "exit_error"} =>
      Cardinality(arg[p].switches \cap {"create", "destroy", "information"}) = 1

=============================================================================
