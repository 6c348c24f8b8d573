------------------------------ MODULE ZccpConfig ------------------------------
(***************************************************************************)
(* The broker's actor API, its configuration tree with the monitor of the  *)
(* file it was loaded from, and the inactivity timers that the            *)
(* configuration sets.  Trees live at addresses: a pointer outlives what   *)
(* it points to, and an address that was freed may be given out again.     *)
(* What a message says, what it does to the subscriptions, and what ends   *)
(* the reactor, is ZccpServer's.                                           *)
(***************************************************************************)
EXTENDS Integers, FiniteSets

CONSTANTS
    Clients,        \* routing ids
    Trees,          \* addresses that zconfig_new and zconfig_load return
    Files,          \* names of configuration files
    NoFile,         \* of a tree that no file was loaded into
    Contents,       \* what a file may hold: options, and endpoints to bind
    Unloadable,     \* a file that is missing or cannot be parsed
    Endpoints,
    Values,         \* what atoi makes of the values given to options
    Unset,          \* an option that the tree does not have
    MaxTimers       \* ids given to timers

Options == {"server/timeout", "server/verbose"}
Ids == 1..MaxTimers

ASSUME ConfigAssumption ==
    /\ Values \subseteq Int /\ Unset \notin Values
    /\ Contents \subseteq [options : [Options -> Values \cup {Unset}], endpoints : SUBSET Endpoints]
    /\ Unloadable \notin Contents /\ NoFile \notin Files
    /\ MaxTimers \in Nat

VARIABLES
    disk,           \* the files
    changed,        \* the loaded file was written to since it was loaded
    heap,           \* the tree at each address that was not freed
    config,         \* s_server_t.config: the address of the tree in force
    server_config,  \* server_t.config: where the application finds it
    unloaded,       \* history: the tree in force stands for a file that
                    \* CONFIGURE could not load
    timeout, verbose,
    port, bound,    \* outcome of the last BIND; the endpoints of the ROUTER
    expiry_timer,   \* of each client record; 0 where there is no record
    timers          \* the timers that the reactor holds

treeState == <<disk, changed, heap, config, server_config, unloaded>>
options == <<timeout, verbose>>
ports == <<port, bound>>
timing == <<expiry_timer, timers>>
configVars == <<treeState, options, ports, timing>>

Tree == [file : Files \cup {NoFile}, options : [Options -> Values \cup {Unset}]]
Timer == [id : Ids, client : Clients, delay : Values \cup {60000}]

EmptyRoot == [file |-> NoFile, options |-> [p \in Options |-> Unset]]

(* Of both pointers, only the broker's own is sure to point to a tree.      *)
ConfigTypeOK ==
    /\ disk \in [Files -> Contents \cup {Unloadable}]
    /\ changed \in BOOLEAN /\ unloaded \in BOOLEAN
    /\ config \in Trees /\ server_config \in Trees
    /\ heap \in [{config} -> Tree]
    /\ timeout \in Values \cup {60000} /\ verbose \in BOOLEAN
    /\ port \in Endpoints \cup {0, -1} /\ bound \subseteq Endpoints
    /\ expiry_timer \in [Clients -> Ids \cup {0}]
    /\ timers \subseteq Timer

-----------------------------------------------------------------------------
zconfig_resolve(tree, path, default) ==
    IF tree.options[path] = Unset THEN default ELSE tree.options[path]

(* Mutant of the next definition: verbose is what the tree says.            *)
ConfigSelfResetsVerbose(tree, v) ==
    /\ verbose' = (zconfig_resolve(tree, "server/verbose", 0) # 0)
    /\ timeout' = zconfig_resolve(tree, "server/timeout", 60000)

(* The options are read from `tree`; verbose was v, and stays once set.     *)
s_server_config_self(tree, v) ==
    /\ verbose' = (v \/ zconfig_resolve(tree, "server/verbose", 0) # 0)
    /\ timeout' = zconfig_resolve(tree, "server/timeout", 60000)

(* Of the endpoints that a section binds some may be refused; the port is   *)
(* not noted.                                                               *)
BindSections(k) ==
    /\ \E E \in SUBSET k.endpoints : bound' = bound \cup E
    /\ UNCHANGED port

Loaded(f) == [file |-> f, options |-> disk[f].options]

(* Mutant of the next definition: the sections are applied, the options     *)
(* are not.                                                                 *)
ApplySectionsOnly(f) ==
    /\ BindSections(disk[f])
    /\ UNCHANGED options

s_server_apply_config(f) ==
    /\ BindSections(disk[f])
    /\ s_server_config_self(Loaded(f), verbose)

s_server_new ==
    /\ \E t \in Trees :
          /\ config = t /\ server_config = t
          /\ heap = [u \in {t} |-> EmptyRoot]
    /\ disk \in [Files -> Contents \cup {Unloadable}]
    /\ changed = FALSE /\ unloaded = FALSE
    /\ timeout = 60000 /\ verbose = FALSE
    /\ port = 0 /\ bound = {}
    /\ expiry_timer = [c \in Clients |-> 0] /\ timers = {}

-----------------------------------------------------------------------------
(* s_server_api_message.                                                    *)

Verbose == verbose' = TRUE /\ UNCHANGED <<treeState, timeout, ports, timing>>

Bind(e) ==
    /\ \/ port' = e /\ bound' = bound \cup {e}
       \/ port' = -1 /\ UNCHANGED bound
    /\ UNCHANGED <<treeState, options, timing>>

(* The old tree goes before the new one comes, at any free address t.       *)
Replaces(t, tree) ==
    /\ t \notin DOMAIN heap \ {config}
    /\ heap' = [u \in (DOMAIN heap \ {config}) \cup {t} |-> IF u = t THEN tree ELSE heap[u]]
    /\ config' = t /\ changed' = FALSE

ConfigureLoads(f) ==
    /\ disk[f] # Unloadable
    /\ \E t \in Trees : Replaces(t, Loaded(f)) /\ server_config' = t
    /\ s_server_apply_config(f)
    /\ unloaded' = FALSE
    /\ UNCHANGED <<disk, timing>>

(* Mutant of the next definition: no empty root is put in place.            *)
ConfigureLeavesNone(f) ==
    /\ disk[f] = Unloadable
    /\ heap' = [u \in DOMAIN heap \ {config} |-> heap[u]]
    /\ changed' = FALSE /\ unloaded' = TRUE
    /\ UNCHANGED <<disk, config, server_config, options, ports, timing>>

ConfigureFails(f) ==
    /\ disk[f] = Unloadable
    /\ \E t \in Trees : Replaces(t, EmptyRoot)
    /\ unloaded' = TRUE
    /\ UNCHANGED <<disk, server_config, options, ports, timing>>

Set(path, v) ==
    /\ heap' = [heap EXCEPT ![config].options[path] = v]
    /\ s_server_config_self(heap'[config], verbose)
    /\ UNCHANGED <<disk, changed, config, server_config, unloaded, ports, timing>>

(* "server/animate", an option that nothing else reads.                     *)
SetAnimate(v) ==
    /\ s_server_config_self(heap[config], v # 0)
    /\ UNCHANGED <<treeState, ports, timing>>

(* Mutants of the next definition: the application's pointer, or the        *)
(* options, are left as they were.                                          *)
WatchForgetsServer ==
    LET f == heap[config].file IN
    /\ changed /\ disk[f] # Unloadable
    /\ \E t \in Trees \ {config} : Replaces(t, Loaded(f))
    /\ s_server_config_self(Loaded(f), verbose)
    /\ UNCHANGED <<disk, server_config, unloaded, ports, timing>>

WatchForgetsOptions ==
    LET f == heap[config].file IN
    /\ changed /\ disk[f] # Unloadable
    /\ \E t \in Trees \ {config} : Replaces(t, Loaded(f)) /\ server_config' = t
    /\ UNCHANGED <<disk, unloaded, options, ports, timing>>

(* zconfig_reload loads the new tree before it destroys the old one; bind   *)
(* sections are not applied again.                                          *)
s_watch_server_config ==
    LET f == heap[config].file IN
    /\ changed /\ disk[f] # Unloadable
    /\ \E t \in Trees \ {config} : Replaces(t, Loaded(f)) /\ server_config' = t
    /\ s_server_config_self(Loaded(f), verbose)
    /\ UNCHANGED <<disk, unloaded, ports, timing>>

(* Somebody writes to a file.                                               *)
Edit(f) ==
    /\ \E k \in Contents \cup {Unloadable} : disk' = [disk EXCEPT ![f] = k]
    /\ changed' = (changed \/ f = heap[config].file)
    /\ UNCHANGED <<heap, config, server_config, unloaded, options, ports, timing>>

-----------------------------------------------------------------------------
(* The timers of client records.                                            *)

(* Mutant of the next definition: the old timer runs on.                    *)
ArmAnother(c) ==
    \E i \in Ids \ {t.id : t \in timers} :
        /\ timers' = timers \cup {[id |-> i, client |-> c, delay |-> timeout]}
        /\ expiry_timer' = [expiry_timer EXCEPT ![c] = i]

(* "Any input from client counts as activity": the record's timer, if it    *)
(* has one, ends, and a new one is armed.                                   *)
ArmTimer(c) ==
    \E i \in Ids \ {t.id : t \in timers} :
        /\ timers' = {t \in timers : t.id # expiry_timer[c]}
                        \cup {[id |-> i, client |-> c, delay |-> timeout]}
        /\ expiry_timer' = [expiry_timer EXCEPT ![c] = i]

(* A message that leaves the record in place, or creates it ...             *)
MessageArms(c) == ArmTimer(c) /\ UNCHANGED <<treeState, options, ports>>

(* ... one that ends in s_client_destroy, and an unknown client's too ...   *)
MessageEnds(c) ==
    /\ timers' = {t \in timers : t.id # expiry_timer[c]}
    /\ expiry_timer' = [expiry_timer EXCEPT ![c] = 0]
    /\ UNCHANGED <<treeState, options, ports>>

(* ... and a timer that expires: it is armed once, and its record goes.     *)
TimerExpires(t) ==
    /\ t \in timers
    /\ timers' = {u \in timers : u.id \notin {t.id, expiry_timer[t.client]}}
    /\ expiry_timer' = [expiry_timer EXCEPT ![t.client] = 0]
    /\ UNCHANGED <<treeState, options, ports>>

-----------------------------------------------------------------------------
s_server_api_message ==
    \/ Verbose
    \/ \E e \in Endpoints : Bind(e)
    \/ \E f \in Files : ConfigureLoads(f) \/ ConfigureFails(f)
    \/ \E v \in Values : SetAnimate(v) \/ \E path \in Options : Set(path, v)

ConfigNext ==
    \/ s_server_api_message
    \/ s_watch_server_config
    \/ \E f \in Files : Edit(f)
    \/ \E c \in Clients : MessageArms(c) \/ MessageEnds(c)
    \/ \E t \in timers : TimerExpires(t)

(* The monitor is a timer of the reactor, which runs for ever.              *)
ConfigSpec == s_server_new /\ [][ConfigNext]_configVars /\ WF_configVars(s_watch_server_config)

-----------------------------------------------------------------------------
(* "Current loaded configuration": after any sequence of SET, CONFIGURE and  *)
(* reloads the application's pointer is to the tree in force, unless the    *)
(* last CONFIGURE could not load its file.  (Then it dangles.)              *)
ServerConfigCurrent == ~unloaded => server_config = config

(* The timeout that the next timer is armed with is the one that the tree   *)
(* in force gives, unless the last CONFIGURE could not load its file and    *)
(* nothing was set since.                                                   *)
OptionsInForce ==
    \/ unloaded /\ heap[config] = EmptyRoot
    \/ timeout = zconfig_resolve(heap[config], "server/timeout", 60000)

(* "If we didn't already set verbose": no file that is loaded or reloaded   *)
(* takes back VERBOSE; only "server/animate" does.                          *)
VerboseStays == [][verbose /\ ~verbose' => \E v \in Values : SetAnimate(v)]_configVars

(* The reactor holds one timer for each client record, the one that the     *)
(* record can end, and none for a record that has gone: no client is        *)
(* dropped by an earlier timer than that of its last message, and no timer  *)
(* is left to expire for a record that was freed.                           *)
OneTimerEach ==
    /\ \A t \in timers : expiry_timer[t.client] = t.id
    /\ \A c \in Clients : expiry_timer[c] # 0 => \E t \in timers : t.client = c

(* A change of the file in force reaches the broker, as long as the file    *)
(* stays as it is and is the one in force, whatever is set meanwhile.       *)
FileTakenUp ==
    \A f \in Files, k \in Contents :
        changed /\ heap[config].file = f /\ disk[f] = k
            ~> \/ disk[f] # k \/ heap[config].file # f
               \/ timeout = zconfig_resolve(Loaded(f), "server/timeout", 60000)
=============================================================================
