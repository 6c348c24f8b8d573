-------------------------- MODULE ZccpConfig_proofs --------------------------
(***************************************************************************)
(* Proofs about the broker's configuration and timers (ZccpConfig), for    *)
(* any files, contents, tree addresses, clients and numbers of timers.     *)
(***************************************************************************)
EXTENDS ZccpConfig, TLAPS

(* The inductive invariant, in three parts.  The monitor acts only on a     *)
(* tree that a file was loaded into, and a timer is ended by its id, which  *)
(* takes no other timer with it only because ids differ.                    *)
BrokerSound ==
    /\ disk \in [Files -> Contents \cup {Unloadable}]
    /\ unloaded \in BOOLEAN
    /\ timeout \in Values \cup {60000} /\ verbose \in BOOLEAN
    /\ port \in Endpoints \cup {0, -1} /\ bound \subseteq Endpoints

TreeSound ==
    /\ config \in Trees /\ server_config \in Trees
    /\ heap \in [{config} -> Tree]
    /\ changed \in BOOLEAN
    /\ changed => heap[config].file \in Files
    /\ ServerConfigCurrent
    /\ OptionsInForce

TimersSound ==
    /\ expiry_timer \in [Clients -> Ids \cup {0}]
    /\ timers \subseteq Timer
    /\ OneTimerEach
    /\ \A t, u \in timers : t.id = u.id => t = u

ConfigInv == BrokerSound /\ TreeSound /\ TimersSound

-----------------------------------------------------------------------------
(* What s_server_config_self reads is an option.                            *)
LEMMA ConfigSelf ==
    ASSUME NEW tree \in Tree, NEW v \in BOOLEAN, s_server_config_self(tree, v)
    PROVE  /\ timeout' \in Values \cup {60000}
           /\ timeout' = zconfig_resolve(tree, "server/timeout", 60000)
           /\ verbose' \in BOOLEAN
<1>1. tree.options["server/timeout"] \in Values \cup {Unset}
  BY DEF Tree, Options
<1> QED  BY <1>1 DEF s_server_config_self, zconfig_resolve

(* Whatever the tree, verbose stays.                                        *)
LEMMA SelfKeepsVerbose ==
    ASSUME NEW tree, NEW v \in BOOLEAN, s_server_config_self(tree, v)
    PROVE  v => verbose'
<1> DEFINE set == zconfig_resolve(tree, "server/verbose", 0) # 0
<1>1. verbose' = (v \/ set)
  BY DEF s_server_config_self
<1> HIDE DEF set
<1> QED  BY <1>1, Zenon

(* An empty root, and what a file gives, is a tree.                         *)
LEMMA RootIsTree == EmptyRoot \in Tree
BY DEF EmptyRoot, Tree

(* What zconfig_load makes of a file that can be loaded is a tree that      *)
(* knows its file.                                                          *)
LEMMA LoadedIsTree ==
    ASSUME NEW f \in Files, disk \in [Files -> Contents \cup {Unloadable}], disk[f] # Unloadable
    PROVE  /\ Loaded(f) \in Tree /\ Loaded(f).file = f
           /\ disk[f].endpoints \subseteq Endpoints
<1>1. disk[f] \in [options : [Options -> Values \cup {Unset}], endpoints : SUBSET Endpoints]
  BY ConfigAssumption
<1> QED  BY <1>1 DEF Loaded, Tree

(* Wherever the new tree comes to lie, it is the only one then.             *)
LEMMA Replaced ==
    ASSUME heap \in [{config} -> Tree], NEW t \in Trees, NEW tree \in Tree, Replaces(t, tree)
    PROVE  /\ config' = t /\ config' \in Trees
           /\ heap' \in [{config'} -> Tree] /\ heap'[config'] = tree
           /\ changed' = FALSE
<1>1. (DOMAIN heap \ {config}) \cup {t} = {t}
  OBVIOUS
<1>2. heap' = [u \in {t} |-> IF u = t THEN tree ELSE heap[u]]
  BY <1>1 DEF Replaces
<1> QED  BY <1>2 DEF Replaces

(* Options follow the tree wherever they were read from it.                 *)
LEMMA Read ==
    ASSUME NEW v, s_server_config_self(heap'[config'], v)
    PROVE  OptionsInForce'
BY DEF OptionsInForce, s_server_config_self, zconfig_resolve

-----------------------------------------------------------------------------
(* s_server_new leaves one tree, with both pointers to it and the default   *)
(* options.                                                                 *)
LEMMA InitSound == s_server_new => ConfigInv
<1> SUFFICES ASSUME s_server_new PROVE ConfigInv
  OBVIOUS
<1>1. PICK t \in Trees : /\ config = t /\ server_config = t
                         /\ heap = [u \in {t} |-> EmptyRoot]
  BY DEF s_server_new
<1>2. heap \in [{config} -> Tree] /\ heap[config] = EmptyRoot
  BY <1>1, RootIsTree
<1>3. zconfig_resolve(EmptyRoot, "server/timeout", 60000) = 60000
  BY DEF zconfig_resolve, EmptyRoot, Options
<1>4. verbose = FALSE /\ changed = FALSE /\ unloaded = FALSE
  BY DEF s_server_new
<1>5. BrokerSound
  <2>1. disk \in [Files -> Contents \cup {Unloadable}] /\ port = 0 /\ bound = {} /\ timeout = 60000
    BY DEF s_server_new
  <2>2. unloaded \in BOOLEAN /\ verbose \in BOOLEAN
    BY <1>4, Zenon
  <2> QED  BY <1>4, <2>1, <2>2 DEF BrokerSound
<1>6. TreeSound
  <2>1. ServerConfigCurrent /\ OptionsInForce
    BY <1>1, <1>2, <1>3 DEF s_server_new, ServerConfigCurrent, OptionsInForce
  <2>2. changed \in BOOLEAN /\ ~changed
    BY <1>4, Zenon
  <2>3. config \in Trees /\ server_config \in Trees
    BY <1>1
  <2> QED  BY <1>2, <2>1, <2>2, <2>3 DEF TreeSound
<1>7. TimersSound
  BY DEF s_server_new, TimersSound, OneTimerEach
<1> QED  BY <1>5, <1>6, <1>7 DEF ConfigInv

(* No command, reload or edit upsets what the broker holds by itself.       *)
LEMMA BrokerStaysSound ==
    ASSUME BrokerSound, TreeSound, [ConfigNext]_configVars
    PROVE  BrokerSound'
<1>0. /\ disk \in [Files -> Contents \cup {Unloadable}]
      /\ unloaded \in BOOLEAN
      /\ timeout \in Values \cup {60000} /\ verbose \in BOOLEAN
      /\ port \in Endpoints \cup {0, -1} /\ bound \subseteq Endpoints
  BY DEF BrokerSound
<1>h. heap \in [{config} -> Tree] /\ heap[config] \in Tree
  BY DEF TreeSound
<1>1. CASE Verbose
  BY <1>0, <1>1 DEF Verbose, treeState, ports, BrokerSound
<1>2. ASSUME NEW e \in Endpoints, Bind(e)  PROVE BrokerSound'
  BY <1>0, <1>2 DEF Bind, treeState, options, BrokerSound
<1>3. ASSUME NEW f \in Files, ConfigureLoads(f)  PROVE BrokerSound'
  <2>1. /\ disk[f] # Unloadable /\ unloaded' = FALSE /\ disk' = disk
        /\ BindSections(disk[f]) /\ s_server_config_self(Loaded(f), verbose)
    BY <1>3 DEF ConfigureLoads, s_server_apply_config
  <2>2. Loaded(f) \in Tree /\ disk[f].endpoints \subseteq Endpoints
    BY <1>0, <2>1, LoadedIsTree
  <2>3. timeout' \in Values \cup {60000} /\ verbose' \in BOOLEAN
    BY <1>0, <2>1, <2>2, ConfigSelf
  <2>4. port' = port /\ bound' \subseteq Endpoints
    BY <1>0, <2>1, <2>2 DEF BindSections
  <2>5. disk' \in [Files -> Contents \cup {Unloadable}]
    BY <1>0, <2>1
  <2>6. port' \in Endpoints \cup {0, -1}
    BY <1>0, <2>4
  <2>7. unloaded' = FALSE
    BY <2>1
  <2>8. unloaded' \in BOOLEAN
    BY <2>7, Zenon
  <2> QED  BY <2>3, <2>4, <2>5, <2>6, <2>8 DEF BrokerSound
<1>4. ASSUME NEW f \in Files, ConfigureFails(f)  PROVE BrokerSound'
  BY <1>0, <1>4 DEF ConfigureFails, options, ports, BrokerSound
<1>5. ASSUME NEW path \in Options, NEW v \in Values, Set(path, v)  PROVE BrokerSound'
  <2>1. heap'[config] \in Tree
    BY <1>h, <1>5 DEF Set, Tree
  <2>2. s_server_config_self(heap'[config], verbose) /\ UNCHANGED <<disk, unloaded, ports>>
    BY <1>5 DEF Set
  <2>3. timeout' \in Values \cup {60000} /\ verbose' \in BOOLEAN
    BY <1>0, <2>1, <2>2, ConfigSelf
  <2> QED  BY <1>0, <2>2, <2>3 DEF ports, BrokerSound
<1>6. ASSUME NEW v \in Values, SetAnimate(v)  PROVE BrokerSound'
  <2>1. s_server_config_self(heap[config], v # 0) /\ UNCHANGED <<treeState, ports>>
    BY <1>6 DEF SetAnimate
  <2>2. PICK w \in BOOLEAN : w <=> v # 0
    OBVIOUS
  <2>3. s_server_config_self(heap[config], w)
    BY <2>1, <2>2 DEF s_server_config_self
  <2>4. timeout' \in Values \cup {60000} /\ verbose' \in BOOLEAN
    BY <1>h, <2>3, ConfigSelf
  <2> QED  BY <1>0, <2>1, <2>4 DEF treeState, ports, BrokerSound
<1>7. CASE s_watch_server_config
  <2>1. /\ disk[heap[config].file] # Unloadable
        /\ s_server_config_self(Loaded(heap[config].file), verbose)
        /\ UNCHANGED <<disk, unloaded, ports>> /\ changed
    BY <1>7 DEF s_watch_server_config
  <2>2. heap[config].file \in Files
    BY <2>1 DEF TreeSound
  <2>3. Loaded(heap[config].file) \in Tree
    BY <1>0, <2>1, <2>2, LoadedIsTree
  <2>4. timeout' \in Values \cup {60000} /\ verbose' \in BOOLEAN
    BY <1>0, <2>1, <2>3, ConfigSelf
  <2> QED  BY <1>0, <2>1, <2>4 DEF ports, BrokerSound
<1>8. ASSUME NEW f \in Files, Edit(f)  PROVE BrokerSound'
  BY <1>0, <1>8 DEF Edit, options, ports, BrokerSound
<1>9. CASE UNCHANGED <<treeState, options, ports>>
  BY <1>0, <1>9 DEF treeState, options, ports, BrokerSound
<1> QED
  BY <1>1, <1>2, <1>3, <1>4, <1>5, <1>6, <1>7, <1>8, <1>9
     DEF ConfigNext, s_server_api_message, configVars, MessageArms, MessageEnds, TimerExpires

(* The tree, its address and the options stay in step: each action that     *)
(* replaces or changes the tree reads it afterwards, or sets `unloaded`.    *)
LEMMA TreeStaysSound ==
    ASSUME BrokerSound, TreeSound, [ConfigNext]_configVars
    PROVE  TreeSound'
<1>0. /\ config \in Trees /\ server_config \in Trees
      /\ heap \in [{config} -> Tree] /\ heap[config] \in Tree
      /\ changed \in BOOLEAN
      /\ changed => heap[config].file \in Files
      /\ ServerConfigCurrent /\ OptionsInForce
  BY DEF TreeSound
<1>v. disk \in [Files -> Contents \cup {Unloadable}] /\ verbose \in BOOLEAN
  BY DEF BrokerSound
(* What leaves the tree and the timeout alone ...                           *)
<1>1. ASSUME UNCHANGED <<treeState, timeout>>  PROVE TreeSound'
  <2>1. /\ config' = config /\ server_config' = server_config /\ heap' = heap
        /\ changed' = changed /\ unloaded' = unloaded /\ timeout' = timeout
    BY <1>1 DEF treeState
  <2>2. ServerConfigCurrent' /\ OptionsInForce'
    BY <1>0, <2>1 DEF ServerConfigCurrent, OptionsInForce, zconfig_resolve
  <2> QED  BY <1>0, <2>1, <2>2 DEF TreeSound
(* ... and what replaces the tree and reads the new one.                    *)
<1>2. ASSUME NEW t \in Trees, NEW tree \in Tree, NEW v \in BOOLEAN, Replaces(t, tree),
             server_config' = t, s_server_config_self(tree, v)
      PROVE  TreeSound'
  <2>1. /\ config' = t /\ config' \in Trees /\ changed' = FALSE
        /\ heap' \in [{config'} -> Tree] /\ heap'[config'] = tree
    BY <1>0, <1>2, Replaced
  <2>2. s_server_config_self(heap'[config'], v) /\ heap'[config'] \in Tree
    BY <1>2, <2>1
  <2>3. OptionsInForce'
    BY <2>2, Read
  <2>4. ServerConfigCurrent' /\ server_config' \in Trees
    BY <1>2, <2>1 DEF ServerConfigCurrent
  <2> QED  BY <2>1, <2>3, <2>4 DEF TreeSound
<1>3. ASSUME NEW f \in Files, ConfigureLoads(f)  PROVE TreeSound'
  <2>1. disk[f] # Unloadable /\ s_server_config_self(Loaded(f), verbose)
    BY <1>3 DEF ConfigureLoads, s_server_apply_config
  <2>2. PICK t \in Trees : Replaces(t, Loaded(f)) /\ server_config' = t
    BY <1>3 DEF ConfigureLoads
  <2>3. Loaded(f) \in Tree
    BY <1>v, <2>1, LoadedIsTree
  <2> QED  BY <1>v, <1>2, <2>1, <2>2, <2>3
<1>4. ASSUME NEW f \in Files, ConfigureFails(f)  PROVE TreeSound'
  <2>1. PICK t \in Trees : Replaces(t, EmptyRoot)
    BY <1>4 DEF ConfigureFails
  <2>2. /\ config' = t /\ config' \in Trees /\ changed' = FALSE
        /\ heap' \in [{config'} -> Tree] /\ heap'[config'] = EmptyRoot
    BY <1>0, <2>1, RootIsTree, Replaced
  <2>3. server_config' = server_config /\ unloaded' = TRUE
    BY <1>4 DEF ConfigureFails
  <2>4. OptionsInForce' /\ ServerConfigCurrent'
    BY <2>2, <2>3 DEF OptionsInForce, ServerConfigCurrent, EmptyRoot
  <2> QED  BY <1>0, <2>2, <2>3, <2>4 DEF TreeSound
<1>5. ASSUME NEW path \in Options, NEW v \in Values, Set(path, v)  PROVE TreeSound'
  <2>1. /\ heap' = [heap EXCEPT ![config].options[path] = v]
        /\ changed' = changed /\ config' = config /\ server_config' = server_config
        /\ unloaded' = unloaded /\ s_server_config_self(heap'[config], verbose)
    BY <1>5 DEF Set
  <2>2. /\ heap'[config'] \in Tree /\ heap' \in [{config'} -> Tree]
        /\ heap'[config'].file = heap[config].file
    BY <1>0, <2>1 DEF Tree
  <2>3. s_server_config_self(heap'[config'], verbose)
    BY <2>1
  <2>4. OptionsInForce'
    BY <1>v, <2>2, <2>3, Read
  <2>5. ServerConfigCurrent'
    BY <1>0, <2>1 DEF ServerConfigCurrent
  <2> QED  BY <1>0, <2>1, <2>2, <2>4, <2>5 DEF TreeSound
<1>6. ASSUME NEW v \in Values, SetAnimate(v)  PROVE TreeSound'
  <2>1. /\ config' = config /\ server_config' = server_config /\ heap' = heap
        /\ changed' = changed /\ unloaded' = unloaded
        /\ s_server_config_self(heap[config], v # 0)
    BY <1>6 DEF SetAnimate, treeState
  <2>2. heap'[config'] \in Tree /\ s_server_config_self(heap'[config'], v # 0)
    BY <1>0, <2>1
  <2>3. timeout' = zconfig_resolve(heap'[config'], "server/timeout", 60000)
    BY <2>2 DEF s_server_config_self
  <2>4. OptionsInForce'
    BY <2>3 DEF OptionsInForce, zconfig_resolve
  <2>5. ServerConfigCurrent'
    BY <1>0, <2>1 DEF ServerConfigCurrent
  <2> QED  BY <1>0, <2>1, <2>4, <2>5 DEF TreeSound
<1>7. CASE s_watch_server_config
  <2>1. /\ disk[heap[config].file] # Unloadable /\ changed
        /\ s_server_config_self(Loaded(heap[config].file), verbose)
    BY <1>7 DEF s_watch_server_config
  <2>2. PICK t \in Trees : Replaces(t, Loaded(heap[config].file)) /\ server_config' = t
    BY <1>7 DEF s_watch_server_config
  <2>3. Loaded(heap[config].file) \in Tree
    BY <1>0, <1>v, <2>1, LoadedIsTree
  <2> QED  BY <1>v, <1>2, <2>1, <2>2, <2>3
<1>8. ASSUME NEW f \in Files, Edit(f)  PROVE TreeSound'
  <2>1. /\ config' = config /\ server_config' = server_config /\ heap' = heap
        /\ unloaded' = unloaded /\ timeout' = timeout
        /\ changed' = (changed \/ f = heap[config].file)
    BY <1>8 DEF Edit, options
  <2>2. ServerConfigCurrent' /\ OptionsInForce'
    BY <1>0, <2>1 DEF ServerConfigCurrent, OptionsInForce, zconfig_resolve
  <2>3. changed' \in BOOLEAN /\ (changed' => heap'[config'].file \in Files)
    BY <1>0, <2>1
  <2> QED  BY <1>0, <2>1, <2>2, <2>3 DEF TreeSound
<1>9. ASSUME \/ Verbose
             \/ \E e \in Endpoints : Bind(e)
             \/ \E c \in Clients : MessageArms(c) \/ MessageEnds(c)
             \/ \E t \in timers : TimerExpires(t)
             \/ UNCHANGED configVars
      PROVE  TreeSound'
  <2>1. UNCHANGED <<treeState, timeout>>
    BY <1>9 DEF Verbose, Bind, MessageArms, MessageEnds, TimerExpires, configVars, options
  <2> QED  BY <1>1, <2>1
<1> QED
  BY <1>3, <1>4, <1>5, <1>6, <1>7, <1>8, <1>9 DEF ConfigNext, s_server_api_message

(* No message and no expiry leaves a timer without a record, or two.        *)
LEMMA TimersStaySound ==
    ASSUME BrokerSound, TimersSound, [ConfigNext]_configVars
    PROVE  TimersSound'
<1>0. /\ expiry_timer \in [Clients -> Ids \cup {0}]
      /\ \A t \in timers : /\ t \in Timer /\ t.id \in Ids /\ t.client \in Clients
                           /\ expiry_timer[t.client] = t.id
      /\ \A c \in Clients : expiry_timer[c] # 0 => \E t \in timers : t.client = c
      /\ \A t, u \in timers : t.id = u.id => t = u
      /\ 0 \notin Ids
  BY DEF TimersSound, OneTimerEach, Timer, Ids
(* The record's own timer is the one with the id that the record holds.     *)
<1>t. \A c \in Clients : \A t \in timers : t.id = expiry_timer[c] <=> t.client = c
  <2> SUFFICES ASSUME NEW c \in Clients, NEW t \in timers, t.id = expiry_timer[c]
               PROVE  t.client = c
    BY <1>0
  <2>1. PICK u \in timers : u.client = c
    BY <1>0
  <2> QED  BY <1>0, <2>1
<1>1. ASSUME NEW c \in Clients, MessageArms(c)  PROVE TimersSound'
  <2>0. ArmTimer(c)
    BY <1>1 DEF MessageArms
  <2>1. PICK i \in Ids \ {t.id : t \in timers} :
          /\ timers' = {t \in timers : t.id # expiry_timer[c]}
                          \cup {[id |-> i, client |-> c, delay |-> timeout]}
          /\ expiry_timer' = [expiry_timer EXCEPT ![c] = i]
    BY <2>0, Zenon DEF ArmTimer
  <2> DEFINE new == [id |-> i, client |-> c, delay |-> timeout]
  <2>2. /\ new \in Timer /\ new.id = i /\ new.client = c
        /\ \A t \in timers : t.id # i
    BY DEF BrokerSound, Timer
  <2> HIDE DEF new
  <2>3. timers' = {t \in timers : t.client # c} \cup {new}
    BY <1>t, <2>1 DEF new
  <2>4. /\ expiry_timer' \in [Clients -> Ids \cup {0}]
        /\ \A d \in Clients : expiry_timer'[d] = IF d = c THEN i ELSE expiry_timer[d]
    BY <1>0, <2>1
  <2>5. timers' \subseteq Timer
    BY <1>0, <2>2, <2>3
  <2>6. \A t \in timers' : expiry_timer'[t.client] = t.id
    BY <1>0, <2>2, <2>3, <2>4
  <2>7. \A d \in Clients : expiry_timer'[d] # 0 => \E t \in timers' : t.client = d
    BY <1>0, <2>2, <2>3, <2>4
  <2>8. \A t, u \in timers' : t.id = u.id => t = u
    BY <1>0, <2>2, <2>3
  <2> QED  BY <2>4, <2>5, <2>6, <2>7, <2>8 DEF TimersSound, OneTimerEach
<1> DEFINE Ends(c) == /\ timers' = {t \in timers : t.client # c}
                      /\ expiry_timer' = [expiry_timer EXCEPT ![c] = 0]
<1>2. ASSUME NEW c \in Clients, Ends(c)  PROVE TimersSound'
  <2>1. /\ expiry_timer' \in [Clients -> Ids \cup {0}]
        /\ \A d \in Clients : expiry_timer'[d] = IF d = c THEN 0 ELSE expiry_timer[d]
    BY <1>0, <1>2
  <2>2. timers' \subseteq Timer /\ \A t, u \in timers' : t.id = u.id => t = u
    BY <1>0, <1>2
  <2>3. \A t \in timers' : expiry_timer'[t.client] = t.id
    BY <1>0, <1>2, <2>1
  <2>4. \A d \in Clients : expiry_timer'[d] # 0 => \E t \in timers' : t.client = d
    BY <1>0, <1>2, <2>1
  <2> QED  BY <2>1, <2>2, <2>3, <2>4 DEF TimersSound, OneTimerEach
<1>3. ASSUME NEW c \in Clients, MessageEnds(c)  PROVE TimersSound'
  <2>1. timers' = {t \in timers : t.client # c}
    BY <1>t, <1>3 DEF MessageEnds
  <2>2. expiry_timer' = [expiry_timer EXCEPT ![c] = 0]
    BY <1>3 DEF MessageEnds
  <2>3. Ends(c)
    BY <2>1, <2>2
  <2> HIDE DEF Ends
  <2> QED  BY <1>2, <2>3
<1>4. ASSUME NEW t \in timers, TimerExpires(t)  PROVE TimersSound'
  <2>1. t.client \in Clients /\ expiry_timer[t.client] = t.id
    BY <1>0
  <2>2. timers' = {u \in timers : u.id \notin {t.id, expiry_timer[t.client]}}
    BY <1>4 DEF TimerExpires
  <2>3. timers' = {u \in timers : u.client # t.client}
    BY <1>t, <2>1, <2>2
  <2>4. expiry_timer' = [expiry_timer EXCEPT ![t.client] = 0]
    BY <1>4 DEF TimerExpires
  <2>5. Ends(t.client)
    BY <2>3, <2>4
  <2> HIDE DEF Ends
  <2> QED  BY <1>2, <2>1, <2>5
<1>5. CASE UNCHANGED timing
  BY <1>5 DEF timing, TimersSound, OneTimerEach
<1>6. CASE s_server_api_message
  <2>1. UNCHANGED timing
    BY <1>6 DEF s_server_api_message, Verbose, Bind, ConfigureLoads, ConfigureFails, Set, SetAnimate
  <2> QED  BY <1>5, <2>1
<1>7. CASE s_watch_server_config \/ (\E f \in Files : Edit(f)) \/ UNCHANGED configVars
  <2>1. UNCHANGED timing
    BY <1>7 DEF s_watch_server_config, Edit, configVars
  <2> QED  BY <1>5, <2>1
<1> QED
  BY <1>1, <1>3, <1>4, <1>6, <1>7 DEF ConfigNext

(* The invariant holds after every sequence of commands, edits, reloads,    *)
(* messages and timeouts.                                                   *)
THEOREM ConfigInvAlways == ConfigSpec => []ConfigInv
<1>1. ConfigInv /\ [ConfigNext]_configVars => ConfigInv'
  <2> SUFFICES ASSUME ConfigInv, [ConfigNext]_configVars  PROVE ConfigInv'
    OBVIOUS
  <2>1. BrokerSound /\ TreeSound /\ TimersSound
    BY DEF ConfigInv
  <2> QED  BY <2>1, BrokerStaysSound, TreeStaysSound, TimersStaySound DEF ConfigInv
<1> QED  BY InitSound, <1>1, PTL DEF ConfigSpec

-----------------------------------------------------------------------------
(* Exactly one tree is allocated, and the broker's own pointer is to it;    *)
(* all other state is well formed.                                          *)
THEOREM ConfigTypeCorrect == ConfigSpec => []ConfigTypeOK
<1>1. ConfigInv => ConfigTypeOK
  BY DEF ConfigInv, BrokerSound, TreeSound, TimersSound, ConfigTypeOK
<1> QED  BY <1>1, ConfigInvAlways, PTL

(* The application's pointer server.config is to the tree in force, after   *)
(* any sequence of commands and reloads and wherever the trees come to lie, *)
(* but after a CONFIGURE that could not load its file.                      *)
THEOREM PointerFollowsTree == ConfigSpec => []ServerConfigCurrent
<1>1. ConfigInv => ServerConfigCurrent
  BY DEF ConfigInv, TreeSound
<1> QED  BY <1>1, ConfigInvAlways, PTL

(* The timeout that s_server_config_self has stored is the one of the tree  *)
(* in force, whatever is set, configured or reloaded, in whichever order.   *)
THEOREM OptionsFollowTree == ConfigSpec => []OptionsInForce
<1>1. ConfigInv => OptionsInForce
  BY DEF ConfigInv, TreeSound
<1> QED  BY <1>1, ConfigInvAlways, PTL

(* A record has one timer, and no timer outlives its record.                *)
THEOREM NoStrayTimer == ConfigSpec => []OneTimerEach
<1>1. ConfigInv => OneTimerEach
  BY DEF ConfigInv, TimersSound
<1> QED  BY <1>1, ConfigInvAlways, PTL

(* Nothing but "server/animate" takes back VERBOSE.                         *)
THEOREM KeepsVerbose == ConfigSpec => VerboseStays
<1> DEFINE Keeps == verbose /\ ~verbose' => \E v \in Values : SetAnimate(v)
<1>1. ASSUME ConfigInv, [ConfigNext]_configVars  PROVE [Keeps]_configVars
  <2> SUFFICES ASSUME ConfigNext, verbose, ~verbose'  PROVE \E v \in Values : SetAnimate(v)
    BY <1>1
  <2>0. verbose \in BOOLEAN
    BY <1>1 DEF ConfigInv, BrokerSound
  <2>1. ASSUME NEW tree, s_server_config_self(tree, verbose)  PROVE FALSE
    BY <2>0, <2>1, SelfKeepsVerbose
  <2>2. ~Verbose /\ ~s_watch_server_config
    BY <2>1 DEF Verbose, s_watch_server_config
  <2>3. ASSUME NEW f \in Files  PROVE ~ConfigureLoads(f) /\ ~ConfigureFails(f) /\ ~Edit(f)
    BY <2>1, Zenon DEF ConfigureLoads, ConfigureFails, Edit, options, s_server_apply_config
  <2>4. \A e \in Endpoints : ~Bind(e)
    BY Zenon DEF Bind, options
  <2>5. \A path \in Options, v \in Values : ~Set(path, v)
    BY <2>1, Zenon DEF Set
  <2>6. /\ \A c \in Clients : ~MessageArms(c) /\ ~MessageEnds(c)
        /\ \A t \in timers : ~TimerExpires(t)
    BY Zenon DEF MessageArms, MessageEnds, TimerExpires, options
  <2> QED  BY <2>2, <2>3, <2>4, <2>5, <2>6, Zenon DEF ConfigNext, s_server_api_message
<1> QED  BY <1>1, ConfigInvAlways, PTL DEF ConfigSpec, VerboseStays
=============================================================================
