------------------------------- MODULE Startup -------------------------------
(***************************************************************************)
(* A process from its flags to its listeners and to its end: main in       *)
(* crates/app/src/main.rs, build in crates/assembly/src/engine.rs, serve   *)
(* in crates/transport/src/lib.rs and bootstrap in                         *)
(* crates/app/src/devices.rs.                                              *)
(*                                                                         *)
(* Steps that may fail end the process then and there; only a process that *)
(* is stopped, or whose listeners all end, shuts the hub down and removes  *)
(* its uploads.  Devices and pairing codes live in memory.                 *)
(***************************************************************************)
EXTENDS Methods, Naturals, Sequences, FiniteSetsExt

CONSTANTS
    Scenes,         \* names of scenes, as numbers in the order they sort in
    Known,          \* the scenes the engine has
    Profiles,       \* what --profile can say: host, scene, scenes
    Flags,          \* what the flags can say: host, scene, scenes, cert, key
    Environments,   \* key: an API key is set; provider: settings.json has one
    Devices,
    MaxStarts,
    None

Hosts == {"127.0.0.1", "::1", "remote"}

ASSUME StartupAssumption ==
    /\ Scenes \subseteq Nat /\ Known \subseteq Scenes /\ None \notin Scenes /\ None \notin Hosts
    /\ Profiles \subseteq [host : Hosts, scene : Scenes, scenes : SUBSET Scenes]
    /\ Flags \subseteq [host : Hosts \cup {None}, scene : Scenes \cup {None},
                        scenes : SUBSET Scenes, cert : BOOLEAN, key : BOOLEAN]
    /\ Environments \subseteq [key : BOOLEAN, provider : BOOLEAN]

VARIABLES
    stage,
    starts,         \* how often the process was started
    config,         \* host, scene, scenes and tls of this start
    engine,         \* what build_engine made: active scenes, has_credentials, usable
    registered,     \* the methods in the registry
    history,        \* whether there is a history store for the audit sink
    admission,
    devices, code,  \* the paired devices; whether a pairing code is out
    binding,        \* addresses still to bind
    listeners,
    scratch         \* the starts whose upload directory is there

process == <<stage, config, engine, registered, history, admission, devices, code,
             binding, listeners>>
startup == <<process, starts, scratch>>

NoEngine == [active |-> {}, has_credentials |-> FALSE, usable |-> FALSE]

StartupInit ==
    /\ stage = "down" /\ config = None /\ engine = NoEngine /\ registered = {}
    /\ history = FALSE /\ admission = None /\ devices = {} /\ code = "none"
    /\ binding = <<>> /\ listeners = {}
    /\ starts = 0 /\ scratch = {}

\* The process is gone, and what it had in memory with it.
Ends ==
    /\ stage' = "down" /\ config' = None /\ engine' = NoEngine /\ registered' = {}
    /\ history' = FALSE /\ admission' = None /\ devices' = {} /\ code' = "none"
    /\ binding' = <<>> /\ listeners' = {}

Loopback(host) == host # "remote"

-----------------------------------------------------------------------------
(* Assembly *)

\* A flag that was given replaces a line of the profile.
Resolved(profile, flags) ==
    [host |-> IF flags.host = None THEN profile.host ELSE flags.host,
     scene |-> IF flags.scene = None THEN profile.scene ELSE flags.scene,
     scenes |-> IF flags.scenes = {} THEN profile.scenes ELSE flags.scenes,
     tls |-> flags.cert]

\* A profile that cannot be read, and --tls-cert without --tls-key or the other
\* way round, end it before anything is touched.
Starts ==
    /\ stage = "down" /\ starts < MaxStarts
    /\ \E profile \in Profiles, flags \in {f \in Flags : f.cert = f.key} :
        config' = Resolved(profile, flags)
    /\ stage' = "configured"
    /\ starts' = starts + 1
    /\ UNCHANGED <<engine, registered, history, admission, devices, code, binding,
                   listeners, scratch>>

\* build_engine: every scene is resolved, and a credential or a provider found,
\* before the engine is made. The provider makes the credential unnecessary.
BuildsEngine ==
    /\ stage = "configured"
    /\ {config.scene} \cup config.scenes \subseteq Known
    /\ \E env \in {e \in Environments : e.key \/ e.provider} :
        engine' = [active |-> {config.scene} \cup config.scenes,
                   has_credentials |-> env.key,
                   usable |-> env.key \/ env.provider]
    /\ history' \in BOOLEAN
    /\ stage' = "built"
    /\ UNCHANGED <<starts, config, registered, admission, devices, code, binding,
                   listeners, scratch>>

\* Hub::new and Builtin::new: the store is opened, and the upload directory of
\* this process made.
OpensStore ==
    /\ stage = "built"
    /\ scratch' = scratch \cup {starts}
    /\ registered' = BuiltinMethods
    /\ stage' = "opened"
    /\ UNCHANGED <<starts, config, engine, history, admission, devices, code, binding,
                   listeners>>

\* Mutant: the devices' methods are left out.
RegistersNothing(names) == names

\* devices::register; the registry refuses a name that is taken.
RegistersDevices(names) == names \cup DeviceMethods

\* Decided by where this listens.
AdmissionFor(host) == IF Loopback(host) THEN "token" ELSE "paired"

\* The gate, the router, the first refresh of the packages, and a pairing code
\* when the listener is reachable and no device is paired.
Assembles ==
    /\ stage = "opened"
    /\ registered' = RegistersDevices(registered)
    /\ admission' = AdmissionFor(config.host)
    /\ code' = IF ~Loopback(config.host) /\ devices = {} THEN "out" ELSE "none"
    /\ binding' = IF config.host = "127.0.0.1" THEN <<"127.0.0.1", "::1">> ELSE <<config.host>>
    /\ stage' = "assembled"
    /\ UNCHANGED <<starts, config, engine, history, devices, listeners, scratch>>

\* Any of these steps may fail; what is there by then stays.
AssemblyFails ==
    /\ stage \in {"configured", "built", "opened"}
    /\ Ends
    /\ UNCHANGED <<starts, scratch>>

-----------------------------------------------------------------------------
(* serve *)

\* Mutant: plaintext is served anywhere.
ServesPlaintext == TRUE

\* There is no plaintext remote.
MayServe == Loopback(config.host) \/ config.tls

\* The listeners are bound one after the other; each serves from then on. A v6
\* address that cannot be bound is only warned about.
Binds ==
    /\ stage \in {"assembled", "serving"} /\ binding # <<>>
    /\ MayServe
    /\ \/ listeners' = listeners \cup {Head(binding)}
       \/ Head(binding) = "::1" /\ UNCHANGED listeners
    /\ binding' = Tail(binding)
    /\ stage' = "serving"
    /\ UNCHANGED <<starts, config, engine, registered, history, admission, devices, code,
                   scratch>>

\* No TLS material that loads, or no listener: the error of serve is main's,
\* and nothing is shut down.
ServeFails ==
    /\ \/ stage = "assembled"
       \/ stage = "serving" /\ binding = <<>> /\ listeners = {}
    /\ Ends
    /\ UNCHANGED <<starts, scratch>>

\* Ctrl-C, or the listeners ended: hub.shutdown, and this start's uploads go.
Stops ==
    /\ stage \in {"assembled", "serving"}
    /\ Ends
    /\ scratch' = scratch \ {starts}
    /\ UNCHANGED starts

Crashes == stage # "down" /\ Ends /\ UNCHANGED <<starts, scratch>>

\* POST /pair: the code is spent on the device it pairs.
Pairs ==
    /\ listeners # {} /\ code = "out"
    /\ \E d \in Devices : devices' = devices \cup {d}
    /\ code' = "spent"
    /\ UNCHANGED <<stage, config, engine, registered, history, admission, binding,
                   listeners, starts, scratch>>

\* PAIRING_TTL passes, or it is guessed at too often.
CodeRunsOut ==
    /\ code = "out" /\ code' = "spent"
    /\ UNCHANGED <<stage, config, engine, registered, history, admission, devices,
                   binding, listeners, starts, scratch>>

Lives == Starts \/ BuildsEngine \/ OpensStore \/ Assembles \/ Binds \/ Pairs \/ CodeRunsOut

Dies == AssemblyFails \/ ServeFails \/ Stops \/ Crashes

-----------------------------------------------------------------------------
(* What others make of it *)

\* The scene settings.rs takes when a call names none: the first of a list that
\* is sorted.
SettingsScene == Min(engine.active)

\* A browser may connect from a page of this machine.
origin_allowed(host) == host \in {"127.0.0.1", "::1"}

-----------------------------------------------------------------------------
(* Properties *)

\* "A non-loopback bind must have TLS and a paired device": who is reachable
\* from the network has TLS, asks for a paired device's signature, and has put
\* out the code that the first one pairs with.
RemoteIsGuarded ==
    "remote" \in listeners =>
        /\ config.tls
        /\ admission = "paired"
        /\ devices # {} \/ code \in {"out", "spent"}

\* What the table lets through is what somebody answers, and what somebody
\* answers is in the table: from the first listener on, no name is open and
\* answered by nobody, and none is answered and out of everyone's reach.
TableMatchesDispatch ==
    listeners # {} =>
        /\ \A m \in Reachable : Answers(m, registered) # "nobody"
        /\ registered \subseteq Reachable
        /\ \A m \in registered : Answers(m, registered) = "registry"
        /\ \A m \in Intercepted : Answers(m, registered) = "hub"

\* engine.rs: "Whether a usable credential was found at startup."
CredentialsAreTold == stage # "down" => engine.has_credentials = engine.usable

\* settings.rs: "Falling back to the engine's own default".
SettingsTakeTheDefaultScene ==
    engine.active # {} => SettingsScene = config.scene

\* The interface a reachable node serves may connect to that node.
OwnPageConnects == \A host \in listeners : origin_allowed(host)
=============================================================================
