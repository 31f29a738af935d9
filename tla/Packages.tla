------------------------------- MODULE Packages ------------------------------
(***************************************************************************)
(* From an upload grant to a served package: crates/transport/src/bulk.rs, *)
(* crates/builtin/src/plugins.rs and packages.rs, the refresh in           *)
(* crates/app/src/main.rs, and crates/transport/src/statics.rs.            *)
(*                                                                         *)
(* Every call that changes what is installed asks the engine first and     *)
(* then refreshes: it lists the packages, reads their manifests, points    *)
(* the static face at them and spawns a task that tells the hub what to    *)
(* answer at hello.  Refreshes hold a lock; the spawned tasks do not, and  *)
(* a request that is dropped in between never refreshes.                   *)
(*                                                                         *)
(* The engine is external: it installs a build as a whole or not at all.   *)
(***************************************************************************)
EXTENDS Naturals

CONSTANTS
    Plugins,
    Builds,             \* what an archive can hold
    PluginOf,           \* the plugin a build is a build of
    Manifest,           \* the ui entries of a build
    Changes,            \* calls of nest.plugins.install, uninstall, ...
    Tokens,             \* of upload grants
    Puts,               \* POSTs to /upload
    FileCeiling,        \* MAX_UPLOAD_BYTES
    PackageCeiling,     \* MAX_PACKAGE_BYTES, and what /upload buffers
    Sizes,
    Headless,           \* whether the node was started with no interface
    None

\* An entry has a module, the contribution API it declares and whether its file
\* is in the package's ui directory.
Modules == {e.module : e \in UNION {Manifest[b] : b \in Builds}}

ASSUME PackagesAssumption ==
    /\ PluginOf \in [Builds -> Plugins] /\ None \notin Builds
    /\ \A b \in Builds : \A e \in Manifest[b] :
        e.api \in {"ours", "other", "undeclared"} /\ e.there \in BOOLEAN
    /\ Sizes \subseteq Nat \ {0} /\ {FileCeiling, PackageCeiling} \subseteq Sizes
    /\ Headless \in BOOLEAN
    /\ "startup" \notin Changes /\ None \notin Changes \cup {"startup"}

VARIABLES
    installed, disabled,    \* the engine: the build of each plugin
    granted,                \* uploads: the ceiling of each grant not yet spent
    limit,                  \* the ceiling each token was issued under
    file,                   \* what is at the path of each token
    put,                    \* each POST
    pc,                     \* each change, and the refresh at startup
    holder,                 \* who holds on_packages_changed
    listed,                 \* what plugin.list answered
    served,                 \* StaticFace.packages
    told,                   \* ui_contributions
    tasks,                  \* spawned, and yet to set ui_contributions
    refreshes,              \* how many refreshes there were
    landed,                 \* the refresh whose task was the last to run
    owing, seen             \* changes no listing has followed; those one did

engine == <<installed, disabled>>
uploads == <<granted, limit, file, put>>
faces == <<served, told, tasks, refreshes, landed>>
vars == <<engine, uploads, pc, holder, listed, faces, owing, seen>>

Refreshers == Changes \cup {"startup"}

NoPut == [pc |-> "idle", token |-> None, body |-> None, size |-> 0]

Init ==
    /\ installed \in [Plugins -> Builds \cup {None}]
    /\ \A p \in Plugins : installed[p] # None => PluginOf[installed[p]] = p
    /\ disabled \in SUBSET {p \in Plugins : installed[p] # None}
    /\ granted = [t \in Tokens |-> 0]
    /\ limit = [t \in Tokens |-> 0]
    /\ file = [t \in Tokens |-> "none"]
    /\ put = [u \in Puts |-> NoPut]
    /\ pc = [c \in Refreshers |-> IF c = "startup" THEN "locked" ELSE "idle"]
    /\ holder = "startup"
    /\ listed = [c \in Refreshers |-> {}]
    /\ served = {} /\ told = {} /\ tasks = {}
    /\ refreshes = 0 /\ landed = 0
    /\ owing = {"startup"}
    /\ seen = [c \in Refreshers |-> {}]

Go(c, label) == pc' = [pc EXCEPT ![c] = label]

\* Nothing is served before the refresh at startup is done.
Serving == pc["startup"] \in {"done", "blind"}

-----------------------------------------------------------------------------
(* The bulk channel *)

\* nest.upload.begin and nest.plugins.upload: a token of its own for each.
Grants(t, ceiling) ==
    /\ Serving /\ limit[t] = 0
    /\ granted' = [granted EXCEPT ![t] = ceiling]
    /\ limit' = [limit EXCEPT ![t] = ceiling]
    /\ UNCHANGED <<engine, file, put, pc, holder, listed, faces, owing, seen>>

\* Mutant: the grant is looked up and stays.
ClaimKeeps(t) == granted' = granted

\* claim_upload takes the grant out of the map.
Claim(t) == granted' = [granted EXCEPT ![t] = 0]

\* The route has buffered the body, or refused it. The grant is spent by
\* whoever claims it, however the request ends.
PutClaims(u, t) ==
    \E b \in Builds, size \in {s \in Sizes : s <= PackageCeiling} :
        /\ Serving /\ put[u].pc = "idle" /\ limit[t] > 0
        /\ IF granted[t] = 0
           THEN put' = [put EXCEPT ![u].pc = "forbidden"] /\ UNCHANGED granted
           ELSE /\ Claim(t)
                /\ put' = [put EXCEPT ![u] =
                    [pc |-> IF size > granted[t] THEN "tooLarge" ELSE "opening",
                     token |-> t, body |-> b, size |-> size]]
        /\ UNCHANGED <<engine, limit, file, pc, holder, listed, faces, owing, seen>>

PutOpens(u) ==
    /\ put[u].pc = "opening"
    /\ put' = [put EXCEPT ![u].pc = "filling"]
    /\ file' = [file EXCEPT ![put[u].token] = "torn"]
    /\ UNCHANGED <<engine, granted, limit, pc, holder, listed, faces, owing, seen>>

\* A second writer in the same file leaves its own body or a mixture.
PutFills(u) ==
    LET t == put[u].token IN
    /\ put[u].pc = "filling"
    /\ put' = [put EXCEPT ![u].pc = "stored"]
    /\ \/ file' = [file EXCEPT ![t] = put[u].body]
       \/ file[t] # "torn" /\ file' = [file EXCEPT ![t] = "torn"]
    /\ UNCHANGED <<engine, granted, limit, pc, holder, listed, faces, owing, seen>>

\* The write fails; what it wrote so far stays.
PutFails(u) ==
    /\ put[u].pc \in {"opening", "filling"}
    /\ put' = [put EXCEPT ![u].pc = "failed"]
    /\ UNCHANGED <<engine, granted, limit, file, pc, holder, listed, faces, owing, seen>>

-----------------------------------------------------------------------------
(* nest.plugins.*: the engine first, then the refresh *)

\* What the engine does of a change; an error of its goes back as it is.
Becomes(c, builds, off) ==
    /\ \/ installed' = builds /\ disabled' = off
          /\ Go(c, "answered") /\ owing' = owing \cup {c}
       \/ Go(c, "refused") /\ UNCHANGED <<engine, owing>>
    /\ UNCHANGED <<uploads, holder, listed, faces, seen>>

\* plugin.install takes any path; one with half an archive is refused.
Installs(c) ==
    /\ Serving /\ pc[c] = "idle"
    /\ \E t \in {t \in Tokens : file[t] \in Builds} :
        LET p == PluginOf[file[t]]
        IN  Becomes(c, [installed EXCEPT ![p] = file[t]], disabled \ {p})

\* plugin.uninstall, plugin.disable, plugin.enable and plugin.reload.
Manages(c) ==
    /\ Serving /\ pc[c] = "idle"
    /\ \E p \in {p \in Plugins : installed[p] # None} :
        \/ Becomes(c, [installed EXCEPT ![p] = None], disabled \ {p})
        \/ Becomes(c, installed, disabled \cup {p})
        \/ Becomes(c, installed, disabled \ {p})
        \/ Becomes(c, installed, disabled)

\* Mutant: the callback is taken out of its lock before the listing.
RefreshLocksNot(c) ==
    /\ pc[c] = "answered"
    /\ Go(c, "locked")
    /\ UNCHANGED <<engine, uploads, holder, listed, faces, owing, seen>>

\* The guard of on_packages_changed lives as long as the body that uses it.
RefreshLocks(c) ==
    /\ pc[c] = "answered"
    /\ holder = None
    /\ holder' = c
    /\ Go(c, "locked")
    /\ UNCHANGED <<engine, uploads, listed, faces, owing, seen>>

\* What plugin.list answers of each package: enabled, unless it says otherwise.
Listing == {[plugin |-> p, enabled |-> p \notin disabled] :
                p \in {p \in Plugins : installed[p] # None}}

\* discover asks the engine; an error reads as nothing installed.
RefreshLists(c) ==
    /\ pc[c] = "locked"
    /\ \/ /\ listed' = [listed EXCEPT ![c] = Listing]
          /\ seen' = [seen EXCEPT ![c] = owing]
          /\ Go(c, "listed")
       \/ /\ listed' = [listed EXCEPT ![c] = {}]
          /\ Go(c, "unlisted")
          /\ UNCHANGED seen
    /\ UNCHANGED <<engine, uploads, holder, faces, owing>>

-----------------------------------------------------------------------------
(* Reading the packages, when the listing is there *)

\* The ui section of the plugin's manifest; a package without one contributes
\* nothing and is not served.
Ui(p) == IF installed[p] = None THEN {} ELSE Manifest[installed[p]]

\* Mutant: whatever the manifest declares.
Takes(e) == TRUE

\* A module for another contribution API, or one that is not in the package, is
\* inert. One that declares none is loaded.
Loads(e) == e.api # "other" /\ e.there

\* read_all, for what the faces are given of it.
ReadAll(list) == {l.plugin : l \in {l \in list : l.enabled /\ Ui(l.plugin) # {}}}

ModulesOf(plugins) ==
    UNION {{<<p, e.module>> : e \in {e \in Ui(p) : Loads(e)}} : p \in plugins}

\* apply_packages: the static face at once, what hello tells in a task.
RefreshApplies(c) ==
    LET plugins == ReadAll(listed[c]) IN
    /\ pc[c] \in {"listed", "unlisted"}
    /\ served' = plugins
    /\ tasks' = tasks \cup {[n |-> refreshes + 1, modules |-> ModulesOf(plugins)]}
    /\ refreshes' = refreshes + 1
    /\ holder' = None
    /\ owing' = IF pc[c] = "listed" THEN owing \ seen[c] ELSE owing \cup {c}
    /\ Go(c, IF pc[c] = "listed" THEN "done" ELSE "blind")
    /\ UNCHANGED <<engine, uploads, listed, told, landed, seen>>

\* set_ui_contributions, in the order the runtime likes.
Tells(task) ==
    /\ task \in tasks
    /\ told' = task.modules
    /\ landed' = task.n
    /\ tasks' = tasks \ {task}
    /\ UNCHANGED <<engine, uploads, pc, holder, listed, served, refreshes, owing, seen>>

\* The request goes away while it waits for the lock or for the listing.
ChangeDropped(c) ==
    /\ pc[c] \in {"answered", "locked"} /\ c # "startup"
    /\ Go(c, "dropped")
    /\ holder' = IF holder = c THEN None ELSE holder
    /\ UNCHANGED <<engine, uploads, listed, faces, owing, seen>>

Change(c) == Installs(c) \/ Manages(c) \/ RefreshLocks(c) \/ ChangeDropped(c)

Refresh(c) == RefreshLists(c) \/ RefreshApplies(c)

Put(u) == (\E t \in Tokens : PutClaims(u, t)) \/ PutOpens(u) \/ PutFills(u) \/ PutFails(u)

Next ==
    \/ \E t \in Tokens, ceiling \in {FileCeiling, PackageCeiling} : Grants(t, ceiling)
    \/ \E u \in Puts : Put(u)
    \/ \E c \in Changes : Change(c)
    \/ \E c \in Refreshers : Refresh(c)
    \/ \E task \in tasks : Tells(task)

Spec == Init /\ [][Next]_vars

-----------------------------------------------------------------------------
(* What a browser gets *)

\* StaticFace::read of /plugins/<p>/ui/<m>, always from disk. A headless face
\* answers nothing at all.
Answers(p, m) == ~Headless /\ p \in served /\ \E e \in Ui(p) : e.module = m /\ e.there

-----------------------------------------------------------------------------
(* Properties *)

TypeOK ==
    /\ installed \in [Plugins -> Builds \cup {None}]
    /\ disabled \subseteq Plugins
    /\ granted \in [Tokens -> Sizes \cup {0}] /\ limit \in [Tokens -> Sizes \cup {0}]
    /\ file \in [Tokens -> Builds \cup {"none", "torn"}]
    /\ pc \in [Refreshers -> {"idle", "refused", "answered", "locked", "listed",
                              "unlisted", "done", "blind", "dropped"}]
    /\ holder \in Refreshers \cup {None}
    /\ holder # None => pc[holder] \in {"locked", "listed", "unlisted"}
    /\ listed \in [Refreshers -> SUBSET [plugin : Plugins, enabled : BOOLEAN]]
    /\ served \subseteq Plugins /\ told \subseteq Plugins \X Modules
    /\ refreshes \in Nat /\ landed \in 0 .. refreshes
    /\ owing \subseteq Refreshers /\ seen \in [Refreshers -> SUBSET Refreshers]

Enabled == {p \in Plugins \ disabled : Ui(p) # {}}

\* A disabled package's module must not be "still being served, and a client
\* with no way to notice": once a listing has followed every change, the static
\* face has exactly the enabled packages with a ui section.
ServedIsInstalled == owing = {} => served = Enabled

\* statics.rs: "because a package that needed a restart to appear is a package
\* nobody will believe installed". Once a listing has followed every change, and
\* unless the task of an earlier refresh ran after that of the last (which
\* nothing in the code prevents: InstallShows), hello tells of exactly the
\* modules that load, and each can be imported from this node; of a headless
\* node hello tells the same and none can.
ToldModulesLoad ==
    owing = {} /\ landed = refreshes =>
        /\ told = ModulesOf(Enabled)
        /\ \A m \in told : Answers(m[1], m[2]) <=> ~Headless

\* "The grant is spent on use": of the requests that carry one token a single
\* one is stored, within the ceiling of that grant, and what is at its path is
\* what it sent.
StoredIsWhatWasSent ==
    \A u \in {u \in Puts : put[u].pc = "stored"} :
        /\ file[put[u].token] = put[u].body
        /\ put[u].size <= limit[put[u].token]
        /\ \A v \in Puts \ {u} : put[v].pc = "stored" => put[v].token # put[u].token

\* What main.rs and statics.rs say without the conditions: a package need not
\* wait for a restart to appear.
InstallShows ==
    tasks = {} /\ (\A c \in Refreshers : pc[c] \in {"idle", "refused", "done"})
        => told = ModulesOf(Enabled)
=============================================================================
