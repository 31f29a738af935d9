------------------------------- MODULE Methods -------------------------------
(***************************************************************************)
(* Which names a client can call, and who answers each: the lists in       *)
(* crates/hub/src/lib.rs, crates/builtin/src/lib.rs,                       *)
(* crates/app/src/devices.rs and crates/authz/src/table.rs, the table in   *)
(* crates/app/src/methods.rs, and the order of the hub's dispatch.         *)
(***************************************************************************)

REACHABLE == "nest.reachable"

HUB_METHODS == {
    "nest.hello", "nest.sessions", "nest.attach", "nest.detach", "nest.send",
    "nest.queue.remove", "nest.contributions"}

PASSTHROUGH == {
    "session.create", "session.list", "session.get", "session.history", "session.fork",
    "session.resume", "session.respondToPrompt", "scene.list", "scene.describe",
    "scene.activate", "commands.list", "mcp.status", "plugin.list", "daemon.status",
    "daemon.ping", "daemon.doctor"}

\* Names of the engine the hub answers itself.
Intercepted == {"session.interrupt", "session.close", "session.delete", "session.create"}

BuiltinMethods == {
    "nest.workspaces.list", "nest.workspaces.create", "nest.workspaces.update",
    "nest.workspaces.reorder", "nest.workspaces.remove", "nest.sessions.rename",
    "nest.sessions.archive", "nest.prefs.set", "nest.search", "nest.requestHeaders",
    "nest.settings.describe", "nest.settings.set", "nest.settings.setProvider",
    "nest.listDirectory", "nest.recentProjects", "nest.files", "nest.projects.create",
    "nest.upload.begin", "nest.plugins.upload", "nest.plugins.install",
    "nest.plugins.uninstall", "nest.plugins.enable", "nest.plugins.disable",
    "nest.plugins.reload", "nest.plugins.list"}

DeviceMethods == {
    "nest.devices.list", "nest.devices.pair.begin", "nest.devices.pair.complete",
    "nest.devices.revoke"}

ENGINE_REFUSALS == {
    "config.setProvider", "config.set", "config.update", "mcp.addServer", "import.run",
    "import.list", "daemon.shutdown", "session.run_turn", "session.subscribe",
    "session.unsubscribe", "daemon.subscribeEvents"}

\* The allow-list: a later line replaces an earlier one of the same name, and
\* the refusals come last. No name is the kernel's alone.
Table ==
    [m \in HUB_METHODS \cup PASSTHROUGH \cup Intercepted \cup BuiltinMethods
            \cup DeviceMethods \cup {REACHABLE} \cup ENGINE_REFUSALS |->
        IF m \in ENGINE_REFUSALS THEN "refused" ELSE "device"]

\* MethodTable::decide, for a device: falling off the end is a refusal too.
Decide(m) ==
    IF m \notin DOMAIN Table THEN "unknown"
    ELSE IF Table[m] = "refused" THEN "refuse" ELSE "allow"

\* What nest.reachable answers.
Reachable == {m \in DOMAIN Table : Decide(m) = "allow"}

\* Mutant: the engine is asked before the registry and the hub's own names.
EngineFirst(m, registered) ==
    IF m = REACHABLE THEN "authorizer"
    ELSE IF m \in PASSTHROUGH THEN "engine"
    ELSE IF m \in HUB_METHODS \cup Intercepted THEN "hub"
    ELSE IF m \in registered THEN "registry" ELSE "nobody"

\* Who answers a call that is let through: the authorizer, the hub's own names,
\* what is registered, then the engine.
Answers(m, registered) ==
    IF m = REACHABLE THEN "authorizer"
    ELSE IF m \in HUB_METHODS \cup Intercepted THEN "hub"
    ELSE IF m \in registered THEN "registry"
    ELSE IF m \in PASSTHROUGH THEN "engine" ELSE "nobody"

\* Allows worth a line in the timeline.
is_consequential(m) ==
    m \in {"nest.plugins.install", "nest.plugins.uninstall", "nest.plugins.enable",
           "nest.plugins.disable", "nest.plugins.reload", "nest.devices.pair.complete",
           "nest.devices.revoke", "nest.settings.set", "nest.settings.setProvider",
           "session.delete"}
=============================================================================
