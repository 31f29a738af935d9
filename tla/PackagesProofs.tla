---------------------------- MODULE PackagesProofs ----------------------------
(***************************************************************************)
(* Theorems about Packages: for any number of plugins, builds and changes  *)
(* the static face has exactly what is installed and enabled, and hello    *)
(* tells of it, once the listings and their tasks have caught up; and of   *)
(* any number of POSTs for one upload grant a single one is stored, whole. *)
(***************************************************************************)
EXTENDS Packages, TLAPS

AtIt == {"locked", "listed", "unlisted"}

Shape ==
    /\ pc \in [Refreshers -> {"idle", "refused", "answered", "done", "blind", "dropped"} \cup AtIt]
    /\ listed \in [Refreshers -> SUBSET [plugin : Plugins, enabled : BOOLEAN]]
    /\ DOMAIN seen = Refreshers
    /\ DOMAIN installed = Plugins

\* One refresh at a time.
OneAtATime == \A c \in Refreshers : pc[c] \in AtIt => holder = c

\* A change that has not begun is in nobody's books.
Books ==
    /\ \A c \in Refreshers : pc[c] = "idle" => c \notin owing
    /\ \A c, d \in Refreshers : pc[c] = "idle" /\ pc[d] = "listed" => c \notin seen[d]

\* A listing that saw every change there was is still what the engine would
\* answer.
Fresh == \A c \in Refreshers :
    pc[c] = "listed" /\ owing \subseteq seen[c] => listed[c] = Listing

RefreshInv == Shape /\ OneAtATime /\ Books /\ Fresh /\ ServedIsInstalled

LEMMA ListingTyped == Listing \in SUBSET [plugin : Plugins, enabled : BOOLEAN]
<1>1. ASSUME NEW p \in Plugins
      PROVE  [plugin |-> p, enabled |-> p \notin disabled] \in [plugin : Plugins, enabled : BOOLEAN]
  OBVIOUS
<1>2. QED
  BY <1>1 DEF Listing

LEMMA ListingIsEnabled == ReadAll(Listing) = Enabled
<1>1. ASSUME NEW p \in Enabled  PROVE p \in ReadAll(Listing)
  <2> DEFINE l == [plugin |-> p, enabled |-> p \notin disabled]
  <2>1. p \in Plugins /\ p \notin disabled /\ Ui(p) # {} /\ installed[p] # None
    BY DEF Enabled, Ui
  <2>2. l \in Listing
    BY <2>1 DEF Listing
  <2>3. l.plugin = p /\ l.enabled
    BY <2>1
  <2>4. QED
    BY <2>1, <2>2, <2>3 DEF ReadAll
<1>2. ASSUME NEW p \in ReadAll(Listing)  PROVE p \in Enabled
  <2>1. PICK l \in Listing : l.plugin = p /\ l.enabled /\ Ui(l.plugin) # {}
    BY DEF ReadAll
  <2>2. PICK q \in Plugins : l = [plugin |-> q, enabled |-> q \notin disabled]
    BY DEF Listing
  <2>3. q = p /\ (q \notin disabled)
    BY <2>1, <2>2
  <2>4. QED
    BY <2>1, <2>3 DEF Enabled
<1>3. QED
  BY <1>1, <1>2

\* The bulk channel and the spawned tasks are no part of it.
LEMMA OthersKeep ==
    ASSUME RefreshInv,
           UNCHANGED <<installed, disabled, pc, holder, listed, served, owing, seen>>
    PROVE  RefreshInv'
<1>1. Listing' = Listing /\ Enabled' = Enabled
  BY DEF Listing, Enabled, Ui
<1>2. QED
  BY <1>1 DEF RefreshInv, Shape, OneAtATime, Books, Fresh, ServedIsInstalled

\* A change the engine has made is owed, and no listing under way has seen it.
LEMMA BecomesKeeps ==
    ASSUME RefreshInv, NEW c \in Changes, pc[c] = "idle", NEW builds, NEW off,
           DOMAIN builds = Plugins, Becomes(c, builds, off)
    PROVE  RefreshInv'
<1> USE DEF RefreshInv
<1>1. UNCHANGED <<holder, listed, served, seen>> /\ c \in Refreshers
  BY DEF Becomes, faces, Refreshers
<1>2. CASE pc' = [pc EXCEPT ![c] = "answered"] /\ owing' = owing \cup {c} /\ installed' = builds
  <2>1. Shape' /\ OneAtATime'
    BY <1>1, <1>2 DEF Shape, OneAtATime, AtIt
  <2>2. Books'
    BY <1>1, <1>2 DEF Books, Shape, AtIt
  <2>3. \A d \in Refreshers : pc'[d] = "listed" => ~(owing' \subseteq seen'[d])
    BY <1>1, <1>2 DEF Books, Shape
  <2>4. QED
    BY <2>1, <2>2, <2>3, <1>2 DEF Fresh, ServedIsInstalled
<1>3. CASE pc' = [pc EXCEPT ![c] = "refused"] /\ UNCHANGED <<installed, disabled, owing>>
  <2>1. Listing' = Listing /\ Enabled' = Enabled
    BY <1>3 DEF Listing, Enabled, Ui
  <2>2. Shape' /\ OneAtATime'
    BY <1>1, <1>3 DEF Shape, OneAtATime, AtIt
  <2>3. Books'
    BY <1>1, <1>3 DEF Books, Shape, AtIt
  <2>4. Fresh' /\ ServedIsInstalled'
    BY <1>1, <1>3, <2>1 DEF Fresh, ServedIsInstalled, Shape
  <2>5. QED
    BY <2>2, <2>3, <2>4
<1>4. QED
  BY <1>2, <1>3 DEF Becomes, Go, engine

LEMMA InstallsKeeps ==
    ASSUME RefreshInv, NEW c \in Changes, Installs(c)  PROVE RefreshInv'
<1>1. DOMAIN installed = Plugins
  BY DEF RefreshInv, Shape
<1>2. PICK t \in Tokens :
        Becomes(c, [installed EXCEPT ![PluginOf[file[t]]] = file[t]], disabled \ {PluginOf[file[t]]})
  BY DEF Installs
<1>3. pc[c] = "idle"
  BY DEF Installs
<1>4. DOMAIN [installed EXCEPT ![PluginOf[file[t]]] = file[t]] = Plugins
  BY <1>1
<1>5. QED
  BY <1>2, <1>3, <1>4, BecomesKeeps

LEMMA ManagesKeeps ==
    ASSUME RefreshInv, NEW c \in Changes, Manages(c)  PROVE RefreshInv'
<1>1. DOMAIN installed = Plugins /\ \A p : DOMAIN [installed EXCEPT ![p] = None] = Plugins
  BY DEF RefreshInv, Shape
<1>2. pc[c] = "idle"
  BY DEF Manages
<1>3. PICK p \in Plugins :
        \/ Becomes(c, [installed EXCEPT ![p] = None], disabled \ {p})
        \/ Becomes(c, installed, disabled \cup {p})
        \/ Becomes(c, installed, disabled \ {p})
        \/ Becomes(c, installed, disabled)
  BY DEF Manages
<1>4. QED
  BY <1>1, <1>2, <1>3, BecomesKeeps

LEMMA LocksKeeps ==
    ASSUME RefreshInv, NEW c \in Changes, RefreshLocks(c)  PROVE RefreshInv'
<1> USE DEF RefreshInv
<1>1. /\ c \in Refreshers /\ pc[c] = "answered" /\ pc' = [pc EXCEPT ![c] = "locked"]
      /\ holder = None /\ holder' = c
      /\ UNCHANGED <<installed, disabled, listed, served, owing, seen>>
  BY DEF RefreshLocks, Go, Refreshers, engine, faces
<1>2. Listing' = Listing /\ Enabled' = Enabled
  BY <1>1 DEF Listing, Enabled, Ui
<1>3. \A d \in Refreshers : pc[d] \notin AtIt
  BY <1>1, PackagesAssumption DEF OneAtATime, Refreshers
<1>4. Shape' /\ OneAtATime'
  BY <1>1, <1>3 DEF Shape, OneAtATime, AtIt
<1>5. Books'
  BY <1>1 DEF Books, Shape, AtIt
<1>6. Fresh' /\ ServedIsInstalled'
  BY <1>1, <1>2 DEF Fresh, ServedIsInstalled, Shape
<1>7. QED
  BY <1>4, <1>5, <1>6

LEMMA ListsKeeps ==
    ASSUME RefreshInv, NEW c \in Refreshers, RefreshLists(c)  PROVE RefreshInv'
<1> USE DEF RefreshInv
<1>1. pc[c] = "locked" /\ UNCHANGED <<installed, disabled, holder, served, owing>>
  BY DEF RefreshLists, engine, faces
<1>2. Listing' = Listing /\ Enabled' = Enabled
  BY <1>1 DEF Listing, Enabled, Ui
<1>3. Listing \in SUBSET [plugin : Plugins, enabled : BOOLEAN]
  BY ListingTyped
<1>4. CASE /\ pc' = [pc EXCEPT ![c] = "listed"]
           /\ listed' = [listed EXCEPT ![c] = Listing] /\ seen' = [seen EXCEPT ![c] = owing]
  <2>1. Shape' /\ OneAtATime'
    BY <1>1, <1>3, <1>4 DEF Shape, OneAtATime, AtIt
  <2>2. Books'
    BY <1>1, <1>4 DEF Books, Shape, AtIt
  <2>3. Fresh' /\ ServedIsInstalled'
    BY <1>1, <1>2, <1>4 DEF Fresh, ServedIsInstalled, Shape
  <2>4. QED
    BY <2>1, <2>2, <2>3
<1>5. CASE /\ pc' = [pc EXCEPT ![c] = "unlisted"]
           /\ listed' = [listed EXCEPT ![c] = {}] /\ seen' = seen
  <2>1. Shape' /\ OneAtATime'
    BY <1>1, <1>5 DEF Shape, OneAtATime, AtIt
  <2>2. Books'
    BY <1>1, <1>5 DEF Books, Shape, AtIt
  <2>3. Fresh' /\ ServedIsInstalled'
    BY <1>1, <1>2, <1>5 DEF Fresh, ServedIsInstalled, Shape
  <2>4. QED
    BY <2>1, <2>2, <2>3
<1>6. QED
  BY <1>4, <1>5 DEF RefreshLists, Go

LEMMA AppliesKeeps ==
    ASSUME RefreshInv, NEW c \in Refreshers, RefreshApplies(c)  PROVE RefreshInv'
<1> USE DEF RefreshInv
<1>1. UNCHANGED <<installed, disabled, listed, seen>> /\ pc[c] \in AtIt
  BY DEF RefreshApplies, engine, AtIt
<1>2. Listing' = Listing /\ Enabled' = Enabled
  BY <1>1 DEF Listing, Enabled, Ui
<1>3. \A d \in Refreshers : pc[d] \in AtIt => d = c
  BY <1>1 DEF OneAtATime
<1>4. CASE /\ pc[c] = "listed" /\ pc' = [pc EXCEPT ![c] = "done"]
           /\ served' = ReadAll(listed[c]) /\ owing' = owing \ seen[c]
  <2>1. Shape' /\ OneAtATime'
    BY <1>1, <1>3, <1>4 DEF Shape, OneAtATime, AtIt
  <2>2. Books'
    <3>1. \A d \in Refreshers \ {c} : pc[d] \notin AtIt
      BY <1>3
    <3>2. QED
      BY <1>1, <1>4, <3>1 DEF Books, Shape, AtIt
  <2>3. Fresh'
    BY <1>3, <1>4 DEF Fresh, Shape, AtIt
  <2>4. ServedIsInstalled'
    BY <1>1, <1>2, <1>4, ListingIsEnabled DEF Fresh, ServedIsInstalled
  <2>5. QED
    BY <2>1, <2>2, <2>3, <2>4
<1>5. CASE pc' = [pc EXCEPT ![c] = "blind"] /\ owing' = owing \cup {c}
  <2>1. Shape' /\ OneAtATime'
    BY <1>1, <1>3, <1>5 DEF Shape, OneAtATime, AtIt
  <2>2. Books'
    BY <1>1, <1>5 DEF Books, Shape, AtIt
  <2>3. Fresh'
    BY <1>3, <1>5 DEF Fresh, Shape, AtIt
  <2>4. QED
    BY <2>1, <2>2, <2>3, <1>5 DEF ServedIsInstalled
<1>6. QED
  BY <1>4, <1>5 DEF RefreshApplies, Go

LEMMA DroppedKeeps ==
    ASSUME RefreshInv, NEW c \in Changes, ChangeDropped(c)  PROVE RefreshInv'
<1> USE DEF RefreshInv
<1>1. /\ c \in Refreshers /\ pc[c] \in {"answered", "locked"} /\ pc' = [pc EXCEPT ![c] = "dropped"]
      /\ holder' = IF holder = c THEN None ELSE holder
      /\ UNCHANGED <<installed, disabled, listed, served, owing, seen>>
  BY DEF ChangeDropped, Go, Refreshers, engine, faces
<1>2. Listing' = Listing /\ Enabled' = Enabled
  BY <1>1 DEF Listing, Enabled, Ui
<1>3. Shape' /\ OneAtATime'
  BY <1>1 DEF Shape, OneAtATime, AtIt
<1>4. Books'
  BY <1>1 DEF Books, Shape, AtIt
<1>5. Fresh' /\ ServedIsInstalled'
  BY <1>1, <1>2 DEF Fresh, ServedIsInstalled, Shape
<1>6. QED
  BY <1>3, <1>4, <1>5

LEMMA RefreshInvariant == Spec => []RefreshInv
<1>1. Init => RefreshInv
  <2> SUFFICES ASSUME Init  PROVE RefreshInv
    OBVIOUS
  <2>1. \A c \in Refreshers : pc[c] = IF c = "startup" THEN "locked" ELSE "idle"
    BY DEF Init
  <2>2. Shape
    BY DEF Init, Shape, AtIt
  <2>3. OneAtATime /\ Books /\ Fresh
    BY <2>1 DEF Init, OneAtATime, Books, Fresh, AtIt
  <2>4. ServedIsInstalled
    BY DEF Init, ServedIsInstalled
  <2>5. QED
    BY <2>2, <2>3, <2>4 DEF RefreshInv
<1>2. RefreshInv /\ [Next]_vars => RefreshInv'
  <2> SUFFICES ASSUME RefreshInv, [Next]_vars  PROVE RefreshInv'
    OBVIOUS
  <2>1. ASSUME NEW t \in Tokens, NEW ceiling, Grants(t, ceiling)  PROVE RefreshInv'
    BY <2>1, OthersKeep DEF Grants, engine, faces
  <2>2. ASSUME NEW u \in Puts, Put(u)  PROVE RefreshInv'
    BY <2>2, OthersKeep DEF Put, PutClaims, PutOpens, PutFills, PutFails, engine, faces
  <2>3. ASSUME NEW c \in Changes, Change(c)  PROVE RefreshInv'
    BY <2>3, InstallsKeeps, ManagesKeeps, LocksKeeps, DroppedKeeps, Zenon DEF Change
  <2>4. ASSUME NEW c \in Refreshers, Refresh(c)  PROVE RefreshInv'
    BY <2>4, ListsKeeps, AppliesKeeps, Zenon DEF Refresh
  <2>5. ASSUME NEW task \in tasks, Tells(task)  PROVE RefreshInv'
    BY <2>5, OthersKeep DEF Tells, engine
  <2>6. CASE UNCHANGED vars
    BY <2>6, OthersKeep DEF vars, engine, faces
  <2>7. QED
    BY <2>1, <2>2, <2>3, <2>4, <2>5, <2>6, Zenon DEF Next
<1>3. QED
  BY <1>1, <1>2, PTL DEF Spec

\* Once a listing has followed every change, the static face serves exactly the
\* packages that are enabled and have a ui section.
THEOREM StaticFaceIsCurrent == Spec => []ServedIsInstalled
<1>1. RefreshInv => ServedIsInstalled
  BY DEF RefreshInv
<1>2. QED
  BY <1>1, RefreshInvariant, PTL

-----------------------------------------------------------------------------

Told == SUBSET (Plugins \X Modules)

TypeInv ==
    /\ TypeOK
    /\ put \in [Puts -> [pc : {"idle", "forbidden", "tooLarge", "opening", "filling",
                               "stored", "failed"},
                         token : Tokens \cup {None}, body : Builds \cup {None},
                         size : Sizes \cup {0}]]
    /\ \A u \in Puts : put[u].pc \in {"opening", "filling"} => put[u].body \in Builds
    /\ tasks \in SUBSET [n : 1 .. refreshes, modules : Told]

LEMMA ModulesTyped ==
    ASSUME TypeOK, NEW plugins \in SUBSET Plugins  PROVE ModulesOf(plugins) \in Told
<1>1. ASSUME NEW p \in plugins, NEW e \in Ui(p)  PROVE <<p, e.module>> \in Plugins \X Modules
  <2>1. installed[p] \in Builds /\ e \in Manifest[installed[p]]
    BY DEF Ui, TypeOK
  <2>2. QED
    BY <2>1 DEF Modules
<1>2. QED
  BY <1>1 DEF ModulesOf, Told

\* Where one POST of the bulk channel can stand.
PutStates ==
    [pc : {"idle", "forbidden", "tooLarge", "opening", "filling", "stored", "failed"},
     token : Tokens \cup {None}, body : Builds \cup {None}, size : Sizes \cup {0}]

\* A step of the bulk channel: one POST goes on, and what is installed stays.
LEMMA PutTyped ==
    ASSUME TypeInv, NEW u \in Puts, NEW r \in PutStates,
           r.pc \in {"opening", "filling"} => r.body \in Builds,
           put' = [put EXCEPT ![u] = r],
           granted' \in [Tokens -> Sizes \cup {0}],
           file' \in [Tokens -> Builds \cup {"none", "torn"}],
           UNCHANGED <<installed, disabled, limit, pc, holder, listed, served, told, tasks,
                       refreshes, landed, owing, seen>>
    PROVE  TypeInv'
<1>1. put \in [Puts -> PutStates]
  BY DEF TypeInv, PutStates
<1>2. put' \in [Puts -> PutStates]
  BY <1>1
<1>3. ASSUME NEW v \in Puts, put'[v].pc \in {"opening", "filling"}
      PROVE  put'[v].body \in Builds
  <2>1. CASE v = u
    BY <1>1, <1>3, <2>1
  <2>2. CASE v # u
    <3>1. put'[v] = put[v]
      BY <1>1, <2>2
    <3>2. QED
      BY <1>3, <3>1 DEF TypeInv
  <2>3. QED
    BY <2>1, <2>2
<1>4. TypeOK'
  BY DEF TypeInv, TypeOK
<1>5. tasks' \in SUBSET [n : 1 .. refreshes', modules : Told]
  BY DEF TypeInv
<1>6. QED
  BY <1>2, <1>3, <1>4, <1>5 DEF TypeInv, PutStates

\* The bulk channel changes only what is about uploads.
LEMMA UploadsTyped ==
    ASSUME TypeInv,
           \/ \E t \in Tokens, ceiling \in {FileCeiling, PackageCeiling} : Grants(t, ceiling)
           \/ \E u \in Puts : Put(u)
    PROVE  TypeInv'
<1>1. ASSUME NEW t \in Tokens, NEW ceiling \in {FileCeiling, PackageCeiling},
             Grants(t, ceiling)
      PROVE  TypeInv'
  <2>1. UNCHANGED <<installed, disabled, file, put, pc, holder, listed, served, told, tasks,
                    refreshes, landed, owing, seen>>
    BY <1>1 DEF Grants, engine, faces
  <2>2. ceiling \in Sizes \cup {0}
    BY PackagesAssumption
  <2>3. granted \in [Tokens -> Sizes \cup {0}] /\ limit \in [Tokens -> Sizes \cup {0}]
    BY DEF TypeInv, TypeOK
  <2>4. /\ granted' \in [Tokens -> Sizes \cup {0}]
        /\ limit' \in [Tokens -> Sizes \cup {0}]
    BY <1>1, <2>2, <2>3 DEF Grants
  <2>5. TypeOK'
    BY <2>1, <2>4 DEF TypeInv, TypeOK
  <2>6. QED
    BY <2>1, <2>5 DEF TypeInv
<1>2. granted \in [Tokens -> Sizes \cup {0}] /\ put \in [Puts -> PutStates]
      /\ file \in [Tokens -> Builds \cup {"none", "torn"}]
  BY DEF TypeInv, TypeOK, PutStates
<1>3. ASSUME NEW u \in Puts
      PROVE  /\ put[u] \in PutStates
             /\ put[u].pc \in {"opening", "filling"} => put[u].body \in Builds
  BY <1>2 DEF TypeInv
<1>4. ASSUME NEW u \in Puts, NEW t \in Tokens, PutClaims(u, t)  PROVE TypeInv'
  <2>1. PICK b \in Builds, size \in Sizes :
            \/ put' = [put EXCEPT ![u].pc = "forbidden"]
            \/ put' = [put EXCEPT ![u] = [pc |-> "tooLarge", token |-> t, body |-> b, size |-> size]]
            \/ put' = [put EXCEPT ![u] = [pc |-> "opening", token |-> t, body |-> b, size |-> size]]
    BY <1>4 DEF PutClaims
  <2>2. PICK r \in PutStates :
            /\ put' = [put EXCEPT ![u] = r]
            /\ r.pc \in {"opening", "filling"} => r.body \in Builds
    <3>1. CASE put' = [put EXCEPT ![u].pc = "forbidden"]
      <4>1. [put[u] EXCEPT !.pc = "forbidden"] \in PutStates
        BY <1>3 DEF PutStates
      <4>2. put' = [put EXCEPT ![u] = [put[u] EXCEPT !.pc = "forbidden"]]
        BY <1>2, <3>1
      <4>3. [put[u] EXCEPT !.pc = "forbidden"].pc = "forbidden"
        BY <1>3 DEF PutStates
      <4>4. QED
        BY <4>1, <4>2, <4>3
    <3>2. ASSUME NEW label \in {"tooLarge", "opening"},
                 put' = [put EXCEPT ![u] = [pc |-> label, token |-> t, body |-> b, size |-> size]]
          PROVE  \E r \in PutStates :
                    /\ put' = [put EXCEPT ![u] = r]
                    /\ r.pc \in {"opening", "filling"} => r.body \in Builds
      <4>1. [pc |-> label, token |-> t, body |-> b, size |-> size] \in PutStates
        BY DEF PutStates
      <4>2. QED
        BY <3>2, <4>1
    <3>3. QED
      BY <2>1, <3>1, <3>2
  <2>3. granted' \in [Tokens -> Sizes \cup {0}]
    BY <1>2, <1>4 DEF PutClaims, Claim
  <2>4. UNCHANGED <<installed, disabled, limit, file, pc, holder, listed, served, told, tasks,
                    refreshes, landed, owing, seen>>
    BY <1>4 DEF PutClaims, engine, faces
  <2>5. QED
    BY <1>2, <2>2, <2>3, <2>4, PutTyped
<1>5. ASSUME NEW u \in Puts, NEW label \in {"filling", "stored", "failed"},
             label = "filling" => put[u].pc = "opening",
             put' = [put EXCEPT ![u].pc = label],
             file' \in [Tokens -> Builds \cup {"none", "torn"}],
             UNCHANGED <<engine, granted, limit, pc, holder, listed, faces, owing, seen>>
      PROVE  TypeInv'
  <2> DEFINE r == [put[u] EXCEPT !.pc = label]
  <2>1. r \in PutStates /\ r.pc = label /\ r.body = put[u].body
    BY <1>3 DEF PutStates
  <2>2. put' = [put EXCEPT ![u] = r]
    BY <1>2, <1>5
  <2>3. r.pc \in {"opening", "filling"} => r.body \in Builds
    BY <1>3, <1>5, <2>1
  <2>4. UNCHANGED <<installed, disabled, granted, limit, pc, holder, listed, served, told,
                    tasks, refreshes, landed, owing, seen>>
    BY <1>5 DEF engine, faces
  <2>5. /\ granted' \in [Tokens -> Sizes \cup {0}]
        /\ file' \in [Tokens -> Builds \cup {"none", "torn"}]
    BY <1>2, <1>5, <2>4
  <2>6. r \in PutStates
    BY <2>1
  <2> HIDE DEF r
  <2>7. QED
    BY <2>2, <2>3, <2>4, <2>5, <2>6, PutTyped
<1>6. ASSUME NEW u \in Puts, PutOpens(u)  PROVE TypeInv'
  <2>1. file' \in [Tokens -> Builds \cup {"none", "torn"}]
    BY <1>2, <1>6 DEF PutOpens
  <2>2. /\ put' = [put EXCEPT ![u].pc = "filling"]
        /\ UNCHANGED <<engine, granted, limit, pc, holder, listed, faces, owing, seen>>
        /\ put[u].pc = "opening"
    BY <1>6 DEF PutOpens
  <2>3. QED
    BY <1>5, <2>1, <2>2
<1>7. ASSUME NEW u \in Puts, PutFills(u)  PROVE TypeInv'
  <2>1. put[u].body \in Builds
    BY <1>3, <1>7 DEF PutFills
  <2>2. file' \in [Tokens -> Builds \cup {"none", "torn"}]
    BY <1>2, <1>7, <2>1 DEF PutFills
  <2>3. /\ put' = [put EXCEPT ![u].pc = "stored"]
        /\ UNCHANGED <<engine, granted, limit, pc, holder, listed, faces, owing, seen>>
    BY <1>7 DEF PutFills
  <2>4. QED
    BY <1>5, <2>2, <2>3
<1>8. ASSUME NEW u \in Puts, PutFails(u)  PROVE TypeInv'
  BY <1>2, <1>5, <1>8 DEF PutFails
<1>9. QED
  BY <1>1, <1>4, <1>6, <1>7, <1>8 DEF Put

LEMMA BecomesTyped ==
    ASSUME TypeInv, NEW c \in Changes, pc[c] = "idle",
           NEW builds \in [Plugins -> Builds \cup {None}], NEW off \in SUBSET Plugins,
           Becomes(c, builds, off)
    PROVE  TypeInv'
<1>1. c \in Refreshers
  BY DEF Refreshers
<1>2. QED
  BY <1>1 DEF TypeInv, TypeOK, Becomes, Go, engine, uploads, faces

LEMMA ChangesTyped ==
    ASSUME TypeInv, NEW c \in Changes, Change(c)  PROVE TypeInv'
<1> USE DEF TypeInv, TypeOK
<1>1. c \in Refreshers
  BY DEF Refreshers
<1>2. CASE Installs(c)
  <2>1. pc[c] = "idle"
    BY <1>2 DEF Installs
  <2>2. PICK t \in Tokens : file[t] \in Builds /\
            Becomes(c, [installed EXCEPT ![PluginOf[file[t]]] = file[t]], disabled \ {PluginOf[file[t]]})
    BY <1>2 DEF Installs
  <2>3. [installed EXCEPT ![PluginOf[file[t]]] = file[t]] \in [Plugins -> Builds \cup {None}]
    BY <2>2
  <2>4. disabled \ {PluginOf[file[t]]} \in SUBSET Plugins
    OBVIOUS
  <2>5. QED
    BY <2>1, <2>2, <2>3, <2>4, BecomesTyped
<1>3. CASE Manages(c)
  <2>1. pc[c] = "idle"
    BY <1>3 DEF Manages
  <2>2. PICK p \in Plugins :
        \/ Becomes(c, [installed EXCEPT ![p] = None], disabled \ {p})
        \/ Becomes(c, installed, disabled \cup {p})
        \/ Becomes(c, installed, disabled \ {p})
        \/ Becomes(c, installed, disabled)
    BY <1>3 DEF Manages
  <2>3. [installed EXCEPT ![p] = None] \in [Plugins -> Builds \cup {None}]
    OBVIOUS
  <2>4. /\ disabled \ {p} \in SUBSET Plugins
        /\ disabled \cup {p} \in SUBSET Plugins
        /\ disabled \in SUBSET Plugins
    OBVIOUS
  <2>5. QED
    BY <2>1, <2>2, <2>3, <2>4, BecomesTyped
<1>4. CASE RefreshLocks(c)
  BY <1>1, <1>4 DEF RefreshLocks, Go, engine, uploads, faces
<1>5. CASE ChangeDropped(c)
  BY <1>1, <1>5 DEF ChangeDropped, Go, engine, uploads, faces
<1>6. QED
  BY <1>2, <1>3, <1>4, <1>5 DEF Change

LEMMA RefreshTyped ==
    ASSUME TypeInv, NEW c \in Refreshers, Refresh(c)  PROVE TypeInv'
<1> USE DEF TypeInv, TypeOK
<1>1. CASE RefreshLists(c)
  <2>1. Listing \in SUBSET [plugin : Plugins, enabled : BOOLEAN]
    BY ListingTyped
  <2>2. listed' \in [Refreshers -> SUBSET [plugin : Plugins, enabled : BOOLEAN]]
        /\ seen' \in [Refreshers -> SUBSET Refreshers]
    BY <1>1, <2>1 DEF RefreshLists
  <2>3. QED
    BY <1>1, <2>2 DEF RefreshLists, Go, engine, uploads, faces
<1>2. CASE RefreshApplies(c)
  <2> DEFINE plugins == ReadAll(listed[c])
             new == [n |-> refreshes + 1, modules |-> ModulesOf(plugins)]
  <2>1. plugins \in SUBSET Plugins
    BY DEF ReadAll
  <2>2. ModulesOf(plugins) \in Told
    BY <2>1, ModulesTyped
  <2>3. tasks' \in SUBSET [n : 1 .. refreshes', modules : Told]
    <3>1. refreshes' = refreshes + 1 /\ tasks' = tasks \cup {new}
      BY <1>2 DEF RefreshApplies
    <3>2. new \in [n : 1 .. refreshes', modules : Told]
      BY <2>2, <3>1
    <3>3. \A task \in tasks : task \in [n : 1 .. refreshes', modules : Told]
      <4>1. 1 .. refreshes \subseteq 1 .. refreshes'
        BY <3>1
      <4>2. QED
        BY <4>1
    <3>4. QED
      BY <3>1, <3>2, <3>3
  <2>4. served' \subseteq Plugins /\ refreshes' \in Nat /\ landed' \in 0 .. refreshes'
        /\ UNCHANGED <<told, listed, seen, installed, disabled, granted, limit, file, put>>
    BY <1>2, <2>1 DEF RefreshApplies, engine, uploads
  <2>5. holder' = None /\ owing' \subseteq Refreshers
    BY <1>2 DEF RefreshApplies
  <2>6. QED
    BY <1>2, <2>3, <2>4, <2>5 DEF RefreshApplies, Go
<1>3. QED
  BY <1>1, <1>2 DEF Refresh

LEMMA TypeInvariant == Spec => []TypeInv
<1>1. Init => TypeInv
  <2>1. ASSUME Init  PROVE TypeOK
    BY <2>1, PackagesAssumption DEF Init, TypeOK, Refreshers
  <2>2. QED
    BY <2>1 DEF Init, TypeInv, NoPut
<1>2. TypeInv /\ [Next]_vars => TypeInv'
  <2> SUFFICES ASSUME TypeInv, [Next]_vars  PROVE TypeInv'
    OBVIOUS
  <2>1. ASSUME NEW c \in Changes, Change(c)  PROVE TypeInv'
    BY <2>1, ChangesTyped
  <2>2. ASSUME NEW c \in Refreshers, Refresh(c)  PROVE TypeInv'
    BY <2>2, RefreshTyped
  <2>3. ASSUME NEW task \in tasks, Tells(task)  PROVE TypeInv'
    BY <2>3 DEF Tells, TypeInv, TypeOK, Told, engine, uploads
  <2>4. CASE UNCHANGED vars
    BY <2>4 DEF vars, TypeInv, TypeOK, engine, uploads, faces
  <2>5. QED
    BY <2>1, <2>2, <2>3, <2>4, UploadsTyped, Zenon DEF Next
<1>3. QED
  BY <1>1, <1>2, PTL DEF Spec

\* Type correctness, and the lock of on_packages_changed is held by a refresh
\* that is under way or by nobody: a request that is dropped gives it back.
THEOREM PackagesTypeOK == Spec => []TypeOK
<1>1. TypeInv => TypeOK
  BY DEF TypeInv
<1>2. QED
  BY <1>1, TypeInvariant, PTL

-----------------------------------------------------------------------------

Claimed(u) == put[u].pc \in {"tooLarge", "opening", "filling", "stored", "failed"}

\* A token that was claimed is spent, and no two requests claimed the same.
Spent ==
    /\ \A t \in Tokens : granted[t] \in {0, limit[t]}
    /\ \A u \in Puts : Claimed(u) =>
        /\ put[u].token \in Tokens
        /\ granted[put[u].token] = 0 /\ limit[put[u].token] # 0
    /\ \A u, v \in Puts : Claimed(u) /\ Claimed(v) /\ put[u].token = put[v].token => u = v

\* So whoever writes to a path is alone there.
Alone == \A u \in Puts :
    /\ put[u].pc \in {"opening", "filling", "stored"} => put[u].size <= limit[put[u].token]
    /\ put[u].pc = "filling" => file[put[u].token] = "torn"
    /\ put[u].pc = "stored" => file[put[u].token] = put[u].body

UploadInv == TypeInv /\ Spent /\ Alone

LEMMA GrantsKeepUploads ==
    ASSUME UploadInv, NEW t \in Tokens, NEW ceiling \in {FileCeiling, PackageCeiling},
           Grants(t, ceiling)
    PROVE  Spent' /\ Alone'
<1>1. /\ limit[t] = 0 /\ UNCHANGED <<put, file>>
      /\ granted' = [granted EXCEPT ![t] = ceiling] /\ limit' = [limit EXCEPT ![t] = ceiling]
  BY DEF Grants
<1>2. granted \in [Tokens -> Sizes \cup {0}] /\ limit \in [Tokens -> Sizes \cup {0}]
  BY DEF UploadInv, TypeInv, TypeOK
<1>3. \A u \in Puts : Claimed(u) => put[u].token \in Tokens /\ put[u].token # t
  BY <1>1 DEF UploadInv, Spent
<1>4. Spent'
  BY <1>1, <1>2, <1>3 DEF UploadInv, Spent, Claimed
<1>5. Alone'
  BY <1>1, <1>2, <1>3 DEF UploadInv, Alone, Claimed
<1>6. QED
  BY <1>4, <1>5

LEMMA ClaimsKeepUploads ==
    ASSUME UploadInv, NEW u \in Puts, NEW t \in Tokens, PutClaims(u, t)
    PROVE  Spent' /\ Alone'
<1>1. put[u].pc = "idle" /\ UNCHANGED <<limit, file>> /\ DOMAIN put = Puts
  BY DEF PutClaims, UploadInv, TypeInv
<1>2. /\ granted \in [Tokens -> Sizes \cup {0}] /\ limit \in [Tokens -> Sizes \cup {0}]
      /\ Sizes \subseteq Nat \ {0}
  BY PackagesAssumption DEF UploadInv, TypeInv, TypeOK
<1>3. CASE granted[t] = 0
  <2>1. put' = [put EXCEPT ![u].pc = "forbidden"] /\ UNCHANGED granted
    BY <1>3 DEF PutClaims
  <2>2. QED
    BY <1>1, <2>1 DEF UploadInv, Spent, Alone, Claimed
<1>4. CASE granted[t] # 0
  <2>1. PICK b \in Builds, size \in Sizes :
            /\ granted' = [granted EXCEPT ![t] = 0]
            /\ put' = [put EXCEPT ![u] =
                    [pc |-> IF size > granted[t] THEN "tooLarge" ELSE "opening",
                     token |-> t, body |-> b, size |-> size]]
    BY <1>4 DEF PutClaims, Claim
  <2>2. \A v \in Puts : Claimed(v) => put[v].token # t
    BY <1>4 DEF UploadInv, Spent
  <2>3. limit[t] = granted[t] /\ limit[t] # 0
    BY <1>4 DEF UploadInv, Spent
  <2>4. /\ put'[u].token = t /\ put'[u].size = size
        /\ put'[u].pc = IF size > granted[t] THEN "tooLarge" ELSE "opening"
        /\ \A v \in Puts \ {u} : put'[v] = put[v]
    BY <1>1, <2>1
  <2>5. Spent'
    BY <1>1, <1>2, <2>1, <2>2, <2>3, <2>4 DEF UploadInv, Spent, Claimed
  <2>6. Alone'
    BY <1>1, <1>2, <2>3, <2>4 DEF UploadInv, Alone
  <2>7. QED
    BY <2>5, <2>6
<1>5. QED
  BY <1>3, <1>4

LEMMA WritesKeepUploads ==
    ASSUME UploadInv, NEW u \in Puts, PutOpens(u) \/ PutFills(u) \/ PutFails(u)
    PROVE  Spent' /\ Alone'
<1> DEFINE t == put[u].token
<1>1. UNCHANGED <<granted, limit>> /\ DOMAIN put = Puts /\ DOMAIN file = Tokens
  BY DEF PutOpens, PutFills, PutFails, UploadInv, TypeInv, TypeOK
<1>2. /\ PutOpens(u) => /\ put[u].pc = "opening" /\ put' = [put EXCEPT ![u].pc = "filling"]
                        /\ file' = [file EXCEPT ![t] = "torn"]
      /\ PutFills(u) => /\ put[u].pc = "filling" /\ put' = [put EXCEPT ![u].pc = "stored"]
                        /\ \/ file' = [file EXCEPT ![t] = put[u].body]
                           \/ file[t] # "torn" /\ file' = [file EXCEPT ![t] = "torn"]
      /\ PutFails(u) => /\ put[u].pc \in {"opening", "filling"} /\ file' = file
                        /\ put' = [put EXCEPT ![u].pc = "failed"]
  BY DEF PutOpens, PutFills, PutFails
<1>3. Claimed(u) /\ t \in Tokens /\ \A v \in Puts \ {u} : Claimed(v) => put[v].token # t
  <2>1. Claimed(u)
    BY <1>2 DEF Claimed
  <2>2. QED
    BY <2>1 DEF UploadInv, Spent
<1>4. /\ \A v \in Puts : put'[v].token = put[v].token /\ put'[v].body = put[v].body
                              /\ put'[v].size = put[v].size
      /\ \A v \in Puts \ {u} : put'[v].pc = put[v].pc
      /\ PutOpens(u) => put'[u].pc = "filling"
      /\ PutFills(u) => put'[u].pc = "stored"
      /\ PutFails(u) => put'[u].pc = "failed"
  BY <1>1, <1>2 DEF UploadInv, TypeInv
<1>5. Spent'
  BY <1>1, <1>3, <1>4 DEF UploadInv, Spent, Claimed
<1>6. \A v \in Puts \ {u} : Claimed(v) => file'[put[v].token] = file[put[v].token]
  <2>1. \A s \in Tokens \ {t} : file'[s] = file[s]
    BY <1>1, <1>2
  <2>2. \A v \in Puts : Claimed(v) => put[v].token \in Tokens
    BY DEF UploadInv, Spent
  <2>3. QED
    BY <1>3, <2>1, <2>2
<1>7. /\ put'[u].pc \in {"filling", "stored"} => put[u].size <= limit[t]
      /\ put'[u].pc = "filling" => file'[t] = "torn"
      /\ put'[u].pc = "stored" => file'[t] = put[u].body
      /\ put'[u].pc # "opening"
  <2>1. CASE PutOpens(u)
    BY <1>1, <1>2, <1>3, <1>4, <2>1 DEF UploadInv, Alone
  <2>2. CASE PutFills(u)
    BY <1>1, <1>2, <1>3, <1>4, <2>2 DEF UploadInv, Alone
  <2>3. CASE PutFails(u)
    BY <1>4, <2>3
  <2>4. QED
    BY <2>1, <2>2, <2>3
<1>8. Alone'
  BY <1>1, <1>4, <1>6, <1>7 DEF UploadInv, Alone, Claimed
<1>9. QED
  BY <1>5, <1>8

LEMMA OthersKeepUploads ==
    ASSUME UploadInv, UNCHANGED uploads  PROVE Spent' /\ Alone'
  BY DEF UploadInv, uploads, Spent, Alone, Claimed

\* Of the requests that carry one token a single one is stored, within the
\* ceiling of that grant, and its body is what is at the path.
THEOREM GrantsAreSpentOnce == Spec => []StoredIsWhatWasSent
<1>1. Init => Spent /\ Alone
  BY DEF Init, Spent, Alone, Claimed, NoPut
<1>2. TypeInv /\ TypeInv' /\ Spent /\ Alone /\ [Next]_vars => Spent' /\ Alone'
  <2> SUFFICES ASSUME UploadInv, [Next]_vars  PROVE Spent' /\ Alone'
    BY DEF UploadInv
  <2>1. ASSUME NEW u \in Puts, Put(u)  PROVE Spent' /\ Alone'
    BY <2>1, ClaimsKeepUploads, WritesKeepUploads DEF Put
  <2>2. ASSUME NEW c \in Changes, Change(c)  PROVE UNCHANGED uploads
    BY <2>2 DEF Change, Installs, Manages, Becomes, RefreshLocks, ChangeDropped
  <2>3. ASSUME NEW c \in Refreshers, Refresh(c)  PROVE UNCHANGED uploads
    BY <2>3 DEF Refresh, RefreshLists, RefreshApplies
  <2>4. ASSUME NEW task \in tasks, Tells(task)  PROVE UNCHANGED uploads
    BY <2>4 DEF Tells
  <2>5. QED
    BY <2>1, <2>2, <2>3, <2>4, GrantsKeepUploads, OthersKeepUploads DEF Next, vars
<1>3. UploadInv => StoredIsWhatWasSent
  BY DEF UploadInv, Spent, Alone, Claimed, StoredIsWhatWasSent
<1>4. QED
  BY <1>1, <1>2, <1>3, TypeInvariant, PTL DEF Spec, UploadInv

-----------------------------------------------------------------------------
(* What hello tells *)

\* The task of the last refresh carries, and leaves when it runs, the modules
\* of what is installed and enabled, unless a listing is owed.
TaskIsCurrent ==
    \A task \in tasks :
        owing = {} /\ task.n = refreshes => task.modules = ModulesOf(Enabled)

ToldIsCurrent == owing = {} /\ landed = refreshes => told = ModulesOf(Enabled)

TellInv == RefreshInv /\ TypeInv /\ TaskIsCurrent /\ ToldIsCurrent

\* Steps that leave the engine, what is owed and the spawned tasks alone.
LEMMA OthersTell ==
    ASSUME TaskIsCurrent, ToldIsCurrent,
           UNCHANGED <<installed, disabled, owing, told, tasks, refreshes, landed>>
    PROVE  TaskIsCurrent' /\ ToldIsCurrent'
<1>1. ModulesOf(Enabled)' = ModulesOf(Enabled)
  BY DEF ModulesOf, Enabled, Ui
<1>2. QED
  BY <1>1 DEF TaskIsCurrent, ToldIsCurrent

LEMMA BecomesTells ==
    ASSUME TellInv, NEW c \in Changes, NEW builds, NEW off, Becomes(c, builds, off)
    PROVE  TaskIsCurrent' /\ ToldIsCurrent'
<1>1. UNCHANGED <<told, tasks, refreshes, landed>>
  BY DEF Becomes, faces
<1>2. CASE owing' = owing \cup {c}
  BY <1>2 DEF TaskIsCurrent, ToldIsCurrent
<1>3. CASE UNCHANGED <<installed, disabled, owing>>
  BY <1>1, <1>3, OthersTell DEF TellInv
<1>4. QED
  BY <1>2, <1>3 DEF Becomes, engine

LEMMA AppliesTells ==
    ASSUME TellInv, NEW c \in Refreshers, RefreshApplies(c)
    PROVE  TaskIsCurrent' /\ ToldIsCurrent'
<1> DEFINE made == ModulesOf(ReadAll(listed[c]))
<1>1. /\ pc[c] \in {"listed", "unlisted"} /\ UNCHANGED <<installed, disabled, told, landed>>
      /\ tasks' = tasks \cup {[n |-> refreshes + 1, modules |-> made]}
      /\ refreshes' = refreshes + 1
      /\ owing' = IF pc[c] = "listed" THEN owing \ seen[c] ELSE owing \cup {c}
  BY DEF RefreshApplies, engine
<1>2. ModulesOf(Enabled)' = ModulesOf(Enabled)
  BY <1>1 DEF ModulesOf, Enabled, Ui
<1>3. ASSUME owing' = {}  PROVE made = ModulesOf(Enabled)
  <2>1. pc[c] = "listed" /\ owing \subseteq seen[c]
    BY <1>1, <1>3
  <2>2. listed[c] = Listing
    BY <2>1 DEF TellInv, RefreshInv, Fresh
  <2>3. QED
    BY <2>2, ListingIsEnabled
<1> HIDE DEF made
<1>4. refreshes \in Nat /\ landed \in 0 .. refreshes
      /\ \A task \in tasks : task.n \in 1 .. refreshes
  BY DEF TellInv, TypeInv, TypeOK
<1>5. \A task \in tasks' : task.n = refreshes' => task.modules = made
  BY <1>1, <1>4
<1>6. QED
  BY <1>1, <1>2, <1>3, <1>4, <1>5 DEF TaskIsCurrent, ToldIsCurrent

LEMMA TellsTells ==
    ASSUME TellInv, NEW task \in tasks, Tells(task)
    PROVE  TaskIsCurrent' /\ ToldIsCurrent'
<1>1. /\ UNCHANGED <<installed, disabled, owing, refreshes>> /\ tasks' \subseteq tasks
      /\ told' = task.modules /\ landed' = task.n
  BY DEF Tells, engine
<1>2. ModulesOf(Enabled)' = ModulesOf(Enabled)
  BY <1>1 DEF ModulesOf, Enabled, Ui
<1>3. QED
  BY <1>1, <1>2 DEF TellInv, TaskIsCurrent, ToldIsCurrent

\* Once a listing has followed every change, and as long as the last refresh
\* was the last to say what hello tells, it tells of every module that loads,
\* and a browser that imports one of them gets it unless the node is headless.
THEOREM ToldModulesAreServed == Spec => []ToldModulesLoad
<1>1. Init => TaskIsCurrent /\ ToldIsCurrent
  BY DEF Init, TaskIsCurrent, ToldIsCurrent
<1>2. TellInv /\ [Next]_vars => TaskIsCurrent' /\ ToldIsCurrent'
  <2> SUFFICES ASSUME TellInv, [Next]_vars  PROVE TaskIsCurrent' /\ ToldIsCurrent'
    OBVIOUS
  <2> USE DEF engine, faces
  <2>1. ASSUME NEW t \in Tokens, NEW ceiling, Grants(t, ceiling)
        PROVE  TaskIsCurrent' /\ ToldIsCurrent'
    BY <2>1, OthersTell DEF Grants, TellInv
  <2>2. ASSUME NEW u \in Puts, Put(u)  PROVE TaskIsCurrent' /\ ToldIsCurrent'
    BY <2>2, OthersTell DEF Put, PutClaims, PutOpens, PutFills, PutFails, TellInv
  <2>3. ASSUME NEW c \in Changes, Change(c)  PROVE TaskIsCurrent' /\ ToldIsCurrent'
    <3>1. CASE Installs(c) \/ Manages(c)
      <4>1. PICK builds, off : Becomes(c, builds, off)
        BY <3>1 DEF Installs, Manages
      <4>2. QED
        BY <2>3, <4>1, BecomesTells
    <3>2. CASE RefreshLocks(c) \/ ChangeDropped(c)
      BY <3>2, OthersTell DEF RefreshLocks, ChangeDropped, TellInv
    <3>3. QED
      BY <2>3, <3>1, <3>2 DEF Change
  <2>4. ASSUME NEW c \in Refreshers, Refresh(c)  PROVE TaskIsCurrent' /\ ToldIsCurrent'
    <3>1. CASE RefreshLists(c)
      BY <3>1, OthersTell DEF RefreshLists, TellInv
    <3>2. QED
      BY <2>4, <3>1, AppliesTells DEF Refresh
  <2>5. ASSUME NEW task \in tasks, Tells(task)  PROVE TaskIsCurrent' /\ ToldIsCurrent'
    BY <2>5, TellsTells
  <2>6. CASE UNCHANGED vars
    BY <2>6, OthersTell DEF vars, TellInv
  <2>7. QED
    BY <2>1, <2>2, <2>3, <2>4, <2>5, <2>6, Zenon DEF Next
<1>3. TellInv => ToldModulesLoad
  <2> SUFFICES ASSUME TellInv, owing = {}, landed = refreshes
               PROVE  /\ told = ModulesOf(Enabled)
                      /\ \A m \in told : Answers(m[1], m[2]) <=> ~Headless
    BY DEF ToldModulesLoad
  <2>1. told = ModulesOf(Enabled) /\ served = Enabled
    BY DEF TellInv, ToldIsCurrent, RefreshInv, ServedIsInstalled
  <2>2. ASSUME NEW p \in Enabled, NEW e \in Ui(p), Loads(e)
        PROVE  Answers(p, e.module) <=> ~Headless
    BY <2>1, <2>2 DEF Answers, Loads
  <2>3. \A m \in told : \E p \in Enabled : \E e \in Ui(p) : Loads(e) /\ m = <<p, e.module>>
    BY <2>1 DEF ModulesOf
  <2>4. QED
    BY <2>1, <2>2, <2>3
<1>4. QED
  BY <1>1, <1>2, <1>3, RefreshInvariant, TypeInvariant, PTL DEF Spec, TellInv
=============================================================================
