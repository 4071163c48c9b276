--------------------------- MODULE GithubConnection ---------------------------
(***************************************************************************)
(* The settings of a workspace and its GitHub installations: the OAuth     *)
(* callback, installation webhooks with redeliveries, the refresh button   *)
(* and PUT /settings all end in save_settings(), which reads the whole     *)
(* JSON key, merges, writes it and mirrors it in Postgres.                 *)
(***************************************************************************)
EXTENDS Naturals, FiniteSets

CONSTANTS
    Installs,       \* installation ids
    Repos,          \* what an installation may grant
    Changes,        \* handlers that may run at a time
    Guids,          \* webhook deliveries
    Choices,        \* values of the settings a user edits
    NoInstall,
    MaxChanges,     \* bound: requests, webhooks included
    MaxStops        \* bound

ASSUME GithubAssumption == MaxChanges \in Nat

VARIABLES
    settings,       \* the settings key: [install, repos, choice]
    row,            \* its Postgres row
    bound,          \* orqis:install:*: installations that name this workspace
    seen,           \* orqis:delivery:*: GUIDs that were recorded
    granted,        \* GitHub: installation -> its repos; {} when it is uninstalled
    mail,           \* GitHub: GUIDs in flight -> [install, gone]
    change,         \* handler -> [at, from, kind, install, patch, read, guid]
    handled,        \* history: GUID -> times it was handled
    changes, stops, \* counters of the bounds
    calm            \* history: no two handlers overlapped and none was cut off

githubVars == <<settings, row, bound, seen, granted, mail, change, handled, changes, stops, calm>>

Defaults == [install |-> NoInstall, repos |-> {}, choice |-> "default"]
NoChange == [at |-> "idle", kind |-> "none", install |-> NoInstall, patch |-> Defaults, fields |-> {},
             read |-> Defaults, guid |-> 0]
NoMail == [install |-> NoInstall, gone |-> FALSE]

GithubInit ==
    /\ settings = Defaults /\ row = Defaults
    /\ bound = {} /\ seen = {}
    /\ granted = [i \in Installs |-> {}]
    /\ mail = [g \in Guids |-> NoMail]
    /\ change = [c \in Changes |-> NoChange]
    /\ handled = [g \in Guids |-> 0]
    /\ changes = 0 /\ stops = 0
    /\ calm = TRUE

Doing(c, where) == change[c].at = where
Next_(c, where) == change' = [change EXCEPT ![c].at = where]
Ends(c) == change' = [change EXCEPT ![c] = NoChange]
Others(c) == \E d \in Changes \ {c} : ~Doing(d, "idle")

Starts(c, first) ==
    /\ Doing(c, "idle")
    /\ changes < MaxChanges
    /\ changes' = changes + 1
    /\ change' = [change EXCEPT ![c] = first]
    /\ calm' = (calm /\ ~Others(c))
    /\ UNCHANGED <<settings, row, bound, seen, granted, mail, handled, stops>>

-----------------------------------------------------------------------------
\* GitHub, which delivers a GUID and may deliver it again.
Install(i, R) ==
    /\ granted[i] # R /\ R # {}
    /\ \E g \in Guids : /\ mail[g] = NoMail
                        /\ mail' = [mail EXCEPT ![g] = [install |-> i, gone |-> FALSE]]
    /\ granted' = [granted EXCEPT ![i] = R]
    /\ UNCHANGED <<settings, row, bound, seen, change, handled, changes, stops, calm>>
Uninstall(i) ==
    /\ granted[i] # {}
    /\ \E g \in Guids : /\ mail[g] = NoMail
                        /\ mail' = [mail EXCEPT ![g] = [install |-> i, gone |-> TRUE]]
    /\ granted' = [granted EXCEPT ![i] = {}]
    /\ UNCHANGED <<settings, row, bound, seen, change, handled, changes, stops, calm>>

\* github_callback(): an installation GitHub gives a token for.
Callback(c) ==
    \E i \in Installs :
        /\ granted[i] # {}
        /\ Starts(c, [NoChange EXCEPT !.at = "list", !.kind = "callback", !.install = i])

\* github_refresh_repos()
Refresh(c) ==
    /\ settings.install # NoInstall
    /\ Starts(c, [NoChange EXCEPT !.at = "list", !.kind = "refresh", !.install = settings.install])

\* update_settings(): a default repository has to be a granted one, if any are.
PutSettings(c) ==
    \E v \in Choices :
        /\ settings.repos # {} /\ v \in Repos => v \in settings.repos
        /\ Starts(c, [NoChange EXCEPT !.at = "read", !.kind = "put", !.fields = {"choice"}, !.patch.choice = v])

\* github_webhook(): the delivery is recorded with SET NX.
Deliver(c) ==
    \E g \in Guids :
        /\ mail[g] # NoMail
        /\ Starts(c, [NoChange EXCEPT !.at = "dedup", !.kind = "webhook", !.install = mail[g].install, !.guid = g])

\* Mutant: the GUID is looked up by one call and recorded by another.
DedupLooks(c) ==
    \/ /\ Doing(c, "dedup")
       /\ IF change[c].guid \in seen THEN Ends(c) ELSE Next_(c, "record")
       /\ UNCHANGED <<settings, row, bound, seen, granted, mail, handled, changes, stops, calm>>
    \/ /\ Doing(c, "record")
       /\ seen' = seen \cup {change[c].guid}
       /\ handled' = [handled EXCEPT ![change[c].guid] = @ + 1]
       /\ Next_(c, "route")
       /\ UNCHANGED <<settings, row, bound, granted, mail, changes, stops, calm>>
Dedup_(c) ==
    /\ Doing(c, "dedup")
    /\ seen' = seen \cup {change[c].guid}
    /\ IF change[c].guid \in seen THEN Ends(c) /\ handled' = handled
       ELSE Next_(c, "route") /\ handled' = [handled EXCEPT ![change[c].guid] = @ + 1]
    /\ UNCHANGED <<settings, row, bound, granted, mail, changes, stops, calm>>

\* _handle_installation(): only an installation that is bound to a workspace.
HandleInstallation(c) ==
    LET m == mail[change[c].guid] IN
    /\ Doing(c, "route")
    /\ IF m.install \notin bound THEN Ends(c)
       ELSE IF m.gone
       THEN change' = [change EXCEPT ![c].at = "read", ![c].kind = "uninstall", ![c].fields = {"install", "repos"},
                                     ![c].patch = [Defaults EXCEPT !.repos = {}]]
       ELSE Next_(c, "list")
    /\ UNCHANGED <<settings, row, bound, seen, granted, mail, handled, changes, stops, calm>>

\* list_installation_repos(): all the repos, or what came before an error.
ListRepos(c) ==
    LET i == change[c].install IN
    /\ Doing(c, "list")
    /\ \E R \in SUBSET granted[i] :
          change' = [change EXCEPT ![c].at = "read", ![c].fields = {"install", "repos"},
                                   ![c].patch = [Defaults EXCEPT !.install = i, !.repos = R]]
    /\ UNCHANGED <<settings, row, bound, seen, granted, mail, handled, changes, stops, calm>>

-----------------------------------------------------------------------------
\* save_settings()
ReadSettings(c) ==
    /\ Doing(c, "read")
    /\ change' = [change EXCEPT ![c].at = "set",
                                ![c].read = [f \in DOMAIN settings |-> IF f \in change[c].fields THEN change[c].patch[f] ELSE settings[f]]]
    /\ UNCHANGED <<settings, row, bound, seen, granted, mail, handled, changes, stops, calm>>

SetSettings(c) ==
    /\ Doing(c, "set")
    /\ settings' = change[c].read
    /\ Next_(c, "mirror")
    /\ UNCHANGED <<row, bound, seen, granted, mail, handled, changes, stops, calm>>

\* After it: the callback binds the installation, the uninstall unbinds it.
AfterSave(c) ==
    IF change[c].kind = "callback" THEN Next_(c, "bind")
    ELSE IF change[c].kind = "uninstall" THEN Next_(c, "unbind") ELSE Ends(c)
Mirror(c) ==
    /\ Doing(c, "mirror")
    /\ row' = change[c].read
    /\ AfterSave(c)
    /\ UNCHANGED <<settings, bound, seen, granted, mail, handled, changes, stops, calm>>

Bind(c) ==
    /\ Doing(c, "bind")
    /\ bound' = bound \cup {change[c].install}
    /\ Ends(c)
    /\ UNCHANGED <<settings, row, seen, granted, mail, handled, changes, stops, calm>>
Unbind(c) ==
    /\ Doing(c, "unbind")
    /\ bound' = bound \ {change[c].install}
    /\ Ends(c)
    /\ UNCHANGED <<settings, row, seen, granted, mail, handled, changes, stops, calm>>

RestartGithub ==
    /\ stops < MaxStops
    /\ \E c \in Changes : ~Doing(c, "idle")
    /\ stops' = stops + 1
    /\ change' = [c \in Changes |-> NoChange]
    /\ calm' = FALSE
    /\ UNCHANGED <<settings, row, bound, seen, granted, mail, handled, changes>>

GithubNext ==
    \/ \E i \in Installs : Uninstall(i) \/ \E R \in SUBSET Repos : Install(i, R)
    \/ \E c \in Changes :
          \/ Callback(c) \/ Refresh(c) \/ PutSettings(c) \/ Deliver(c) \/ Dedup_(c)
          \/ HandleInstallation(c) \/ ListRepos(c)
          \/ ReadSettings(c) \/ SetSettings(c) \/ Mirror(c) \/ Bind(c) \/ Unbind(c)
    \/ RestartGithub

GithubSpec == GithubInit /\ [][GithubNext]_githubVars

-----------------------------------------------------------------------------
GithubTypeOK ==
    /\ settings \in [install : Installs \cup {NoInstall}, repos : SUBSET Repos, choice : Choices \cup {"default"}]
    /\ row \in [install : Installs \cup {NoInstall}, repos : SUBSET Repos, choice : Choices \cup {"default"}]
    /\ bound \subseteq Installs /\ seen \subseteq Guids
    /\ changes \in 0..MaxChanges

\* A delivery that GitHub repeats, even while the first is being handled, is
\* handled once (store.py, delivery_seen(); server.py, github_webhook()).
HandledOnce == \A g \in Guids : handled[g] <= 1

\* As long as no two of these handlers overlap and none is cut off, whatever
\* installations come and go in whatever order: the row is the settings, and
\* the installation a workspace is connected to is one whose webhooks find it
\* (store.py, save_settings(); webhooks.py, _handle_installation()).
CalmSettings ==
    calm /\ (\A c \in Changes : Doing(c, "idle")) =>
        /\ row = settings
        /\ settings.install # NoInstall => settings.install \in bound

\* Deliveries count once, and settings that are changed one at a time stay
\* true to GitHub (server.py, github_webhook(); store.py, save_settings()).
ConnectionIsTrue == HandledOnce /\ CalmSettings

=============================================================================
