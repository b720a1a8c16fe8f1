---------------------------- MODULE PluginManager ----------------------------
(***************************************************************************)
(* The plugin registry (internal/plugin): a map that Discover replaces as  *)
(* a whole, after running schema and init of every file in the plugin      *)
(* directory.  Discover runs at start-up and in every reload request;      *)
(* nothing keeps two of them apart, and the operator may change the files  *)
(* under a running one.  The plugin's files and their programs are         *)
(* external.                                                               *)
(***************************************************************************)
CONSTANTS
    Plugins,     \* file names
    Reloaders,   \* start-up and the reload requests
    Good, Bad    \* programs that answer schema and init, and that do not

ASSUME ProgramsAssumption == Good \cap Bad = {} /\ "absent" \notin Good \cup Bad

VARIABLES
    disk,      \* the program of every file of the plugin directory
    plugins,   \* Manager.plugins
    reload     \* the Discover of every goroutine

pluginVars == <<disk, plugins, reload>>

Programs == Good \cup Bad \cup {"absent"}

\* A Plugin entry: what its file was at each step of loadOne, and its status
\* ("loading" between schema and init, before there is one).
Entry == [status : {"none", "loading", "ready", "disabled"}, of : SUBSET Programs]
NoEntry == [status |-> "none", of |-> {}]
Registry == [Plugins -> Entry]
Empty == [p \in Plugins |-> NoEntry]

Reload == [at : {"idle", "scan"}, todo : SUBSET Plugins, next : Registry, cancelled : BOOLEAN]
NoReload == [at |-> "idle", todo |-> {}, next |-> Empty, cancelled |-> FALSE]

PluginInit ==
    /\ disk \in [Plugins -> Programs]
    /\ plugins = Empty
    /\ reload = [r \in Reloaders |-> NoReload]

\* Get: the plugin a command can be run with.
Ready(p) == plugins[p].status = "ready"

-----------------------------------------------------------------------------
\* Mutant: a reload clears the map first.
ClearingDiscover(r) ==
    /\ reload[r].at = "idle"
    /\ reload' = [reload EXCEPT ![r] =
                     [NoReload EXCEPT !.at = "scan", !.todo = {p \in Plugins : disk[p] # "absent"}]]
    /\ plugins' = Empty
    /\ UNCHANGED disk

\* os.ReadDir; a directory that does not exist has no files.  After any other
\* error Discover returns without a change: a stuttering step.
Discover(r) ==
    /\ reload[r].at = "idle"
    /\ reload' = [reload EXCEPT ![r] =
                     [NoReload EXCEPT !.at = "scan", !.todo = {p \in Plugins : disk[p] # "absent"}]]
    /\ UNCHANGED <<disk, plugins>>

Loading(r, p) == reload[r].next[p].status = "loading"

\* A command runs the program that is there by now; it fails with a bad one,
\* and when the request it runs for has been cancelled.
Runs(r, p) == disk[p] \in Good /\ ~reload[r].cancelled

\* loadOne starts with the schema.  A file that has gone is skipped, or
\* disabled if it goes at the last moment.
RunSchema(r, p) ==
    /\ reload[r].at = "scan" /\ p \in reload[r].todo
    /\ \A q \in Plugins : ~Loading(r, q)
    /\ LET entry == [status |-> IF Runs(r, p) THEN "loading" ELSE "disabled", of |-> {disk[p]}]
       IN  \E e \in {entry} \cup (IF disk[p] = "absent" THEN {NoEntry} ELSE {}) :
              reload' = [reload EXCEPT ![r].todo = @ \ {p}, ![r].next[p] = e]
    /\ UNCHANGED <<disk, plugins>>

\* Mutant: a failing init does not disable the plugin.
CarelessRunInit(r, p) ==
    /\ Loading(r, p)
    /\ reload' = [reload EXCEPT ![r].next[p] = [status |-> "ready", of |-> @.of \cup {disk[p]}]]
    /\ UNCHANGED <<disk, plugins>>

\* ... and goes on with init.
RunInit(r, p) ==
    /\ Loading(r, p)
    /\ reload' = [reload EXCEPT ![r].next[p] =
                     [status |-> IF Runs(r, p) THEN "ready" ELSE "disabled",
                      of |-> @.of \cup {disk[p]}]]
    /\ UNCHANGED <<disk, plugins>>

Install(r) ==
    /\ reload[r].at = "scan" /\ reload[r].todo = {}
    /\ \A p \in Plugins : ~Loading(r, p)
    /\ plugins' = reload[r].next
    /\ reload' = [reload EXCEPT ![r] = NoReload]
    /\ UNCHANGED disk

\* The client leaves or the API timeout ends the request's context: the
\* commands still to run fail, and the map is installed all the same.
Cancel(r) ==
    /\ reload[r].at = "scan" /\ ~reload[r].cancelled
    /\ reload' = [reload EXCEPT ![r].cancelled = TRUE]
    /\ UNCHANGED <<disk, plugins>>

ChangeFile(p) ==
    /\ \E b \in Programs \ {disk[p]} : disk' = [disk EXCEPT ![p] = b]
    /\ UNCHANGED <<plugins, reload>>

PluginStep(r) == Install(r) \/ \E p \in Plugins : RunSchema(r, p) \/ RunInit(r, p)

PluginNext ==
    \/ \E r \in Reloaders : Discover(r) \/ PluginStep(r) \/ Cancel(r)
    \/ \E p \in Plugins : ChangeFile(p)

-----------------------------------------------------------------------------
(* Properties *)

PluginTypeOK ==
    /\ disk \in [Plugins -> Programs]
    /\ plugins \in Registry
    /\ reload \in [Reloaders -> Reload]

\* What a reload knows of p will be wrong when it is installed.
Misinformed(r, p) ==
    /\ reload[r].at = "scan"
    /\ reload[r].cancelled \/ (p \notin reload[r].todo /\ reload[r].next[p].of # {disk[p]})

\* A good plugin whose file is left alone stays usable at every moment of a
\* reload, unless a reload was cancelled or had read the file before it was
\* changed: there is no gap in which a request finds it missing.
GoodStaysReady ==
    [][\A p \in Plugins :
          /\ Ready(p) /\ plugins[p].of = {disk[p]} /\ UNCHANGED disk
          /\ \A r \in Reloaders : ~Misinformed(r, p)
          => Ready(p)']_pluginVars

\* A usable plugin has answered both schema and init, whatever happened to
\* its file between the two: one that failed stays unusable until a later
\* reload has run it.
ReadyIsGood == \A p \in Plugins : Ready(p) => plugins[p].of # {} /\ plugins[p].of \subseteq Good
=============================================================================
