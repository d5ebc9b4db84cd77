---------------------------- MODULE PluginLoader ----------------------------
(***************************************************************************)
(* mq_plugin_init_() of plugin.c, run by mq_init_() after the built-in     *)
(* engines are registered: it reads the plug-in directory, loads each      *)
(* shared object and calls its mq_entry(), which registers engines with    *)
(* mq_register() and its own handle.                                       *)
(*                                                                         *)
(* The module composes the loader with the engine table and the threads of *)
(* the application.  In EngineRegistry the runner of mq_init_() may call   *)
(* the registration functions at will; here it makes the calls the loaded  *)
(* files make.                                                             *)
(***************************************************************************)
EXTENDS EngineRegistry

CONSTANTS
    Files,       \* the names in the plug-in directory
    Loadable,    \* those that are not hidden and end in .so, .dylib, ...
    NameLen,     \* the length of each name
    HandleOf,    \* the handle dlopen() returns for each loadable file
    Wants        \* the <<scheme, constructor>> pairs its mq_entry() registers

ASSUME LoaderAssumption ==
    /\ Loadable \subseteq Files
    /\ Null \notin Files
    /\ NameLen \in [Files -> Nat \ {0}]
    /\ HandleOf \in [Loadable -> Handles \ {Null}]
    /\ Wants \in [Loadable -> Seq(Schemes \X Constructors)]

VARIABLES
    phase,   \* where the loader is
    unread,  \* the directory entries readdir_r() has still to return
    buflen,  \* the length of the longest name the path buffer has held
    file,    \* the file whose mq_entry() runs, or Null
    nth,     \* the next of its registrations
    loaded   \* the files that are mapped

loaderVars == <<phase, unread, buflen, file, nth, loaded>>
allVars    == <<vars, loaderVars>>

Phases == {"start", "reading", "entry", "failed", "end"}

PluginHandles      == {HandleOf[f] : f \in Loadable}
PluginConstructors ==
    UNION {{Wants[f][i][2] : i \in DOMAIN Wants[f]} : f \in Loadable}

-----------------------------------------------------------------------------
(* mq_plugin_init_() makes its steps when mq_init_() has control and all   *)
(* built-in engines are registered.                                        *)

(* Seeded fault: the plug-ins may come before the built-in engines.        *)
InLoader_TooEarly(t, p) ==
    /\ pc[t] = "init"
    /\ phase = p

InLoader(t, p) ==
    /\ pc[t] = "init" /\ booted = Len(Builtins)
    /\ phase = p

OpenDir(t) ==
    /\ InLoader(t, "start")
    /\ phase' = "reading"
    /\ unread' = Files
    /\ UNCHANGED <<vars, buflen, file, nth, loaded>>

(* opendir() fails; mq_init_() ignores the result.                         *)
OpenDirFails(t) ==
    /\ InLoader(t, "start")
    /\ phase' = "end"
    /\ UNCHANGED <<vars, unread, buflen, file, nth, loaded>>

(* readdir_r() returns the entries in any order.                           *)
Read(t, f) ==
    /\ InLoader(t, "reading")
    /\ f \in unread
    /\ unread' = unread \ {f}

SkipName(t, f) ==
    /\ f \notin Loadable
    /\ Read(t, f)
    /\ UNCHANGED <<vars, phase, buflen, file, nth, loaded>>

(* The path buffer cannot grow: the rest of the directory is not read.     *)
PathNoMemory(t, f) ==
    /\ f \in Loadable
    /\ NameLen[f] > buflen
    /\ InLoader(t, "reading") /\ f \in unread
    /\ phase' = "end"
    /\ unread' = {}
    /\ buflen' = 0
    /\ UNCHANGED <<vars, file, nth, loaded>>

LargerOf(m, n) == IF m > n THEN m ELSE n

(* dlopen() fails, or there is no mq_entry() and the file is closed again. *)
LoadFails(t, f) ==
    /\ f \in Loadable
    /\ Read(t, f)
    /\ buflen' = LargerOf(buflen, NameLen[f])
    /\ UNCHANGED <<vars, phase, file, nth, loaded>>

Enter(t, f) ==
    /\ f \in Loadable
    /\ Read(t, f)
    /\ buflen' = LargerOf(buflen, NameLen[f])
    /\ loaded' = loaded \cup {f}
    /\ file' = f
    /\ nth' = 1
    /\ phase' = "entry"
    /\ UNCHANGED vars

-----------------------------------------------------------------------------
(* The mq_entry() of the file: it registers its engines one by one and     *)
(* gives up at the first that fails.                                       *)

EntryRegisters(t) ==
    /\ InLoader(t, "entry")
    /\ nth <= Len(Wants[file])
    /\ Invoke(t, "register", [scheme    |-> Wants[file][nth][1],
                              construct |-> Wants[file][nth][2],
                              handle    |-> HandleOf[file]])
    /\ nth' = nth + 1
    /\ UNCHANGED <<booted, phase, unread, buflen, file, loaded>>

(* Seeded fault: the test of mq_entry()'s result is inverted.              *)
EntryResult_Inverted(t) ==
    /\ phase = "entry" /\ runner = t
    /\ Collect(t)
    /\ phase' = IF ret[t] = 0 THEN "failed" ELSE "entry"
    /\ UNCHANGED <<unread, buflen, file, nth, loaded>>

EntryResult(t) ==
    /\ phase = "entry" /\ runner = t
    /\ Collect(t)
    /\ phase' = IF ret[t] = 0 THEN "entry" ELSE "failed"
    /\ UNCHANGED <<unread, buflen, file, nth, loaded>>

EntrySucceeds(t) ==
    /\ InLoader(t, "entry")
    /\ nth > Len(Wants[file])
    /\ phase' = "reading"
    /\ file' = Null
    /\ nth' = 0
    /\ UNCHANGED <<vars, unread, buflen, loaded>>

(* Seeded fault: the loop goes on without the `continue'.                  *)
EntryFails_FallsThrough(t) ==
    /\ InLoader(t, "failed")
    /\ loaded' = loaded \ {file}
    /\ phase' = "entry"
    /\ UNCHANGED <<vars, unread, buflen, file, nth>>

(* mq_entry() has returned an error: the file is closed.                   *)
EntryFails(t) ==
    /\ InLoader(t, "failed")
    /\ loaded' = loaded \ {file}
    /\ phase' = "reading"
    /\ file' = Null
    /\ nth' = 0
    /\ UNCHANGED <<vars, unread, buflen>>

(* No entry is left, or readdir_r() fails, which looks the same: the loop  *)
(* does not tell them apart, and entries may remain that nobody reads.     *)
CloseDir(t) ==
    /\ InLoader(t, "reading")
    /\ phase' = "end"
    /\ unread' = {}
    /\ buflen' = 0
    /\ UNCHANGED <<vars, file, nth, loaded>>

LoaderDone(t) ==
    /\ phase = "end"
    /\ InitDone(t)
    /\ UNCHANGED loaderVars

-----------------------------------------------------------------------------
(* The application registers its own engines under its own handles.        *)
AppCall(t) ==
    /\ pc[t] = "idle"
    /\ Call(t)
    /\ op'[t] = "register" => /\ arg'[t].handle \notin PluginHandles
                              /\ arg'[t].construct \notin PluginConstructors
    /\ UNCHANGED loaderVars

TableOnly(t) ==
    /\ \/ TableStep(t)
       \/ Collect(t) /\ ~(phase = "entry" /\ runner = t)
    /\ UNCHANGED loaderVars

LoaderStep(t) ==
    \/ OpenDir(t) \/ OpenDirFails(t)
    \/ \E f \in Files : SkipName(t, f) \/ PathNoMemory(t, f) \/ LoadFails(t, f) \/ Enter(t, f)
    \/ EntryRegisters(t) \/ EntryResult(t) \/ EntrySucceeds(t) \/ EntryFails(t)
    \/ CloseDir(t) \/ LoaderDone(t)

LoaderInit ==
    /\ Init
    /\ phase = "start"
    /\ unread = {}
    /\ buflen = 0
    /\ file = Null
    /\ nth = 0
    /\ loaded = {}

LoaderNext == \E t \in Threads : AppCall(t) \/ TableOnly(t) \/ LoaderStep(t)

LoaderSpec == LoaderInit /\ [][LoaderNext]_allVars

-----------------------------------------------------------------------------
(* Correctness.                                                            *)

(* Every variable of the loader has its type, and the loader is at a file  *)
(* that is mapped while it runs the file's mq_entry().                     *)
LoaderTypeOK ==
    /\ phase \in Phases
    /\ unread \in SUBSET Files
    /\ buflen \in {NameLen[f] : f \in Loadable} \cup {0}
    /\ loaded \in SUBSET Loadable
    /\ nth \in Nat
    /\ IF phase \in {"entry", "failed"}
       THEN file \in loaded /\ nth \in 1..(Len(Wants[file]) + 1) /\ runner # Null
       ELSE file = Null /\ nth = 0

(* Every engine in the table that a plug-in registered is served by code   *)
(* that is mapped: plugin.c:109 reports that the plug-in's initialisation  *)
(* failed and closes it, so its constructors must not be reachable.        *)
PluginsMapped ==
    \A i \in Occupied :
       engines[i].handle \in PluginHandles =>
          \E f \in loaded : HandleOf[f] = engines[i].handle

(* No thread looks an engine up before every plug-in has been dealt with,  *)
(* whichever thread loads them: a connection to the scheme of a plug-in    *)
(* must not fail because another thread was first.                         *)
PluginsBeforeLookup ==
    \A t \in Threads :
       pc[t] \in {"rdlock", "lookup", "construct"} => phase = "end"

(* The loader and the files it enters use the engine table as any caller   *)
(* of the registration API may, and only after the built-in engines are in *)
(* place: what is proved of EngineRegistry holds with plug-ins.            *)
RegistrySpec == Spec

(* The thread that runs mq_init_() gets through it, and every thread that  *)
(* called the library comes back, whatever fails on the way.               *)
CallsReturn ==
    \A t \in Threads : pc[t] # "idle" ~> pc[t] = "idle"

-----------------------------------------------------------------------------
(* The strengthening that is inductive.                                    *)

(* Where the loader is in mq_init_(), and that a file is loaded only once. *)
ProgressInv ==
    /\ phase # "start" => booted = Len(Builtins)
    /\ phase = "start" => loaded = {}
    /\ once = "done" => phase = "end"
    /\ loaded \cap unread = {}

LoaderInv == IInv /\ LoaderTypeOK /\ ProgressInv

(* Only the file that is entered registers an engine with the handle of a  *)
(* plug-in.                                                                *)
EntryCalls ==
    \A t \in Threads :
       op[t] = "register" /\ arg[t].handle \in PluginHandles =>
          /\ t = runner
          /\ phase = "entry"
          /\ nth >= 2
          /\ arg[t].handle = HandleOf[file]

(* mq_entry() gives up, if at all, at its first registration: it has       *)
(* registered nothing when the file is closed.                             *)
FailsAtFirst == phase = "failed" => nth <= 2

(* Every plug-in registers one scheme at most, as queues/random.c does.    *)
OneSchemeEach == \A f \in Loadable : Len(Wants[f]) <= 1

(* If files fail at their first registration only, the file stays mapped:  *)
(* its first registration has succeeded.                                   *)
Settled(f) ==
    /\ f \in loaded
    /\ f = file =>
          /\ phase = "entry"
          /\ \/ nth >= 3
             \/ nth = 2 /\ pc[runner] = "init"
             \/ nth = 2 /\ pc[runner] = "return" /\ ret[runner] = 0

PluginsSettled ==
    \A i \in Occupied :
       engines[i].handle \in PluginHandles =>
          \E f \in loaded : Settled(f) /\ HandleOf[f] = engines[i].handle

PluginInv == LoaderInv /\ EntryCalls /\ PluginsSettled
=============================================================================
