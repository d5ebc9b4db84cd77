------------------------- MODULE PluginLoaderProofs -------------------------
(***************************************************************************)
(* The loader of plug-ins makes only the calls on the engine table that    *)
(* EngineRegistry allows, for any directory and any plug-ins, so that what *)
(* is proved of the table holds with plug-ins; and what the loader itself  *)
(* promises, by LoaderInv and PluginInv.  `t' is the thread that makes the *)
(* step and `u' any thread.                                                *)
(***************************************************************************)
EXTENDS PluginLoader, EngineMapProofs

-----------------------------------------------------------------------------
(* The loader as a user of the engine table.                               *)

ThreadStep(t) == AppCall(t) \/ TableOnly(t) \/ LoaderStep(t)

(* What a plug-in asks for is what mq_register() takes.                    *)
LEMMA EntryIsCall ==
    ASSUME LoaderTypeOK, NEW t \in Threads, EntryRegisters(t)
    PROVE  CallRegister(t)
<1> DEFINE a == [scheme    |-> Wants[file][nth][1],
                 construct |-> Wants[file][nth][2],
                 handle    |-> HandleOf[file]]
<1>1. file \in Loadable /\ nth \in 1..Len(Wants[file])
  BY DEF LoaderTypeOK, EntryRegisters, InLoader
<1>2. Wants[file] \in Seq(Schemes \X Constructors) /\ HandleOf[file] \in Handles
  BY <1>1, LoaderAssumption
<1>3. Wants[file][nth] \in Schemes \X Constructors
  BY <1>1, <1>2
<1>4. a \in Slot
  BY <1>2, <1>3 DEF Slot
<1> QED
  BY <1>4 DEF EntryRegisters, InLoader, CallRegister, MayCall

(* A step with the loader is a step of engine.c or does not concern it.    *)
LEMMA RegistryStep ==
    ASSUME LoaderTypeOK, NEW t \in Threads, ThreadStep(t)
    PROVE  Call(t) \/ Step(t) \/ UNCHANGED vars
<1>1. CASE AppCall(t)
  BY <1>1 DEF AppCall
<1>2. CASE TableOnly(t)
  BY <1>2 DEF TableOnly, Step
<1>3. CASE EntryRegisters(t)
  BY <1>3, EntryIsCall DEF Call
<1>4. CASE EntryResult(t) \/ LoaderDone(t)
  BY <1>4 DEF EntryResult, LoaderDone, Step
<1>5. CASE \/ OpenDir(t) \/ OpenDirFails(t) \/ EntrySucceeds(t) \/ EntryFails(t)
           \/ CloseDir(t)
           \/ \E f \in Files : \/ SkipName(t, f) \/ PathNoMemory(t, f)
                               \/ LoadFails(t, f) \/ Enter(t, f)
  BY <1>5
  DEF OpenDir, OpenDirFails, SkipName, PathNoMemory, LoadFails, Enter,
      EntrySucceeds, EntryFails, CloseDir
<1> QED
  BY <1>1, <1>2, <1>3, <1>4, <1>5 DEF ThreadStep, LoaderStep

(* Who runs mq_init_() changes when it starts and when it ends.            *)
LEMMA RunnerKept ==
    ASSUME NEW t \in Threads, ThreadStep(t)
    PROVE  \/ runner' = runner /\ once' = once
           \/ OnceRun(t) /\ UNCHANGED loaderVars
           \/ LoaderDone(t)
  BY
  DEF ThreadStep, AppCall, TableOnly, LoaderStep, Call, TableStep, CallRegister,
      CallUnregister, CallUnregisterConstructor, CallUnregisterAll, CallCreate,
      WrLock, RegisterSpare, RegisterReplace, RegisterSkip, RegisterAbsent,
      RegisterNoMemory, RegisterInsert, UnregisterClear, UnregisterSkip,
      UnregisterAbsent, PurgeClear, PurgeSkip, PurgeDone, OnceSkip, InitBuiltin,
      RdLock, LookupHit, LookupSkip, LookupMiss, Construct, ConstructFails,
      Collect, Invoke, Return, NextSlot, EndCreate, OpenDir, OpenDirFails,
      SkipName, PathNoMemory, LoadFails, Enter, EntryRegisters, EntryResult,
      EntrySucceeds, EntryFails, CloseDir, vars

(* mq_init_() registers built-in engines only before the loader starts.    *)
LEMMA BootedKept ==
    ASSUME TypeOK, ProgressInv, NEW t \in Threads, ThreadStep(t)
    PROVE  \/ booted' = booted
           \/ phase = "start" /\ UNCHANGED loaderVars
<1>1. InitBuiltin(t) => phase = "start"
  BY DEF InitBuiltin, ProgressInv, TypeOK
<1>2. \/ booted' = booted
      \/ InitBuiltin(t) /\ UNCHANGED loaderVars
  BY
  DEF ThreadStep, AppCall, TableOnly, LoaderStep, Call, TableStep, CallRegister,
      CallUnregister, CallUnregisterConstructor, CallUnregisterAll, CallCreate,
      WrLock, RegisterSpare, RegisterReplace, RegisterSkip, RegisterAbsent,
      RegisterNoMemory, RegisterInsert, UnregisterClear, UnregisterSkip,
      UnregisterAbsent, PurgeClear, PurgeSkip, PurgeDone, OnceRun, OnceSkip,
      RdLock, LookupHit, LookupSkip, LookupMiss, Construct, ConstructFails,
      Collect, Invoke, Return, NextSlot, EndCreate, OpenDir, OpenDirFails,
      SkipName, PathNoMemory, LoadFails, Enter, EntryRegisters, EntryResult,
      EntrySucceeds, EntryFails, CloseDir, LoaderDone, InitDone, vars
<1> QED
  BY <1>1, <1>2

-----------------------------------------------------------------------------
(* The loader's own state.                                                 *)

LEMMA LoaderTypeStep ==
    ASSUME LoaderInv, NEW t \in Threads, ThreadStep(t)
    PROVE  LoaderTypeOK'
<1>0. /\ phase \in Phases /\ unread \in SUBSET Files
      /\ buflen \in {NameLen[f] : f \in Loadable} \cup {0}
      /\ loaded \in SUBSET Loadable /\ nth \in Nat
      /\ phase \in {"entry", "failed"} =>
            file \in loaded /\ nth \in 1..(Len(Wants[file]) + 1) /\ runner # Null
      /\ phase \notin {"entry", "failed"} => file = Null /\ nth = 0
  BY DEF LoaderInv, LoaderTypeOK
<1>1. phase' \in {"entry", "failed"} => runner' # Null
  <2>1. CASE phase \in {"entry", "failed"}
    BY <1>0, <2>1, RunnerKept, RegistryAssumption DEF OnceRun, LoaderDone
  <2>2. CASE phase' \in {"entry", "failed"} /\ phase \notin {"entry", "failed"}
    <3>1. \E f \in Files : Enter(t, f)
      BY <2>2
      DEF ThreadStep, AppCall, TableOnly, LoaderStep, OpenDir, OpenDirFails,
          SkipName, PathNoMemory, LoadFails, EntryRegisters, InLoader,
          EntryResult, EntrySucceeds, EntryFails, CloseDir, LoaderDone,
          loaderVars
    <3>2. pc[t] = "init" /\ runner' = runner
      BY <3>1 DEF Enter, Read, InLoader, vars
    <3> QED
      BY <3>2, RegistryAssumption DEF LoaderInv, IInv, OnceInv
  <2> QED
    BY <2>1, <2>2
<1>2. CASE AppCall(t) \/ TableOnly(t) \/ LoaderDone(t)
  BY <1>0, <1>1, <1>2 DEF AppCall, TableOnly, LoaderDone, loaderVars, LoaderTypeOK
<1>3. CASE OpenDir(t) \/ OpenDirFails(t) \/ CloseDir(t)
  BY <1>0, <1>1, <1>3
  DEF OpenDir, OpenDirFails, CloseDir, InLoader, LoaderTypeOK, Phases
<1>4. ASSUME NEW f \in Files, SkipName(t, f) \/ PathNoMemory(t, f)
      PROVE  LoaderTypeOK'
  BY <1>0, <1>1, <1>4
  DEF SkipName, PathNoMemory, Read, InLoader, LoaderTypeOK, Phases
<1>5. ASSUME NEW f \in Loadable, buflen' = LargerOf(buflen, NameLen[f])
      PROVE  buflen' \in {NameLen[g] : g \in Loadable} \cup {0}
  BY <1>0, <1>5 DEF LargerOf
<1>6. ASSUME NEW f \in Files, LoadFails(t, f)
      PROVE  LoaderTypeOK'
  BY <1>0, <1>1, <1>5, <1>6 DEF LoadFails, Read, InLoader, LoaderTypeOK
<1>7. ASSUME NEW f \in Files, Enter(t, f)
      PROVE  LoaderTypeOK'
  <2>1. f \in Loadable /\ Len(Wants[f]) \in Nat
    BY <1>7, LoaderAssumption DEF Enter
  <2>2. /\ loaded' = loaded \cup {f} /\ file' = f /\ nth' = 1 /\ phase' = "entry"
        /\ unread' = unread \ {f} /\ buflen' = LargerOf(buflen, NameLen[f])
    BY <1>7 DEF Enter, Read
  <2>3. nth' \in 1..(Len(Wants[file']) + 1)
    BY <2>1, <2>2
  <2> QED
    BY <1>0, <1>1, <1>5, <2>1, <2>2, <2>3 DEF LoaderTypeOK, Phases
<1>8. CASE EntryRegisters(t)
  <2>1. Len(Wants[file]) \in Nat
    BY <1>0, <1>8, LoaderAssumption DEF EntryRegisters, InLoader
  <2>2. /\ phase = "entry" /\ nth' = nth + 1 /\ nth <= Len(Wants[file])
        /\ UNCHANGED <<phase, unread, buflen, file, loaded>>
    BY <1>8 DEF EntryRegisters, InLoader
  <2>3. nth' \in 1..(Len(Wants[file]) + 1)
    BY <1>0, <2>1, <2>2
  <2> QED
    BY <1>0, <1>1, <2>2, <2>3 DEF LoaderTypeOK
<1>9. CASE EntryResult(t)
  BY <1>0, <1>1, <1>9 DEF EntryResult, LoaderTypeOK, Phases
<1>10. CASE EntrySucceeds(t) \/ EntryFails(t)
  BY <1>0, <1>1, <1>10 DEF EntrySucceeds, EntryFails, InLoader, LoaderTypeOK, Phases
<1> QED
  BY <1>2, <1>3, <1>4, <1>6, <1>7, <1>8, <1>9, <1>10 DEF ThreadStep, LoaderStep

LEMMA ProgressStep ==
    ASSUME LoaderInv, NEW t \in Threads, ThreadStep(t)
    PROVE  ProgressInv'
<1>0. TypeOK /\ OnceInv /\ LoaderTypeOK /\ ProgressInv
  BY DEF LoaderInv, IInv
<1>1. phase' # "start" => booted' = Len(Builtins)
  <2>1. phase' # phase => booted = Len(Builtins)
    BY <1>0
    DEF ThreadStep, AppCall, TableOnly, LoaderStep, OpenDir, OpenDirFails,
        SkipName, PathNoMemory, LoadFails, Enter, Read, EntryRegisters, InLoader,
        EntryResult, EntrySucceeds, EntryFails, CloseDir, LoaderDone,
        loaderVars, ProgressInv
  <2> QED
    BY <1>0, <2>1, BootedKept DEF ProgressInv, loaderVars
<1>2. phase' = "start" => loaded' = {}
  BY <1>0
  DEF ThreadStep, AppCall, TableOnly, LoaderStep, OpenDir, OpenDirFails,
      SkipName, PathNoMemory, LoadFails, Enter, Read, EntryRegisters, InLoader,
      EntryResult, EntrySucceeds, EntryFails, CloseDir, LoaderDone,
      loaderVars, ProgressInv
<1>3. once' = "done" => phase' = "end"
  <2>1. CASE once = "done"
    <3>1. runner = Null /\ phase = "end"
      BY <1>0, <2>1 DEF OnceInv, ProgressInv
    <3>2. pc[t] # "init"
      BY <1>0, <3>1, RegistryAssumption DEF OnceInv
    <3> QED
      BY <3>1, <3>2
      DEF ThreadStep, AppCall, TableOnly, LoaderStep, OpenDir, OpenDirFails,
          SkipName, PathNoMemory, LoadFails, Enter, Read, EntryRegisters,
          InLoader, EntryResult, EntrySucceeds, EntryFails, CloseDir,
          LoaderDone, loaderVars
  <2>2. CASE once # "done"
    BY <2>2, RunnerKept DEF OnceRun, LoaderDone, loaderVars
  <2> QED
    BY <2>1, <2>2
<1>4. loaded' \cap unread' = {}
  BY <1>0
  DEF ThreadStep, AppCall, TableOnly, LoaderStep, OpenDir, OpenDirFails,
      SkipName, PathNoMemory, LoadFails, Enter, Read, EntryRegisters, InLoader,
      EntryResult, EntrySucceeds, EntryFails, CloseDir, LoaderDone,
      loaderVars, ProgressInv
<1> QED
  BY <1>1, <1>2, <1>3, <1>4 DEF ProgressInv

LEMMA InitLoaderInv == LoaderInit => LoaderInv
<1> SUFFICES ASSUME LoaderInit
             PROVE  LoaderInv
  OBVIOUS
<1>1. IInv
  BY InitIInv DEF LoaderInit
<1>2. LoaderTypeOK /\ ProgressInv
  BY DEF LoaderInit, Init, LoaderTypeOK, Phases, ProgressInv
<1> QED
  BY <1>1, <1>2 DEF LoaderInv

LEMMA StepLoaderInv == LoaderInv /\ [LoaderNext]_allVars => LoaderInv'
<1> SUFFICES ASSUME LoaderInv, [LoaderNext]_allVars
             PROVE  LoaderInv'
  OBVIOUS
<1>1. CASE LoaderNext
  <2>1. PICK t \in Threads : ThreadStep(t)
    BY <1>1 DEF LoaderNext, ThreadStep
  <2>2. [Next]_vars
    BY <2>1, RegistryStep DEF LoaderInv, Next
  <2>3. IInv'
    BY <2>2, StepIInv DEF LoaderInv
  <2>4. LoaderTypeOK' /\ ProgressInv'
    BY <2>1, LoaderTypeStep, ProgressStep
  <2> QED
    BY <2>3, <2>4 DEF LoaderInv
<1>2. CASE UNCHANGED allVars
  <2>1. [Next]_vars /\ UNCHANGED loaderVars
    BY <1>2 DEF allVars
  <2>2. IInv'
    BY <2>1, StepIInv DEF LoaderInv
  <2>3. LoaderTypeOK' /\ ProgressInv'
    BY <1>2 DEF allVars, vars, loaderVars, LoaderInv, LoaderTypeOK, ProgressInv
  <2> QED
    BY <2>2, <2>3 DEF LoaderInv
<1> QED
  BY <1>1, <1>2

(* The inductive invariant of the table and its loader.                    *)
THEOREM LoaderInvariant == LoaderSpec => []LoaderInv
<1> QED
  BY InitLoaderInv, StepLoaderInv, PTL DEF LoaderSpec

(* The loader keeps to its types, and to a mapped file while it runs the   *)
(* file's mq_entry().                                                      *)
THEOREM LoaderTypeCorrect == LoaderSpec => []LoaderTypeOK
<1>1. LoaderInv => LoaderTypeOK
  BY DEF LoaderInv
<1> QED
  BY <1>1, LoaderInvariant, PTL

(* mq_plugin_init_() and the plug-ins use the engine table as any caller   *)
(* may, after the built-in engines: the theorems of EngineRegistryProofs   *)
(* hold of a process that loads plug-ins.                                  *)
THEOREM LoaderImplements == LoaderSpec => RegistrySpec
<1>1. LoaderInit => Init
  BY DEF LoaderInit
<1>2. LoaderInv /\ [LoaderNext]_allVars => [Next]_vars
  <2>1. ASSUME LoaderInv, NEW t \in Threads, ThreadStep(t)
        PROVE  [Next]_vars
    BY <2>1, RegistryStep DEF LoaderInv, Next
  <2> QED
    BY <2>1 DEF LoaderNext, ThreadStep, allVars
<1> QED
  BY <1>1, <1>2, LoaderInvariant, PTL DEF LoaderSpec, RegistrySpec, Spec

(* While plug-ins are loaded, and after, the table is still an EngineMap:  *)
(* what they register is found, and a registration that fails changes      *)
(* nothing.                                                                *)
THEOREM LoaderMapped == LoaderSpec => MapSpec
<1> QED
  BY LoaderImplements, MapImplemented, PTL DEF RegistrySpec

(* Nobody looks an engine up while the plug-ins are still being loaded.    *)
THEOREM PluginsFirst == LoaderSpec => []PluginsBeforeLookup
<1>1. LoaderInv => PluginsBeforeLookup
  BY DEF LoaderInv, IInv, OnceInv, ProgressInv, PluginsBeforeLookup
<1> QED
  BY <1>1, LoaderInvariant, PTL

-----------------------------------------------------------------------------
(* The engines of plug-ins.                                                *)

(* The loader is moved by the thread that runs mq_init_() only.            *)
LEMMA LoaderIsRunner ==
    ASSUME OnceInv, NEW t \in Threads, ThreadStep(t), runner # t
    PROVE  UNCHANGED loaderVars
<1>1. pc[t] # "init"
  BY DEF OnceInv
<1> QED
  BY <1>1
  DEF ThreadStep, AppCall, TableOnly, LoaderStep, OpenDir, OpenDirFails,
      SkipName, PathNoMemory, LoadFails, Enter, Read, EntryRegisters, InLoader,
      EntryResult, EntrySucceeds, EntryFails, CloseDir, LoaderDone, InitDone

LEMMA ResultKept ==
    ASSUME TypeOK, NEW t \in Threads, Call(t) \/ Step(t),
           NEW u \in Threads, u # t
    PROVE  ret'[u] = ret[u]
  BY
  DEF TypeOK, Call, Step, TableStep, CallRegister, CallUnregister,
      CallUnregisterConstructor, CallUnregisterAll, CallCreate, WrLock,
      RegisterSpare, RegisterReplace, RegisterSkip, RegisterAbsent,
      RegisterNoMemory, RegisterInsert, UnregisterClear, UnregisterSkip,
      UnregisterAbsent, PurgeClear, PurgeSkip, PurgeDone, OnceRun, OnceSkip,
      InitBuiltin, RdLock, LookupHit, LookupSkip, LookupMiss, Construct,
      ConstructFails, InitDone, Collect, Invoke, Return, NextSlot, EndCreate

(* Where the arguments of a registration come from.                        *)
LEMMA CallOrigin ==
    ASSUME TypeOK, NEW t \in Threads, ThreadStep(t), op'[t] = "register"
    PROVE  \/ AppCall(t) \/ InitBuiltin(t) \/ EntryRegisters(t)
           \/ op[t] = "register" /\ arg'[t] = arg[t]
<1>1. op \in [Threads -> Ops] /\ arg \in [Threads -> Args]
  BY DEF TypeOK
<1>2. \/ AppCall(t) \/ InitBuiltin(t) \/ EntryRegisters(t)
      \/ \E o \in {"none"} : op' = [op EXCEPT ![t] = o]
      \/ op' = op /\ arg' = arg
  BY
  DEF ThreadStep, TableOnly, LoaderStep, TableStep, WrLock, RegisterSpare,
      RegisterReplace, RegisterSkip, RegisterAbsent, RegisterNoMemory,
      RegisterInsert, UnregisterClear, UnregisterSkip, UnregisterAbsent,
      PurgeClear, PurgeSkip, PurgeDone, OnceRun, OnceSkip, RdLock, LookupHit,
      LookupSkip, LookupMiss, Construct, ConstructFails, Collect, Return,
      NextSlot, EndCreate, OpenDir, OpenDirFails, SkipName, PathNoMemory,
      LoadFails, Enter, EntryResult, EntrySucceeds, EntryFails, CloseDir,
      LoaderDone, InitDone, vars
<1> QED
  BY <1>1, <1>2

LEMMA EntryCallsStep ==
    ASSUME PluginInv, NEW t \in Threads, ThreadStep(t)
    PROVE  EntryCalls'
<1> SUFFICES ASSUME NEW u \in Threads,
                    op'[u] = "register", arg'[u].handle \in PluginHandles
             PROVE  /\ u = runner'
                    /\ phase' = "entry"
                    /\ nth' >= 2
                    /\ arg'[u].handle = HandleOf[file']
  BY DEF EntryCalls, PluginHandles
<1>0. /\ TypeOK /\ OnceInv /\ CallInv /\ LoaderTypeOK /\ ProgressInv
      /\ EntryCalls
  BY DEF PluginInv, LoaderInv, IInv
<1>1. CASE op[u] = "register" /\ arg'[u] = arg[u]
  <2>1. /\ u = runner /\ phase = "entry" /\ nth >= 2
        /\ arg[u].handle = HandleOf[file]
    BY <1>0, <1>1 DEF EntryCalls
  <2>2. pc[u] \in {"wrlock", "scan", "insert"} /\ once = "running"
    BY <1>0, <1>1, <2>1, RegistryAssumption DEF CallInv, CallFrame, OnceInv
  <2>3. runner' = runner
    BY <2>1, <2>2, RunnerKept DEF OnceRun, LoaderDone
  <2>4. UNCHANGED loaderVars
    <3>1. CASE u # t
      BY <1>0, <2>1, <3>1, LoaderIsRunner
    <3>2. CASE u = t
      BY <2>2, <3>2
      DEF ThreadStep, AppCall, TableOnly, LoaderStep, OpenDir, OpenDirFails,
          SkipName, PathNoMemory, LoadFails, Enter, Read, EntryRegisters,
          InLoader, EntryResult, EntrySucceeds, EntryFails, CloseDir,
          LoaderDone, InitDone, Collect
    <3> QED
      BY <3>1, <3>2
  <2> QED
    BY <1>1, <2>1, <2>3, <2>4 DEF loaderVars
<1>2. CASE u # t
  <2>1. op'[u] = op[u] /\ arg'[u] = arg[u]
    BY <1>0, <1>2, RegistryStep, OthersKept DEF vars
  <2> QED
    BY <1>1, <2>1
<1>3. CASE u = t /\ AppCall(t)
  BY <1>3 DEF AppCall
<1>4. CASE u = t /\ InitBuiltin(t)
  <2>1. arg'[t].handle = Null
    BY <1>0, <1>4 DEF InitBuiltin, Invoke, TypeOK
  <2> QED
    BY <1>4, <2>1, LoaderAssumption DEF PluginHandles
<1>5. CASE u = t /\ EntryRegisters(t)
  <2>1. /\ phase = "entry" /\ nth' = nth + 1 /\ pc[t] = "init"
        /\ phase' = phase /\ file' = file /\ runner' = runner
    BY <1>5 DEF EntryRegisters, InLoader, Invoke
  <2>2. arg'[t].handle = HandleOf[file]
    BY <1>0, <1>5 DEF EntryRegisters, Invoke, TypeOK
  <2>3. nth' >= 2
    BY <1>0, <2>1 DEF LoaderTypeOK
  <2>4. t = runner
    BY <1>0, <2>1 DEF OnceInv
  <2> QED
    BY <1>5, <2>1, <2>2, <2>3, <2>4
<1> QED
  BY <1>0, <1>1, <1>2, <1>3, <1>4, <1>5, CallOrigin

(* A file that has registered an engine is not closed any more.            *)
LEMMA SettledKept ==
    ASSUME PluginInv, FailsAtFirst', NEW t \in Threads, ThreadStep(t),
           NEW f, Settled(f)
    PROVE  Settled(f)'
<1>0. /\ TypeOK /\ OnceInv /\ CallInv /\ LoaderTypeOK /\ ProgressInv
  BY DEF PluginInv, LoaderInv, IInv
<1>1. f \in loaded /\ f \in Loadable /\ f # Null /\ f \notin unread
  BY <1>0, LoaderAssumption DEF Settled, LoaderTypeOK, ProgressInv
<1>2. CASE f # file
  <2>1. f \in loaded' /\ f # file'
    BY <1>1, <1>2
    DEF ThreadStep, AppCall, TableOnly, LoaderStep, OpenDir, OpenDirFails,
        SkipName, PathNoMemory, LoadFails, Enter, Read, EntryRegisters, InLoader,
        EntryResult, EntrySucceeds, EntryFails, CloseDir, LoaderDone, loaderVars
  <2> QED
    BY <2>1 DEF Settled
<1>3. CASE f = file
  <2>1. /\ phase = "entry" /\ nth \in Nat
        /\ \/ nth >= 3
           \/ nth = 2 /\ pc[runner] = "init"
           \/ nth = 2 /\ pc[runner] = "return" /\ ret[runner] = 0
    BY <1>0, <1>3 DEF Settled, LoaderTypeOK
  <2>2. runner \in Threads /\ once = "running"
    BY <1>0, <2>1 DEF LoaderTypeOK, TypeOK, OnceInv
  <2>3. runner' = runner
    BY <2>1, <2>2, RunnerKept DEF OnceRun, LoaderDone
  <2>4. CASE t # runner
    <3>1. UNCHANGED loaderVars
      BY <1>0, <2>4, LoaderIsRunner
    <3>2. pc'[runner] = pc[runner] /\ ret'[runner] = ret[runner]
      BY <1>0, <2>2, <2>4, RegistryStep, OthersKept, ResultKept DEF vars
    <3> QED
      BY <1>1, <1>3, <2>1, <2>3, <3>1, <3>2 DEF Settled, loaderVars
  <2>5. CASE t = runner
    <3>1. \/ AppCall(t) \/ TableOnly(t)
          \/ EntryRegisters(t) \/ EntryResult(t) \/ EntrySucceeds(t)
      BY <2>1
      DEF ThreadStep, LoaderStep, OpenDir, OpenDirFails, SkipName, PathNoMemory,
          LoadFails, Enter, Read, InLoader, EntryFails, CloseDir, LoaderDone
    <3>2. CASE AppCall(t) \/ TableOnly(t)
      <4>1. nth >= 3
        BY <1>0, <2>1, <2>5, <3>2
        DEF AppCall, TableOnly, TableStep, WrLock, RegisterSpare, RegisterReplace,
            RegisterSkip, RegisterAbsent, RegisterNoMemory, RegisterInsert,
            UnregisterClear, UnregisterSkip, UnregisterAbsent, PurgeClear,
            PurgeSkip, PurgeDone, OnceRun, OnceSkip, InitBuiltin, RdLock,
            LookupHit, LookupSkip, LookupMiss, Construct, ConstructFails,
            InLoop, LoopDone, ProgressInv, TypeOK
      <4> QED
        BY <1>1, <1>3, <2>1, <3>2, <4>1 DEF AppCall, TableOnly, loaderVars, Settled
    <3>3. CASE EntryRegisters(t)
      <4>1. nth' >= 3 /\ UNCHANGED <<phase, file, loaded>>
        BY <2>1, <3>3 DEF EntryRegisters
      <4> QED
        BY <1>1, <2>1, <4>1 DEF Settled
    <3>4. CASE EntryResult(t)
      <4>1. pc[t] = "return" /\ pc'[t] = "init" /\ UNCHANGED <<file, nth, loaded>>
        BY <1>0, <2>1, <2>5, <3>4 DEF EntryResult, Collect, TypeOK
      <4>2. phase' = IF ret[t] = 0 THEN "entry" ELSE "failed"
        BY <3>4 DEF EntryResult
      <4>3. phase' = "entry"
        BY <2>1, <2>5, <4>1, <4>2 DEF FailsAtFirst
      <4> QED
        BY <1>1, <1>3, <2>1, <2>3, <2>5, <4>1, <4>3 DEF Settled
    <3>5. CASE EntrySucceeds(t)
      BY <1>1, <3>5 DEF EntrySucceeds, Settled
    <3> QED
      BY <3>1, <3>2, <3>3, <3>4, <3>5
  <2> QED
    BY <2>4, <2>5
<1> QED
  BY <1>2, <1>3

(* An engine is in the table because it was, or because mq_register() has  *)
(* just put it there.                                                      *)
LEMMA EngineOrigin ==
    ASSUME IInv, NEW t \in Threads, Call(t) \/ Step(t), NEW i \in Occupied'
    PROVE  \/ i \in Occupied /\ engines'[i].handle = engines[i].handle
           \/ /\ RegisterReplace(t) \/ RegisterInsert(t)
              /\ engines'[i].handle = arg[t].handle
<1>0. /\ engines \in Seq(Slot \cup {EmptySlot}) /\ Len(engines) \in Nat
      /\ c[t] \in Nat \ {0} /\ spare[t] \in Nat
      /\ engines' \in Seq(Slot \cup {EmptySlot})
  BY TableType DEF IInv, TypeOK
<1>1. i \in 1..Len(engines') /\ ~Vacant(engines'[i])
  BY DEF Occupied, Vacant
<1>2. CASE engines' = engines
  BY <1>1, <1>2 DEF Occupied
<1>3. CASE RegisterReplace(t)
  <2>1. arg[t] \in Slot /\ c[t] \in 1..Len(engines)
    BY <1>0, <1>3 DEF IInv, CallInv, CallFrame, RegisterReplace, InLoop
  <2>2. /\ i \in 1..Len(engines) /\ engines'[i].scheme = engines[i].scheme
        /\ i # c[t] => engines'[i] = engines[i]
        /\ engines'[c[t]].handle = arg[t].handle
    BY <1>0, <1>1, <1>3, <2>1 DEF RegisterReplace, Slot, EmptySlot
  <2> QED
    BY <1>1, <1>3, <2>2 DEF Occupied, Vacant
<1>4. CASE RegisterInsert(t)
  <2>1. spare[t] # 0 => spare[t] \in 1..Len(engines)
    BY <1>0, <1>4
    DEF IInv, CallInv, CallFrame, RegisterInv, RegisterLoop, RegisterInsert
  <2>2. \/ i \in 1..Len(engines) /\ engines'[i] = engines[i]
        \/ engines'[i] = arg[t]
    BY <1>0, <1>1, <1>4, <2>1 DEF RegisterInsert
  <2> QED
    BY <1>1, <1>4, <2>2 DEF Occupied
<1>5. CASE UnregisterClear(t) \/ PurgeClear(t)
  <2>1. i \in 1..Len(engines) /\ (engines'[i] = engines[i] \/ engines'[i] = EmptySlot)
    BY <1>0, <1>1, <1>5 DEF UnregisterClear, PurgeClear, InLoop
  <2> QED
    BY <1>1, <2>1 DEF Occupied, Vacant, EmptySlot
<1> QED
  BY <1>2, <1>3, <1>4, <1>5, TableWriters

LEMMA PluginsSettledStep ==
    ASSUME PluginInv, FailsAtFirst', NEW t \in Threads, ThreadStep(t)
    PROVE  PluginsSettled'
<1> SUFFICES ASSUME NEW i \in Occupied', engines'[i].handle \in PluginHandles
             PROVE  \E f \in loaded' : /\ Settled(f)'
                                       /\ HandleOf[f] = engines'[i].handle
  BY DEF PluginsSettled, PluginHandles
<1>0. /\ IInv /\ TypeOK /\ CallInv /\ LoaderTypeOK /\ EntryCalls /\ PluginsSettled
  BY DEF PluginInv, LoaderInv, IInv
<1>1. CASE i \in Occupied /\ engines'[i].handle = engines[i].handle
  <2>1. PICK f \in loaded : Settled(f) /\ HandleOf[f] = engines[i].handle
    BY <1>0, <1>1 DEF PluginsSettled
  <2>2. Settled(f)'
    BY <2>1, SettledKept
  <2>3. f \in loaded'
    BY <2>2 DEF Settled
  <2> QED
    BY <1>1, <2>1, <2>2, <2>3
<1>2. CASE /\ RegisterReplace(t) \/ RegisterInsert(t)
           /\ engines'[i].handle = arg[t].handle
  <2>1. op[t] = "register"
    BY <1>0, <1>2 DEF RegisterReplace, RegisterInsert, InLoop, CallInv, CallFrame
  <2>2. /\ t = runner /\ phase = "entry" /\ nth \in Nat /\ nth >= 2
        /\ arg[t].handle = HandleOf[file]
    BY <1>0, <1>2, <2>1 DEF EntryCalls, LoaderTypeOK
  <2>3. file \in loaded
    BY <1>0, <2>2 DEF LoaderTypeOK
  <2>4. /\ pc[t] \in {"scan", "insert"} /\ pc'[t] = "return" /\ ret'[t] = 0
        /\ runner' = runner
    BY <1>0, <1>2 DEF RegisterReplace, RegisterInsert, InLoop, Return, TypeOK
  <2>5. UNCHANGED loaderVars
    BY <2>4
    DEF ThreadStep, AppCall, TableOnly, LoaderStep, OpenDir, OpenDirFails,
        SkipName, PathNoMemory, LoadFails, Enter, Read, EntryRegisters, InLoader,
        EntryResult, EntrySucceeds, EntryFails, CloseDir, LoaderDone, InitDone,
        Collect
  <2>6. Settled(file)'
    BY <2>2, <2>3, <2>4, <2>5 DEF Settled, loaderVars
  <2> QED
    BY <1>2, <2>2, <2>3, <2>5, <2>6 DEF loaderVars
<1>3. CASE UNCHANGED vars
  <2>1. i \in Occupied /\ engines'[i].handle = engines[i].handle
    BY <1>3 DEF vars, Occupied, Vacant
  <2> QED
    BY <1>1, <2>1
<1> QED
  BY <1>0, <1>1, <1>2, <1>3, RegistryStep, EngineOrigin

LEMMA InitPluginInv == LoaderInit => PluginInv
<1> SUFFICES ASSUME LoaderInit
             PROVE  PluginInv
  OBVIOUS
<1>1. EntryCalls /\ PluginsSettled
  BY DEF LoaderInit, Init, EntryCalls, PluginsSettled, Occupied
<1> QED
  BY <1>1, InitLoaderInv DEF PluginInv

LEMMA StepPluginInv ==
    PluginInv /\ FailsAtFirst' /\ [LoaderNext]_allVars => PluginInv'
<1> SUFFICES ASSUME PluginInv, FailsAtFirst', [LoaderNext]_allVars
             PROVE  PluginInv'
  OBVIOUS
<1>1. LoaderInv'
  BY StepLoaderInv DEF PluginInv
<1>2. CASE LoaderNext
  <2>1. PICK t \in Threads : ThreadStep(t)
    BY <1>2 DEF LoaderNext, ThreadStep
  <2> QED
    BY <1>1, <2>1, EntryCallsStep, PluginsSettledStep DEF PluginInv
<1>3. CASE UNCHANGED allVars
  <2>1. EntryCalls' /\ PluginsSettled'
    BY <1>3
    DEF allVars, vars, loaderVars, PluginInv, EntryCalls, PluginsSettled,
        Settled, Occupied, Vacant, PluginHandles
  <2> QED
    BY <1>1, <2>1 DEF PluginInv
<1> QED
  BY <1>2, <1>3

(* The only way an engine can outlive the mapping of its code is a plug-in *)
(* that fails after it has registered one: as long as mq_entry() gives up, *)
(* if at all, at its first registration, every engine of a plug-in that is *)
(* in the table is served by a file that is mapped.                        *)
THEOREM PluginCodeMapped == LoaderSpec /\ []FailsAtFirst => []PluginsMapped
<1>1. PluginInv => PluginsMapped
  BY DEF PluginInv, PluginsSettled, PluginsMapped
<1>2. LoaderSpec /\ []FailsAtFirst => []PluginInv
  BY InitPluginInv, StepPluginInv, PTL DEF LoaderSpec
<1> QED
  BY <1>1, <1>2, PTL

(* Plug-ins that register one scheme at most, as queues/random.c does,     *)
(* cannot fail later than that.                                            *)
THEOREM OneSchemeMapped ==
    ASSUME OneSchemeEach
    PROVE  LoaderSpec => []PluginsMapped
<1>1. LoaderInv => FailsAtFirst
  <2> SUFFICES ASSUME LoaderInv, phase = "failed"
               PROVE  nth <= 2
    BY DEF FailsAtFirst
  <2>1. file \in Loadable /\ nth \in 1..(Len(Wants[file]) + 1)
    BY DEF LoaderInv, LoaderTypeOK
  <2>2. Len(Wants[file]) \in Nat /\ Len(Wants[file]) <= 1
    BY <2>1, LoaderAssumption DEF OneSchemeEach
  <2> QED
    BY <2>1, <2>2
<1> QED
  BY <1>1, LoaderInvariant, PluginCodeMapped, PTL
=============================================================================
