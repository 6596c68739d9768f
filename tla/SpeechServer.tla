----------------------------- MODULE SpeechServer -----------------------------
(***************************************************************************)
(* The life of a SpeechServer (src/server.cc) and its registry of models,  *)
(* which exists three times: SpeechServerInfo loads the models named in    *)
(* the options, SpeechServer takes these over and has others registered by *)
(* the program that embeds it, and Start() copies them to the service that *)
(* answers calls.  A model is the number of its version.  Models are       *)
(* directories: KaldiModel::Read() changes into one to read it, and back.  *)
(***************************************************************************)
EXTENDS Integers, Sequences, Functions, SequencesExt

CONSTANTS
  Languages,
  FileSystem,      \* directories by their path, a sequence of names: whether there is a
                   \* main.conf, and the language and the version of the model
  KaldiModels,     \* the paths named in the options, in order
  Credentials,     \* what the options can ask of clients: "insecure", "tls", "mutual"
  Versions,        \* versions the embedding program registers
  MaxRegistrations \* bound: calls of RegisterModel()

ASSUME ServerAssumption ==
  /\ <<>> \in DOMAIN FileSystem
  /\ \A dir \in DOMAIN FileSystem : /\ dir \in Seq(STRING) /\ FileSystem[dir].conf \in BOOLEAN
                                    /\ FileSystem[dir].language \in Languages
                                    /\ FileSystem[dir].version \in Nat \ {0}
  /\ KaldiModels \in Seq(DOMAIN FileSystem)
  /\ Credentials \subseteq {"insecure", "tls", "mutual"}
  /\ Versions \subseteq Nat \ {0} /\ MaxRegistrations \in Nat

VARIABLES
  server,          \* "starting", "loading", "reading", "ready", "serving", "unbound" (BuildAndStart() gave no
                   \* server), "draining", "stopped", "failed" or "crashed"
  credentials,     \* of the port it listens to
  cwd, oldpwd,     \* directory of the process, and the one that ScopedChdir returns to
  n_loaded,        \* models of the options that have been read
  info_models,     \* SpeechServerInfo::models_, 0 where there is none
  models,          \* SpeechServer::models_
  service_models,  \* SpeechService::models_
  calls            \* history: what RegisterModel() was called with, and when

registry_vars == <<credentials, cwd, oldpwd, n_loaded, info_models, models, service_models, calls>>
server_vars == <<server, registry_vars>>

NoModels == [l \in Languages |-> 0]

ServerInit ==
  /\ server = "starting" /\ credentials \in Credentials /\ cwd = <<>> /\ oldpwd = <<>>
  /\ n_loaded = 0
  /\ info_models = NoModels /\ models = NoModels /\ service_models = NoModels
  /\ calls = <<>>
-------------------------------------------------------------------------------
\* std::map::emplace keeps the model that is there.
Emplace(map, language, version) ==
  IF map[language] # 0 THEN map ELSE [map EXCEPT ![language] = version]

\* SpeechServerInfo: the certificates, if it is to use any, are read first.
ReadCertificates ==
  /\ server = "starting"
  /\ \/ server' = "loading"
     \/ credentials # "insecure" /\ server' = "failed"
  /\ UNCHANGED registry_vars

\* SpeechServerInfo: the next path of the options.  ScopedChdir changes into it, if there
\* is such a directory; an exception leaves main().
EnterModel ==
  /\ server = "loading" /\ n_loaded < Len(KaldiModels)
  /\ LET dir == cwd \o KaldiModels[n_loaded + 1]
     IN \/ /\ dir \in DOMAIN FileSystem
           /\ cwd' = dir /\ oldpwd' = cwd /\ server' = "reading"
        \/ server' = "failed" /\ UNCHANGED <<cwd, oldpwd>>
  /\ UNCHANGED <<credentials, n_loaded, info_models, models, service_models, calls>>

\* KaldiModel::Read(): there may be no main.conf, or files that cannot be read.  What it
\* names is relative to the directory, and is read whatever KaldiModelConfig::Check()
\* would say of it, which is not called.  The directory is changed back either way.
ReadModel ==
  /\ server = "reading"
  /\ \/ /\ FileSystem[cwd].conf
        /\ info_models' = Emplace(info_models, FileSystem[cwd].language,
                                  FileSystem[cwd].version)
        /\ n_loaded' = n_loaded + 1 /\ server' = "loading"
     \/ server' = "failed" /\ UNCHANGED <<n_loaded, info_models>>
  /\ cwd' = oldpwd
  /\ UNCHANGED <<credentials, oldpwd, models, service_models, calls>>

\* SpeechServer: the constructor registers what was loaded.
ConstructServer ==
  /\ server = "loading" /\ n_loaded = Len(KaldiModels)
  /\ models' = info_models
  /\ server' = "ready"
  /\ UNCHANGED <<credentials, cwd, oldpwd, n_loaded, info_models, service_models, calls>>

\* Seeded fault: the service of a started server is given the model, too.
RegisterModelAnyTime(language, version) ==
  /\ server \in {"ready", "serving"} /\ Len(calls) < MaxRegistrations
  /\ models' = [models EXCEPT ![language] = version]
  /\ service_models' = IF server = "serving"
                         THEN [service_models EXCEPT ![language] = version]
                         ELSE service_models
  /\ calls' = Append(calls, [language |-> language, version |-> version,
                             before |-> server = "ready"])
  /\ UNCHANGED <<server, credentials, cwd, oldpwd, n_loaded, info_models>>

\* RegisterModel() overwrites; of a server that has started it only warns.
RegisterModel(language, version) ==
  /\ server \in {"ready", "serving"} /\ Len(calls) < MaxRegistrations
  /\ models' = [models EXCEPT ![language] = version]
  /\ calls' = Append(calls, [language |-> language, version |-> version,
                             before |-> server = "ready"])
  /\ UNCHANGED <<server, credentials, cwd, oldpwd, n_loaded, info_models, service_models>>

\* Start() makes the service with the models of the moment.  BuildAndStart() gives no
\* server if it cannot listen, which is not looked at.
Start ==
  /\ server = "ready"
  /\ service_models' = models
  /\ server' \in {"serving", "unbound"}
  /\ UNCHANGED <<credentials, cwd, oldpwd, n_loaded, info_models, models, calls>>

\* Wait() and Shutdown() call through a null pointer then.
WaitUnbound ==
  /\ server = "unbound"
  /\ server' = "crashed"
  /\ UNCHANGED registry_vars

\* Shutdown() refuses new calls and waits for those that run.
Shutdown ==
  /\ server = "serving"
  /\ server' = "draining"
  /\ UNCHANGED registry_vars

Stop(calls_running) ==
  /\ server = "draining" /\ ~calls_running
  /\ server' = "stopped"
  /\ UNCHANGED registry_vars

\* CreateSpeechServerCredentials(): who can connect.  "mutual" is tls_require_client_cert.
Admits(channel) == credentials = channel

Accepting == server = "serving"
Serving == server \in {"serving", "draining"}

RunServer == ReadCertificates \/ EnterModel \/ ReadModel \/ ConstructServer \/ Start \/ WaitUnbound
EmbedServer == \/ \E l \in Languages, v \in Versions : RegisterModel(l, v)
               \/ Shutdown
-------------------------------------------------------------------------------
\* Properties

ServerType ==
  /\ server \in {"starting", "loading", "reading", "ready", "serving", "unbound", "draining",
                 "stopped", "failed", "crashed"}
  /\ credentials \in Credentials /\ {cwd, oldpwd} \subseteq DOMAIN FileSystem
  /\ n_loaded \in 0 .. Len(KaldiModels)
  /\ info_models \in [Languages -> Nat] /\ models \in [Languages -> Nat]
  /\ service_models \in [Languages -> Nat]
  /\ calls \in Seq([language: Languages, version: Nat, before: BOOLEAN])

\* The last model registered for a language before Start(); without one the first that
\* the options name, by paths that are relative to where the process was started; or none.
Registered(l) ==
  LET registered == {i \in DOMAIN calls : calls[i].language = l /\ calls[i].before}
      named == {i \in DOMAIN KaldiModels : FileSystem[KaldiModels[i]].language = l}
  IN IF registered # {} THEN calls[Max(registered)].version
     ELSE IF named # {} THEN FileSystem[KaldiModels[Min(named)]].version ELSE 0

\* Whatever the program registers, and when, the service has that model for a language:
\* server.h, "overwrites the old model" and "No models registered with RegisterModel()
\* after Start() is called will be used".
ServiceModelsAreRegistered ==
  Serving => \A l \in Languages : service_models[l] = Registered(l)
===============================================================================
