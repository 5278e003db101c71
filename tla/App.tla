-------------------------------- MODULE App ---------------------------------
(***************************************************************************)
(* The main task: AppConfig::load and the command line (crates/config,     *)
(* crates/cli), then run_with_state (crates/api), over the backend of the  *)
(* mode: QQBackend's, OneBotBackend's or none.  There is only ever one, so *)
(* both keep their flags, calls and listeners in the same variables.  It   *)
(* is called one call at a time: 1 is connect, 2 listen and 3 disconnect,  *)
(* so MaxCalls has to be 3.                                                *)
(* Only the settings the control depends on are here.                      *)
(***************************************************************************)
EXTENDS QQBackend, FiniteSets, Sequences

CONSTANT MaxPerLayer  \* bound on the settings one layer overrides

ASSUME AppAssumption == MaxPerLayer \in Nat

VARIABLES
  patches,  \* what the file, the environment and the arguments set
  config,   \* the AppConfig so far
  at,       \* where the main task stands
  running   \* runtime_running of the ApiState

mainVars == <<patches, config, at, running>>
appVars == <<mainVars, vars>>

\* Layers in the order they are applied.
Layers == <<"file", "env", "args">>

Keys == {"host", "protocol_mode", "protocol_endpoint",
         "qq_account", "qq_password"}

\* A host is an IP address or a name; a mode that is none of cli's is "mock".
Values == [host |-> {"ip", "name"},
           protocol_mode |-> {"mock", "qq", "onebot"},
           protocol_endpoint |-> {"", "tcp"},
           qq_account |-> {"alice"},
           qq_password |-> {"secret"}]

Default == [host |-> "ip", protocol_mode |-> "mock", protocol_endpoint |-> "",
            qq_account |-> None, qq_password |-> None]

Settable == [file |-> Keys, env |-> Keys,
             args |-> {"host", "protocol_mode", "protocol_endpoint"}]

\* AppConfigPatch: a value for some of the keys.
Patches(keys) ==
  UNION {{p \in [ks -> UNION {Values[k] : k \in ks}] :
            \A k \in ks : p[k] \in Values[k]} :
         ks \in {ks \in SUBSET keys : Cardinality(ks) <= MaxPerLayer}}

AppInit ==
  /\ Init
  /\ callers = "serial"
  /\ credentials = FALSE
  /\ \E f \in Patches(Settable.file), e \in Patches(Settable.env),
        a \in Patches(Settable.args) :
       patches = [file |-> f, env |-> e, args |-> a]
  /\ config = Default
  /\ at = "file"
  /\ running = FALSE

MainGoto(label) == at' = label

\* (mutant) the file is the config
ApplyReplacing(patch) == config' = patch

Apply(patch) ==
  config' = [k \in Keys |-> IF k \in DOMAIN patch THEN patch[k] ELSE config[k]]

\* load_file and load_env fail as a whole, on a path or a number that does
\* not parse; the arguments were parsed before.
ApplyLayer(i) ==
  /\ at = Layers[i]
  /\ \/ /\ at # "args"
        /\ MainGoto("failed")
        /\ UNCHANGED config
     \/ /\ Apply(patches[at])
        /\ MainGoto(IF i < Len(Layers) THEN Layers[i + 1] ELSE "build")
  /\ UNCHANGED <<patches, running, vars>>

HasProtocol == config.protocol_mode # "mock"

\* Both modes need an endpoint, qq mode the account and the password as well.
HasCredentials == None \notin {config.qq_account, config.qq_password}

\* (mutant) credentials are handed on when both are set, and not asked for
CompleteWithoutLogin == config.protocol_endpoint # ""

Complete == config.protocol_endpoint # ""
              /\ (config.protocol_mode = "qq" => HasCredentials)

BuildBackend ==
  /\ at = "build"
  /\ MainGoto(IF ~HasProtocol THEN "start"
              ELSE IF Complete THEN "connect" ELSE "failed")
  /\ credentials' = (config.protocol_mode = "qq" /\ HasCredentials)
  /\ UNCHANGED <<patches, config, running, callers, flag, callVars, lock,
                 handle, listenerVars, client>>

-----------------------------------------------------------------------------
\* The call of a protocol operation, and the await of its result.
OneBot == INSTANCE OneBotBackend

\* What only QQBackend has.
qqVars == <<credentials, lock, handle, aborted, client>>

CallNumber == [connect |-> 1, listen |-> 2, disconnect |-> 3]

Call ==
  /\ at \in DOMAIN CallNumber
  /\ IF config.protocol_mode = "qq"
       THEN Begin(CallNumber[at])
       ELSE OneBot!Begin(CallNumber[at]) /\ UNCHANGED qqVars
  /\ op'[CallNumber[at]] = at
  /\ UNCHANGED mainVars

Answered(o, result) == at = o /\ pc[CallNumber[o]] = result

Connected ==
  /\ at = "connect"
  /\ \/ Answered(at, "ok") /\ MainGoto("start")
     \/ Answered(at, "err") /\ MainGoto("failed")
  /\ UNCHANGED <<patches, config, running, vars>>

\* run_with_state sets the flag first, and an address that does not parse
\* resets it: the backend stays connected.
ParseAddr ==
  /\ at = "start"
  /\ running' = (config.host = "ip")
  /\ MainGoto(IF config.host # "ip" THEN "failed"
              ELSE IF HasProtocol THEN "listen" ELSE "bind")
  /\ UNCHANGED <<patches, config, vars>>

\* A refused listen resets the flag and leaves the backend too.
Listening ==
  /\ at = "listen"
  /\ pc[CallNumber.listen] \in {"ok", "err"}
  /\ running' = Answered(at, "ok")
  /\ MainGoto(IF running' THEN "bind" ELSE "failed")
  /\ UNCHANGED <<patches, config, vars>>

TearDownNext == IF HasProtocol THEN "disconnect" ELSE "stopped"

\* (mutant) a failed bind returns as a failed listen does
BindLeaving ==
  /\ at = "bind"
  /\ \/ MainGoto("serving") /\ UNCHANGED running
     \/ MainGoto("stopped") /\ running' = FALSE
  /\ UNCHANGED <<patches, config, vars>>

Bind ==
  /\ at = "bind"
  /\ \/ MainGoto("serving") /\ UNCHANGED running
     \/ MainGoto(TearDownNext) /\ running' = FALSE
  /\ UNCHANGED <<patches, config, vars>>

\* axum::serve returns.
ServeEnds ==
  /\ at = "serving"
  /\ running' = FALSE
  /\ MainGoto(TearDownNext)
  /\ UNCHANGED <<patches, config, vars>>

\* The result of disconnect is ignored.
Disconnected ==
  /\ at = "disconnect"
  /\ pc[CallNumber.disconnect] \in {"ok", "err"}
  /\ MainGoto("stopped")
  /\ UNCHANGED <<patches, config, running, vars>>

\* What the three status routes say: all of them from the running flag.
LoginStatus == [status |-> "ok", online |-> running,
                retcode |-> IF running THEN 0 ELSE 1201]
GetStatus == [LoginStatus EXCEPT !.status = IF running THEN "ok" ELSE "failed"]
LoginInfo ==
  [status |-> GetStatus.status, online |-> running, retcode |-> GetStatus.retcode,
   user_id |-> IF running THEN "napcat-bot" ELSE "offline"]

Load == (\E i \in 1..Len(Layers) : ApplyLayer(i)) \/ BuildBackend
Run == ParseAddr \/ Listening \/ Bind \/ ServeEnds \/ Disconnected

QQStep ==
  /\ config.protocol_mode = "qq"
  /\ \E p \in Calls : CallStep(p) \/ ListenerStep(p) \/ Die(p)
  /\ UNCHANGED mainVars

OneBotStep ==
  /\ config.protocol_mode = "onebot"
  /\ \E p \in Calls : OneBot!CallStep(p) \/ OneBot!ListenerStep(p)
  /\ UNCHANGED <<mainVars, qqVars>>

AppNext == Load \/ Call \/ Connected \/ Run \/ QQStep \/ OneBotStep

AppSpec == AppInit /\ [][AppNext]_appVars

=============================================================================
