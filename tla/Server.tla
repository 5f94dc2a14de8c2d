------------------------------- MODULE Server -------------------------------
(***************************************************************************)
(* The process around the handlers: main reads and validates the           *)
(* configuration, creates the server of cmd/server, serves requests from a *)
(* goroutine of net/http and waits for a signal to shut down.              *)
(*                                                                         *)
(* A setting is a sequence of at most one value: <<>> when it is not       *)
(* given.  Ports are numbers; one that is empty or not a number is refused *)
(* by strconv.Atoi as 0 is by the range, and stands as 0 here.             *)
(***************************************************************************)
EXTENDS BidRequestHandler

CONSTANTS
    Setups,       \* what the environment variables and the file may say
    MaxSignals    \* bound: SIGINTs and SIGTERMs sent to the process

Given(values) == {s \in Seq(values) : Len(s) <= 1}

ASSUME SetupsAssumption ==
    LET settings == [port : Given(Int), environment : Given(STRING)]
    IN  Setups \subseteq
            [variables : settings, file : {"missing", "broken", "read"}, settings : settings]
ASSUME SignalsAssumption == MaxSignals \in Nat

VARIABLES
    setup,        \* what they say in this execution
    config,       \* config.Config: <<>> while nil
    stage,        \* where main is
    listener,     \* the goroutine of ListenAndServe
    connected,    \* requests whose connection the server accepted
    signals,      \* what the channel of signals holds
    told,         \* signals sent so far
    exit          \* the process's exit code, "none" while it runs

process == <<setup, config, stage, listener, connected, signals, told, exit>>
serverVars == <<vars, process>>

ServerInit ==
    /\ Init
    /\ setup \in Setups
    /\ config = <<>>
    /\ stage = "loading"
    /\ listener = "none"
    /\ connected = {}
    /\ signals = 0
    /\ told = 0
    /\ exit = "none"

Up == exit = "none"

-----------------------------------------------------------------------------
(* Configuration: a variable wins over the file, the file over the default. *)

Ports == 1 .. 65535
Environments == {"development", "staging", "production", "test"}
Defaults == [port |-> 8080, environment |-> "development"]

Setting(name) ==
    LET inFile == IF setup.file = "read" THEN setup.settings[name] ELSE <<>>
        given == setup.variables[name] \o inFile
    IN  IF given = <<>> THEN Defaults[name] ELSE Head(given)

Loaded == [port |-> Setting("port"), environment |-> Setting("environment")]

Accepted(c) == c.port \in Ports /\ c.environment \in Environments

\* Variant: a configuration that is not validated.
LoadUnvalidated ==
    /\ Up /\ stage = "loading"
    /\ setup.file # "broken"
    /\ config' = <<Loaded>>
    /\ stage' = "creating"
    /\ UNCHANGED <<vars, setup, listener, connected, signals, told, exit>>

\* A missing file is no error.
Load ==
    /\ Up /\ stage = "loading"
    /\ setup.file # "broken"
    /\ config' = <<Loaded>>
    /\ IF Accepted(Loaded)
       THEN stage' = "creating" /\ UNCHANGED exit
       ELSE exit' = "1" /\ UNCHANGED stage
    /\ UNCHANGED <<vars, setup, listener, connected, signals, told>>

\* ReadInConfig or Unmarshal fails, and Config stays nil.
LoadFails ==
    /\ Up /\ stage = "loading"
    /\ setup.file = "broken"
    /\ exit' = "1"
    /\ UNCHANGED <<vars, setup, config, stage, listener, connected, signals, told>>

-----------------------------------------------------------------------------
(* Start-up, the listener and the shutdown.                                *)

\* NewServer: from here on signals go to the channel.  Its check of a nil
\* configuration never fires: main left when LoadConfig failed.
NewServer ==
    /\ Up /\ stage = "creating"
    /\ config # <<>>
    /\ stage' = "created"
    /\ UNCHANGED <<vars, setup, config, listener, connected, signals, told, exit>>

Start ==
    /\ Up /\ stage = "created"
    /\ stage' = "waiting"
    /\ listener' = "starting"
    /\ UNCHANGED <<vars, setup, config, connected, signals, told, exit>>

Stopping == stage \in {"stopping", "draining"}

\* ListenAndServe looks for a shutdown before and after it binds the address.
Listen ==
    /\ Up /\ listener = "starting"
    /\ listener' = IF Stopping THEN "closed" ELSE "serving"
    /\ UNCHANGED <<vars, setup, config, stage, connected, signals, told, exit>>

\* The address cannot be bound, which is fatal also after the shutdown began,
\* or accepting fails while the server serves.
ListenFails ==
    /\ Up /\ listener \in {"starting", "serving"}
    /\ listener' = "failed"
    /\ exit' = "1"
    /\ UNCHANGED <<vars, setup, config, stage, connected, signals, told>>

\* Variant: a channel of signals without a buffer.
SignalUnbuffered ==
    /\ Up /\ told < MaxSignals
    /\ told' = told + 1
    /\ IF stage \in {"loading", "creating"}
       THEN exit' = "killed" /\ UNCHANGED signals
       ELSE signals' = (IF stage = "waiting" THEN 1 ELSE signals) /\ UNCHANGED exit
    /\ UNCHANGED <<vars, setup, config, stage, listener, connected>>

\* Before signal.Notify a signal ends the process; later it is dropped when
\* the channel is full.
Signal ==
    /\ Up /\ told < MaxSignals
    /\ told' = told + 1
    /\ IF stage \in {"loading", "creating"}
       THEN exit' = "killed" /\ UNCHANGED signals
       ELSE signals' = 1 /\ UNCHANGED exit
    /\ UNCHANGED <<vars, setup, config, stage, listener, connected>>

\* Shutdown closes the listener first.
ReceiveSignal ==
    /\ Up /\ stage = "waiting" /\ signals = 1
    /\ signals' = 0
    /\ stage' = "stopping"
    /\ listener' = IF listener = "serving" THEN "closed" ELSE listener
    /\ UNCHANGED <<vars, setup, config, connected, told, exit>>

\* Connections that are not idle: also those no request has come over yet.
InFlight == {r \in connected : pc[r] # "done"}

\* Variant: a shutdown that waits for no one.
PollIgnoresRequests ==
    /\ Up /\ Stopping
    /\ stage' = "draining"
    /\ exit' = "0"
    /\ UNCHANGED <<vars, setup, config, listener, connected, signals, told>>

\* Shutdown polls until every connection is idle; then main returns.
Poll ==
    /\ Up /\ Stopping
    /\ stage = "stopping" \/ InFlight = {}
    /\ stage' = "draining"
    /\ exit' = IF InFlight = {} THEN "0" ELSE exit
    /\ UNCHANGED <<vars, setup, config, listener, connected, signals, told>>

\* The context ends between two polls, and main's Fatalf with the others.
TimedOut ==
    /\ Up /\ stage = "draining"
    /\ exit' = "1"
    /\ UNCHANGED <<vars, setup, config, stage, listener, connected, signals, told>>

-----------------------------------------------------------------------------
(* Requests.                                                               *)

Connect(r) ==
    /\ Up /\ listener = "serving"
    /\ r \notin connected
    /\ connected' = connected \cup {r}
    /\ UNCHANGED <<vars, setup, config, stage, listener, signals, told, exit>>

\* A new connection that stayed without a request for five seconds.
CloseUnused(r) ==
    /\ Up /\ stage = "draining"
    /\ r \in connected /\ pc[r] = "new"
    /\ connected' = connected \ {r}
    /\ UNCHANGED <<vars, setup, config, stage, listener, signals, told, exit>>

\* Variant: the limiter's refusals are as severe as a broken configuration.
NetworkErrorsCritical(type) ==
    CASE type = "validation" -> "low"
      [] type \in {"network", "configuration"} -> "critical"
      [] OTHER -> "high"

Severity(type) ==
    CASE type = "validation" -> "low"
      [] type = "network" -> "medium"
      [] type = "configuration" -> "critical"
      [] OTHER -> "high"

\* LogError, in WriteErrorResponse: a critical error is logged with Fatal.
ExitAfter(type) == IF Severity(type) = "critical" THEN "1" ELSE exit

\* The limiter's answer goes through WriteErrorResponse.
Request(r) ==
    /\ Up /\ r \in connected
    /\ Arrive(r)
    /\ exit' = IF pc'[r] = "done" THEN ExitAfter("network") ELSE exit
    /\ UNCHANGED <<setup, config, stage, listener, connected, signals, told>>

\* And so does the handler's, to a request it cannot parse.
Work(r) ==
    /\ Up
    /\ Handle(r)
    /\ exit' = IF pc[r] = "failed" THEN ExitAfter("validation") ELSE exit
    /\ UNCHANGED <<setup, config, stage, listener, connected, signals, told>>

Program ==
    \/ Load \/ LoadFails \/ NewServer \/ Start \/ Listen \/ ReceiveSignal
    \/ Poll \/ TimedOut
    \/ \E r \in Requests : CloseUnused(r) \/ Work(r)

World ==
    \/ ListenFails \/ Signal
    \/ Up /\ Refill /\ UNCHANGED process
    \/ \E r \in Requests : Connect(r) \/ Request(r)

ServerNext == Program \/ World

\* The scheduler runs every goroutine that can run, and timers fire.  Nothing
\* is assumed of signals, clients and the network.
ServerSpec == ServerInit /\ [][ServerNext]_serverVars /\ WF_serverVars(Program)

-----------------------------------------------------------------------------
ServerTypeOK ==
    /\ setup \in Setups
    /\ config \in {<<>>, <<Loaded>>}
    /\ stage \in {"loading", "creating", "created", "waiting", "stopping", "draining"}
    /\ listener \in {"none", "starting", "serving", "closed", "failed"}
    /\ connected \subseteq Requests
    /\ signals \in 0 .. 1
    /\ told \in 0 .. MaxSignals
    /\ exit \in {"none", "0", "1", "killed"}

\* The counters stay exact whatever the process is going through, with the
\* types of all variables (handlers/bidrequest.go:33-59).
ServerInv == ServerTypeOK /\ TypeOK /\ StatsExact

\* Requests, probes among them, that their route has and has not answered.
Unanswered == {r \in Requests : pc[r] \notin {"new", "done"}}

\* The process never ends for no reason, and what its end does to clients has
\* a reason too: code 0 only when somebody asked for it and every request that
\* was begun has its answer; 1 only for a bad configuration, a listener that
\* failed, or a shutdown that took too long; no request, however malformed or
\* numerous, ends it.  A signal kills it outright only before it listens, so
\* that the signal cuts nobody off (main.go:11-28, server.go:43-75,
\* errors.go:177-212).
ExitExplained ==
    LET refused == config = <<>> \/ \E c \in {config[1]} : ~Accepted(c)
    IN  /\ exit = "0" => told > 0 /\ Unanswered = {} /\ ~refused
        /\ exit = "1" => refused \/ listener = "failed" \/ (told > 0 /\ Stopping)
        /\ exit = "killed" => told > 0 /\ listener = "none" /\ connected = {}

\* Nobody is served, and no address bound, under a configuration that was not
\* read whole or that validation refuses, although Config is published before
\* it is validated; and the server runs with what its operator asked for: a
\* wrong variable is never replaced by the file's value or the default
\* (config.go:78-130, 190-222).
ServesOnlyValid ==
    listener # "none" =>
        /\ setup.file # "broken"
        /\ config[1].port \in Ports
        /\ config[1].environment \in Environments
        /\ \A name \in DOMAIN Defaults :
            /\ setup.variables[name] # <<>> => config[1][name] = setup.variables[name][1]
            /\ config[1][name] # Defaults[name] =>
                \/ setup.variables[name] # <<>>
                \/ setup.file = "read" /\ setup.settings[name] = <<config[1][name]>>

\* Whoever tells the process to stop sees it end, also when the signal comes
\* before Start waits for it or more than one comes; and no request stays
\* inside a process that goes on (server.go:33-34, 59-75).
SignalHeeded ==
    <>[](/\ told > 0 => exit # "none"
         /\ exit = "none" => Unanswered = {})

=============================================================================
