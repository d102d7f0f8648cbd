----------------------------- MODULE Deployment -----------------------------
(***************************************************************************)
(* What the validators of AppConfig (config.py) are for: a configuration   *)
(* they accept can be deployed.  Every bridge serves on its own serial     *)
(* port or TCP address, and every process has a metrics endpoint.  Nobody  *)
(* reports a bind that failed: pymodbus hangs silently, and the metrics    *)
(* endpoint retries for ever, so a conflict has to be refused at load time.*)
(*                                                                         *)
(* A deployment is one process with every bridge ("run") or one systemd    *)
(* instance per bridge ("run --bridge").  Processes start in any order and *)
(* may be restarted.                                                       *)
(***************************************************************************)
EXTENDS Naturals, FiniteSets

CONSTANTS
    EnabledBridges, \* bridges with enabled = true
    SerialPorts,
    Hosts,          \* addresses to listen on
    AnyHost,        \* the wildcard among them
    TcpPorts

ASSUME WildcardIsAHost == AnyHost \in Hosts

VARIABLES
    dtsu,        \* [bridge -> its output transport]
    metricsPort, \* [bridge -> metrics_port, 0 where it is not set]
    prometheus,  \* the process-wide metrics settings
    stage,       \* "file", "refused", "together", "instances"
    bound,       \* endpoints some process listens on
    blocked      \* endpoints whose bind failed

config == <<dtsu, metricsPort, prometheus>>
deployVars == <<config, stage, bound, blocked>>

Outputs ==
    [transport : {"rtu"}, port : SerialPorts]
      \cup [transport : {"tcp"}, host : Hosts, port : TcpPorts]

DeployInit ==
    /\ dtsu \in [EnabledBridges -> Outputs]
    /\ metricsPort \in [EnabledBridges -> TcpPorts \cup {0}]
    /\ prometheus \in [enabled : BOOLEAN, host : Hosts, port : TcpPorts]
    /\ stage = "file"
    /\ bound = {} /\ blocked = {}

-----------------------------------------------------------------------------
(* The validators.                                                         *)

Tcp(bridge) == dtsu[bridge].transport = "tcp"

HostsOverlap(a, b) == a = b \/ a = AnyHost \/ b = AnyHost

\* _check_output_transports_do_not_collide: serial ports, and (host, port)
\* pairs, must differ.
OutputsDistinct == \A b, c \in EnabledBridges : b # c => dtsu[b] # dtsu[c]

\* Mutant of MetricsPortFree: hosts must be equal to collide.
MetricsPortFreeSameHost ==
    prometheus.enabled =>
        \A b \in EnabledBridges : Tcp(b) =>
            ~(dtsu[b].port = prometheus.port /\ dtsu[b].host = prometheus.host)

\* _check_metrics_port_free.
MetricsPortFree ==
    prometheus.enabled =>
        \A b \in EnabledBridges : Tcp(b) =>
            ~(dtsu[b].port = prometheus.port /\ HostsOverlap(dtsu[b].host, prometheus.host))

\* Mutant of MetricsPortsDistinct: the ports are not compared with each other.
MetricsPortsUnrelated ==
    \A b, c \in EnabledBridges :
        Tcp(c) /\ metricsPort[b] = dtsu[c].port => ~HostsOverlap(dtsu[c].host, prometheus.host)

\* _check_per_bridge_metrics_ports: the ports that are set differ, and none is
\* the port of a TCP output.
MetricsPortsDistinct ==
    /\ \A b, c \in EnabledBridges :
         b # c /\ metricsPort[b] # 0 => metricsPort[b] # metricsPort[c]
    /\ \A b, c \in EnabledBridges :
         Tcp(c) /\ metricsPort[b] = dtsu[c].port => ~HostsOverlap(dtsu[c].host, prometheus.host)

Accepted == OutputsDistinct /\ MetricsPortFree /\ MetricsPortsDistinct

-----------------------------------------------------------------------------
(* The processes.                                                          *)

Processes == IF stage = "together" THEN {EnabledBridges} ELSE {{b} : b \in EnabledBridges}

\* metrics_port_for, for the process that runs these bridges.
MetricsPortFor(process) ==
    IF stage = "together" THEN prometheus.port
    ELSE LET b == CHOOSE b \in EnabledBridges : process = {b}
         IN IF metricsPort[b] # 0 THEN metricsPort[b] ELSE prometheus.port

OutputOf(bridge, process) == [kind |-> "output", of |-> process, bridge |-> bridge, at |-> dtsu[bridge]]

MetricsOf(process) ==
    [kind |-> "metrics", of |-> process,
     at |-> [transport |-> "tcp", host |-> prometheus.host, port |-> MetricsPortFor(process)]]

Endpoints(process) ==
    {OutputOf(b, process) : b \in process}
      \cup (IF prometheus.enabled THEN {MetricsOf(process)} ELSE {})

\* External: the operating system refuses the second of two overlapping binds.
Conflict(e, f) ==
    /\ e # f
    /\ e.at.transport = f.at.transport
    /\ e.at.port = f.at.port
    /\ e.at.transport = "tcp" => HostsOverlap(e.at.host, f.at.host)

LoadConfig ==
    /\ stage = "file"
    /\ stage' \in IF Accepted THEN {"together", "instances"} ELSE {"refused"}
    /\ UNCHANGED <<config, bound, blocked>>

\* An endpoint binds, at once or when it is retried.
Bind ==
    /\ stage \in {"together", "instances"}
    /\ \E process \in Processes : \E e \in Endpoints(process) :
         /\ e \notin bound
         /\ IF \E f \in bound : Conflict(e, f)
            THEN blocked' = blocked \cup {e} /\ UNCHANGED bound
            ELSE bound' = bound \cup {e} /\ blocked' = blocked \ {e}
    /\ UNCHANGED <<config, stage>>

\* A process ends and is started again.
RestartProcess ==
    /\ stage \in {"together", "instances"}
    /\ \E process \in Processes :
         /\ bound' = bound \ Endpoints(process)
         /\ blocked' = blocked \ Endpoints(process)
    /\ UNCHANGED <<config, stage>>

DeployNext == LoadConfig \/ Bind \/ RestartProcess

DeploySpec == DeployInit /\ [][DeployNext]_deployVars

-----------------------------------------------------------------------------
(* Properties.                                                             *)

\* "Two bridges must not share an output transport."  No accepted
\* configuration, however deployed, makes two servers fight over a serial port;
\* two TCP outputs do collide, but only where one of them listens on the
\* wildcard address, which the validator takes for a host like any other.  A
\* metrics endpoint never takes the address of an output, of its own process
\* or of another, whichever starts first.
OutputsAreExclusive ==
    \A e \in blocked : \A f \in bound : Conflict(e, f) /\ "output" \in {e.kind, f.kind} =>
        /\ e.kind = "output" /\ f.kind = "output" /\ e.at.transport = "tcp"
        /\ AnyHost \in {e.at.host, f.at.host} /\ e.at.host # f.at.host

\* "Two bridges run as separate services must not share a metrics port": they
\* do only where one of them has none of its own and falls back to the
\* process-wide one.
MetricsAreExclusive ==
    \A e \in blocked : \A f \in bound : Conflict(e, f) /\ e.kind = "metrics" =>
        /\ f.kind = "metrics" /\ stage = "instances"
        /\ \E b \in e.of \cup f.of : metricsPort[b] = 0
=============================================================================
