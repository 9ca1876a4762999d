------------------------------ MODULE Startup ------------------------------
(***************************************************************************)
(* Start-up: main.py reads and checks the options, starts the panel and    *)
(* the ventilator one after the other, waiting in each for its lines, and  *)
(* only then tries the MQTT broker, once.  Once the panel's tasks run, and *)
(* the handshake with Home Assistant has let the synchronizer pass, the    *)
(* exchanges of Addressing take place.                                     *)
(***************************************************************************)
EXTENDS Addressing

CONSTANT Options    \* the contents of options.json and of the environment

Entries == {"file", "serial_port", "socket_host", "socket_port",
            "controller_port", "ventilator_port", "mqtt_host", "mqtt_credentials"}

ASSUME OptionsAssumption ==
    Options \subseteq [wallpad : BOOLEAN, comm : {"serial", "socket"},
                       ventilator : BOOLEAN, ventilator_comm : {"serial", "socket"},
                       given : SUBSET Entries]

VARIABLES
    options,        \* AppConfig
    stage,          \* where main stands
    backoff,        \* main sleeps before it tries the line again
    routes,         \* the parts that have registered their topics and callbacks
    running,        \* the parts whose tasks run; "panel" also says _loop is set
    session,        \* the connection to the broker
    subscribed,     \* the parts whose topics the broker delivers
    echo,           \* the echo of the panel's discovery is on its way
    polling         \* StateSynchronizer.run has got past ha_ready

startup == <<options, stage, backoff, routes, running, session, subscribed, echo, polling>>
svars == <<startup, house, exchange>>

Has(entries) == entries \subseteq options.given

-----------------------------------------------------------------------------
(* AppConfig.validate and the transports *)

\* The wall pad's line is checked whether the wall pad is enabled or not; the
\* port of a socket is not checked.  Without a file there is no mqtt_config.
Valid ==
    /\ Has({"file"})
    /\ options.comm = "serial" => Has({"serial_port"})
    /\ options.comm = "socket" => Has({"socket_host"})
    /\ options.ventilator => /\ options.ventilator_comm # "socket"
                             /\ Has({"controller_port", "ventilator_port"})

\* create_panel_transport raises no assertion.
Buildable == options.comm = "serial" \/ Has({"socket_host", "socket_port"})

\* What the user has asked for, as far as it can be had.
Due ==
    (IF options.wallpad /\ Buildable THEN {"panel"} ELSE {})
    \cup (IF options.ventilator THEN {"ventilator"} ELSE {})

-----------------------------------------------------------------------------
(* main *)

StartInit ==
    /\ Init
    /\ options \in Options
    /\ stage = "options" /\ backoff = FALSE
    /\ routes = {} /\ running = {}
    /\ session = "untried" /\ subscribed = {} /\ echo = FALSE /\ polling = FALSE

\* Mutant: the broker is tried before the panel is built.
AfterEager(s) ==
    [options |-> "mqtt", mqtt |-> "panel", panel |-> "ventilator", ventilator |-> "gather"][s]

\* The order of main.
After(s) ==
    [options |-> "panel", panel |-> "ventilator", ventilator |-> "mqtt", mqtt |-> "gather"][s]

Unconnected == UNCHANGED <<session, subscribed, echo, polling>>
Goes(place) == stage' = place /\ UNCHANGED <<options, backoff, house, exchange>>

Validate ==
    /\ stage = "options"
    /\ IF Valid THEN Goes(After("options")) /\ routes' = {"bridge"}
                ELSE Goes("refused") /\ UNCHANGED routes
    /\ UNCHANGED running /\ Unconnected

SkipPanel ==
    /\ stage = "panel" /\ ~options.wallpad
    /\ Goes(After("panel"))
    /\ UNCHANGED <<routes, running>> /\ Unconnected

\* Mutant: only OSError is caught.
PanelFailsForAll ==
    /\ stage = "panel" /\ options.wallpad /\ ~Buildable
    /\ Goes("refused")
    /\ UNCHANGED <<routes, running>> /\ Unconnected

\* run_panel catches what create_panel_transport raises.
PanelFails ==
    /\ stage = "panel" /\ options.wallpad /\ ~Buildable
    /\ Goes(After("panel"))
    /\ UNCHANGED <<routes, running>> /\ Unconnected

BuildPanel ==
    /\ stage = "panel" /\ options.wallpad /\ Buildable
    /\ Goes("panel_line")
    /\ routes' = routes \cup {"panel"}
    /\ UNCHANGED running /\ Unconnected

SkipVentilator ==
    /\ stage = "ventilator"
    /\ ~options.ventilator \/ options.ventilator_comm = "socket"
    /\ Goes(After("ventilator"))
    /\ UNCHANGED <<routes, running>> /\ Unconnected

BuildVentilator ==
    /\ stage = "ventilator" /\ options.ventilator /\ options.ventilator_comm # "socket"
    /\ Goes("controller_line")
    /\ routes' = routes \cup {"ventilator"}
    /\ UNCHANGED running /\ Unconnected

\* The lines main waits for, one at a time: the part each belongs to, and what
\* comes next.  The tasks of a part start with its last line.
Lines == {"panel_line", "controller_line", "unit_line"}
NextStage(line) ==
    CASE line = "panel_line" -> After("panel")
      [] line = "controller_line" -> "unit_line"
      [] line = "unit_line" -> After("ventilator")
Started(line) ==
    CASE line = "panel_line" -> {"panel"}
      [] line = "controller_line" -> {}
      [] line = "unit_line" -> {"ventilator"}

Connected(line) ==
    /\ stage = line /\ ~backoff
    /\ Goes(NextStage(line))
    /\ running' = running \cup Started(line)
    /\ UNCHANGED routes /\ Unconnected

\* A line that cannot be opened is tried again after a pause, without end.
ConnectFails ==
    /\ stage \in Lines
    /\ backoff' = ~backoff
    /\ UNCHANGED <<options, stage, routes, running, house, exchange>> /\ Unconnected

\* MqttClient.connect: an exception is logged, and there will be no session.
ConnectBroker ==
    /\ stage = "mqtt"
    /\ Goes(After("mqtt"))
    /\ IF Has({"mqtt_host", "mqtt_credentials"}) THEN session' \in {"failed", "down"}
                                                 ELSE session' = "failed"
    /\ UNCHANGED <<routes, running, subscribed, echo, polling>>

NothingToRun ==
    /\ stage = "gather" /\ running = {}
    /\ Goes("ended")
    /\ session' = "failed" /\ subscribed' = {} /\ echo' = FALSE
    /\ UNCHANGED <<routes, running, polling>>

MainStep ==
    \/ Validate \/ SkipPanel \/ PanelFails \/ BuildPanel
    \/ SkipVentilator \/ BuildVentilator \/ ConnectBroker \/ NothingToRun

-----------------------------------------------------------------------------
(* The MQTT thread *)

\* _on_connect subscribes to whatever is registered by now; the panel's
\* callback publishes its discovery.
SessionUp ==
    /\ session = "down"
    /\ session' = "up" /\ subscribed' = routes /\ echo' = ("panel" \in routes)
    /\ UNCHANGED <<options, stage, backoff, routes, running, polling, house, exchange>>

SessionLost ==
    /\ session = "up"
    /\ session' = "down" /\ subscribed' = {} /\ echo' = FALSE
    /\ UNCHANGED <<options, stage, backoff, routes, running, polling, house, exchange>>

\* handle_echo opens the gate through the panel's loop, if there is one.
Echo ==
    /\ session = "up" /\ echo
    /\ echo' = FALSE
    /\ polling' = (polling \/ "panel" \in running)
    /\ UNCHANGED <<options, stage, backoff, routes, running, session, subscribed, house, exchange>>

-----------------------------------------------------------------------------

\* What the panel exchanges on its bus: it listens from the start of its
\* tasks, polls behind the gate, and takes debug frames from the broker.
PanelWorks ==
    /\ "panel" \in running
    /\ \/ polling /\ \E c \in Controllers : Ask(c)
       \/ "panel" \in subscribed /\ \E kind \in Kinds, a \in Addresses : AskForHa(kind, a)
       \/ Answer
       \/ \E f \in Frame : Overhear(f)
       \/ Hear
       \/ Unanswered
    /\ UNCHANGED startup

StartNext ==
    \/ MainStep
    \/ \E line \in Lines : Connected(line)
    \/ ConnectFails
    \/ SessionUp \/ SessionLost \/ Echo
    \/ PanelWorks

\* main and the loop do not stop; of the attempts on a line one succeeds; an
\* echo that can arrive arrives.
StartFairness ==
    /\ WF_svars(MainStep)
    /\ WF_svars(backoff /\ ConnectFails)
    /\ \A line \in Lines : SF_svars(Connected(line))
    /\ WF_svars(Echo)

StartSpec == StartInit /\ [][StartNext]_svars /\ StartFairness

-----------------------------------------------------------------------------

\* Whenever there is a session, the broker delivers the topics of every part
\* that was asked for, and the tasks of all of them run: nothing is registered
\* after the subscription of _on_connect (the order of main.py).
SessionComplete ==
    session = "up" => subscribed = {"bridge"} \cup Due /\ running = Due

\* The handshake succeeds with the first session that lasts: its echo finds
\* the panel's event loop (handle_echo drops one that does not).
PollingStarts ==
    (session = "up" /\ "panel" \in Due) ~> (polling \/ session # "up")

\* Every part that was asked for gets to run, whatever becomes of the other
\* one: run_panel and run_ventilator keep their exceptions to themselves, and
\* the program ends only when there is nothing to do.
EveryPartStarts ==
    \A part \in {"panel", "ventilator"} :
        (stage = "panel" /\ part \in Due) ~> part \in running
=============================================================================
