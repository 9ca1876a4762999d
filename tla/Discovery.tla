------------------------------ MODULE Discovery ------------------------------
(***************************************************************************)
(* Home Assistant (HA) discovery: the MQTT thread publishes one retained   *)
(* config message per entity and takes the broker's echo of the last one   *)
(* as proof that HA knows them all; the echo opens the gate `ha_ready`,    *)
(* through a callback posted to the event loop, for HA's commands and for  *)
(* the synchronizer.                                                       *)
(*                                                                         *)
(* The publications are numbered: publication 0 stands for what an earlier *)
(* run of the program left at the broker.  An MQTT callback is one step.   *)
(* The broker and the network, as the code relies on them: QoS 0, a clean  *)
(* session, messages of one connection in order, and a publisher that is   *)
(* subscribed to a topic receives its own message.                         *)
(***************************************************************************)
EXTENDS Integers, Sequences, Functions

CONSTANTS
    Topics,         \* the config topics, in the order they are published
    Leftovers,      \* the sets of them that an earlier run may have left retained
    MaxOutages,     \* bound: how often the connection is lost
    MaxRequests     \* bound: restart, remove and device commands from HA

ASSUME TopicsAssumption ==
    /\ Topics \in Seq(Range(Topics)) /\ Topics # <<>> /\ "none" \notin Range(Topics)
    /\ \A i, j \in DOMAIN Topics : Topics[i] = Topics[j] => i = j
    /\ Leftovers \subseteq SUBSET Range(Topics)
    /\ MaxOutages \in Nat /\ MaxRequests \in Nat

VARIABLES
    session,        \* "new", "up", "lost", or "dead": paho never got started
    toBroker,       \* messages on their way to the broker
    toClient,       \* messages on their way to the program
    subscribed,     \* the broker's subscription of this session
    leftover,       \* the topics an earlier run left retained
    retained,       \* retained[t]: the newest publication of t the broker has
    published,      \* how many times publish() ran
    removals,       \* the publications that were removals
    expected,       \* expected_echo_topic, "none" for None
    posted,         \* ready.set callbacks waiting in the event loop
    ready,          \* ha_ready
    poller,         \* StateSynchronizer.run: "waiting" or "running"
    outages, requests,
    confirmed,      \* history: the newest publication whose echo was handled
    swept,          \* history: the synchronizer swept since the last publish()
    accepted        \* history: a device command passed since the last publish()

gateVars   == <<expected, posted, ready, poller>>
brokerVars == <<subscribed, leftover, retained>>
history    == <<confirmed, swept, accepted>>
vars == <<session, toBroker, toClient, brokerVars, published, removals, gateVars,
          outages, requests, history>>

TopicSet == Range(Topics)

Config(t, n) == [kind |-> "config", topic |-> t, number |-> n]
Plain(kind) == [kind |-> kind, topic |-> "none", number |-> 0]
Subscribe == Plain("subscribe")

\* The broker keeps t, unless its newest publication is a removal.
Present(t) ==
    IF retained[t] = 0 THEN t \in leftover ELSE retained[t] \notin removals

Init ==
    /\ session = "new" /\ toBroker = <<>> /\ toClient = <<>>
    /\ subscribed = FALSE /\ leftover \in Leftovers /\ retained = [t \in TopicSet |-> 0]
    /\ published = 0 /\ removals = {}
    /\ expected = "none" /\ posted = 0 /\ ready = FALSE /\ poller = "waiting"
    /\ outages = 0 /\ requests = 0
    /\ confirmed = 0 /\ swept = FALSE /\ accepted = FALSE

-----------------------------------------------------------------------------
(* The MQTT thread *)

ExpectedFirst == Head(Topics)   \* mutant: waits for the first topic's echo
ExpectedEcho == Topics[Len(Topics)]

\* The config messages of all devices; `remove` only changes their payloads.
Batch(n) == [i \in DOMAIN Topics |-> Config(Topics[i], n)]

\* HandshakeHaDiscoveryCoordinator.publish, after the messages in `before`.
Publish(before, removing) ==
    /\ published' = published + 1
    /\ removals' = IF removing THEN removals \cup {published'} ELSE removals
    /\ ready' = FALSE /\ expected' = ExpectedEcho
    /\ toBroker' = before \o Batch(published')
    /\ swept' = FALSE /\ accepted' = FALSE
    /\ UNCHANGED <<posted, poller, confirmed>>

\* connect() fails, or has no credentials: loop_start is never reached.
NeverConnect ==
    /\ session = "new" /\ session' = "dead"
    /\ UNCHANGED <<toBroker, toClient, brokerVars, published, removals, gateVars,
                   outages, requests, history>>

\* _on_connect: subscribe to everything, then publish.
Connect ==
    /\ session \in {"new", "lost"} /\ session' = "up"
    /\ Publish(<<Subscribe>>, FALSE)
    /\ subscribed' = FALSE
    /\ UNCHANGED <<toClient, leftover, retained, outages, requests>>

HandleEchoIfAny(m) ==   \* mutant: the empty payload of a removal is no echo
    /\ posted' = IF m.topic = expected /\ m.number \notin removals
                 THEN posted + 1 ELSE posted
    /\ confirmed' = IF m.topic = expected /\ m.number \notin removals
                    THEN m.number ELSE confirmed

\* handle_echo looks at the topic only.
HandleEcho(m) ==
    /\ posted' = IF m.topic = expected THEN posted + 1 ELSE posted
    /\ confirmed' = IF m.topic = expected THEN m.number ELSE confirmed

HandleConfig(m) ==
    /\ m.kind = "config"
    /\ HandleEcho(m)
    /\ UNCHANGED <<toBroker, published, removals, expected, ready, poller,
                   swept, accepted>>

HandleRequest(m) ==
    /\ m.kind \in {"restart", "remove"}
    /\ Publish(toBroker, m.kind = "remove")

\* _handle_device_command drops what comes while the gate is shut.
HandleCommand(m) ==
    /\ m.kind = "command"
    /\ accepted' = (accepted \/ ready)
    /\ UNCHANGED <<toBroker, published, removals, gateVars, confirmed, swept>>

\* _on_message, with the handler the topic is routed to.
Receive ==
    /\ session = "up" /\ toClient # <<>>
    /\ toClient' = Tail(toClient)
    /\ LET m == Head(toClient)
       IN  HandleConfig(m) \/ HandleRequest(m) \/ HandleCommand(m)
    /\ UNCHANGED <<session, brokerVars, outages, requests>>

-----------------------------------------------------------------------------
(* The event loop *)

\* Event.set releases the waiting synchronizer for good: it waits only once.
OpenGate ==
    /\ posted > 0 /\ posted' = posted - 1
    /\ ready' = TRUE /\ poller' = "running"
    /\ UNCHANGED <<session, toBroker, toClient, brokerVars, published, removals,
                   expected, outages, requests, history>>

Sweep ==
    /\ poller = "running" /\ ~swept
    /\ swept' = TRUE
    /\ UNCHANGED <<session, toBroker, toClient, brokerVars, published, removals,
                   gateVars, outages, requests, confirmed, accepted>>

-----------------------------------------------------------------------------
(* The broker, HA and the network *)

\* A new subscription is answered with what is retained, in any order.
Kept == {t \in TopicSet : Present(t)}

Resends ==
    {q \in UNION {[1 .. n -> Kept] : n \in 0 .. Len(Topics)} :
        Range(q) = Kept /\ IsInjective(q)}

BrokerReceives ==
    /\ session = "up" /\ toBroker # <<>>
    /\ toBroker' = Tail(toBroker)
    /\ LET m == Head(toBroker) IN
       \/ /\ m.kind = "subscribe"
          /\ subscribed' = TRUE
          /\ \E q \in Resends :
                toClient' = toClient \o [i \in DOMAIN q |-> Config(q[i], retained[q[i]])]
          /\ UNCHANGED retained
       \/ /\ m.kind = "config"
          /\ retained' = [retained EXCEPT ![m.topic] = m.number]
          /\ toClient' = IF subscribed THEN Append(toClient, m) ELSE toClient
          /\ UNCHANGED subscribed
    /\ UNCHANGED <<session, leftover, published, removals, gateVars, outages, requests, history>>

\* A user restarts or removes the entities, or operates one that HA knows.
HaRequests(kind) ==
    /\ session = "up" /\ subscribed /\ requests < MaxRequests
    /\ kind = "command" => \E t \in TopicSet : Present(t)
    /\ requests' = requests + 1
    /\ toClient' = Append(toClient, Plain(kind))
    /\ UNCHANGED <<session, toBroker, brokerVars, published, removals, gateVars,
                   outages, history>>

LoseConnection ==
    /\ session = "up" /\ outages < MaxOutages
    /\ session' = "lost" /\ outages' = outages + 1
    /\ toBroker' = <<>> /\ toClient' = <<>>
    /\ UNCHANGED <<brokerVars, published, removals, gateVars, requests, history>>

-----------------------------------------------------------------------------

Next ==
    \/ NeverConnect \/ Connect \/ Receive \/ OpenGate \/ Sweep \/ BrokerReceives
    \/ \E kind \in {"restart", "remove", "command"} : HaRequests(kind)
    \/ LoseConnection

Spec == Init /\ [][Next]_vars

\* paho reconnects, the loop runs its callbacks and the broker answers.
Fairness ==
    /\ WF_vars(NeverConnect \/ Connect) /\ WF_vars(Receive)
    /\ WF_vars(OpenGate) /\ WF_vars(BrokerReceives)

FairSpec == Spec /\ Fairness

-----------------------------------------------------------------------------
(* Properties *)

\* The messages there can be so far.
Messages ==
    [kind : {"config"}, topic : TopicSet, number : 0 .. published]
    \cup [kind : {"subscribe", "restart", "remove", "command"},
          topic : {"none"}, number : {0}]

\* Every variable has its type; an echo is awaited for a config topic only.
TypeOK ==
    /\ session \in {"new", "up", "lost", "dead"}
    /\ toBroker \in Seq(Messages) /\ toClient \in Seq(Messages)
    /\ subscribed \in BOOLEAN /\ leftover \in Leftovers
    /\ retained \in [TopicSet -> 0 .. published]
    /\ published \in Nat /\ removals \subseteq 1 .. published
    /\ expected \in TopicSet \cup {"none"} /\ posted \in Nat /\ ready \in BOOLEAN
    /\ poller \in {"waiting", "running"}
    /\ outages \in 0 .. MaxOutages /\ requests \in 0 .. MaxRequests
    /\ confirmed \in 0 .. published
    /\ swept \in BOOLEAN /\ accepted \in BOOLEAN

\* One echo speaks for all: when the echo of the newest publication has been
\* handled, the broker has every config message of it, and HA was sent them.
EchoSpeaksForAll ==
    published > 0 /\ confirmed = published =>
        \A t \in TopicSet : retained[t] = published

\* Why: the newest publication is the end of what is on its way to the broker,
\* in the order of Topics, and what has gone from there has arrived;
InOrder ==
    session = "up" =>
        \A i \in DOMAIN Topics :
            LET p == Len(toBroker) - Len(Topics) + i
            IN  IF p >= 1 THEN toBroker[p] = Config(Topics[i], published)
                ELSE retained[Topics[i]] = published

\* whatever is ahead of it is older, and its last topic has not arrived;
OlderAhead ==
    session = "up" =>
        /\ \A p \in DOMAIN toBroker :
              p <= Len(toBroker) - Len(Topics) /\ toBroker[p].kind = "config"
              => toBroker[p].number < published
        /\ toBroker # <<>> => retained[ExpectedEcho] < published

\* the last topic arrives last; and no echo of it runs ahead of the broker.
LastTells ==
    /\ retained[ExpectedEcho] = published => \A t \in TopicSet : retained[t] = published
    /\ \A p \in DOMAIN toClient :
          toClient[p] = Config(ExpectedEcho, published) => retained[ExpectedEcho] = published
    /\ confirmed = published => retained[ExpectedEcho] = published
    /\ expected \in {ExpectedEcho, "none"}

IInv == TypeOK /\ InOrder /\ OlderAhead /\ LastTells

\* The gate comes back: however the connection was lost, and whatever was
\* restarted or removed meanwhile, the panel ends up accepting commands with
\* its newest publication confirmed, unless it never reached the broker.
GateReopens == <>[](session = "dead" \/ (ready /\ confirmed = published))

\* "Control commands and RS485 polling are blocked until the discovery is
\* confirmed": neither a sweep nor a command between a publication and its
\* echo. Polling looks at the gate only once, before its first sweep; commands
\* look at a gate that a late ha_ready.set may have opened.
Gated == swept \/ accepted => confirmed = published

\* What the gate does hold when no earlier run left the awaited topic behind:
\* however often the connection is lost and HA restarts or removes entities,
\* nothing is polled and no command passes before the broker has had a config
\* message of every entity; and until something is published anew, the gate is
\* all it is said to be (publish, handle_echo).
GateHolds ==
    ExpectedEcho \notin leftover =>
        /\ ready \/ poller = "running" => \A t \in TopicSet : retained[t] > 0
        /\ published <= 1 => Gated

=============================================================================
