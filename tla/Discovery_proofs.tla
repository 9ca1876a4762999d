-------------------------- MODULE Discovery_proofs --------------------------
(***************************************************************************)
(* One echo speaks for all: for any number of entities, outages and        *)
(* requests, the echo of the last config message proves that the broker    *)
(* has the whole publication.                                              *)
(***************************************************************************)
EXTENDS Discovery, SequenceTheorems, TLAPS

LEMMA TopicFacts ==
    /\ Len(Topics) \in Nat /\ Len(Topics) > 0 /\ DOMAIN Topics = 1 .. Len(Topics)
    /\ \A i \in DOMAIN Topics : Topics[i] \in TopicSet
    /\ \A t \in TopicSet : \E i \in DOMAIN Topics : t = Topics[i]
    /\ ExpectedEcho \in TopicSet
    /\ \A i \in DOMAIN Topics : Topics[i] = ExpectedEcho => i = Len(Topics)
    /\ "none" \notin TopicSet
  <1>1. /\ Len(Topics) \in Nat /\ Len(Topics) > 0 /\ DOMAIN Topics = 1 .. Len(Topics)
    BY TopicsAssumption
  <1>2. /\ \A i \in DOMAIN Topics : Topics[i] \in TopicSet
        /\ \A t \in TopicSet : \E i \in DOMAIN Topics : t = Topics[i]
    BY DEF TopicSet, Range
  <1>3. Len(Topics) \in DOMAIN Topics
    BY <1>1
  <1> QED BY <1>1, <1>2, <1>3, TopicsAssumption DEF ExpectedEcho, TopicSet

\* What is on its way is one of the messages there can be.
LEMMA MessageFacts ==
    ASSUME NEW m \in Messages
    PROVE  /\ m.kind = "config" =>
                 /\ m.topic \in TopicSet /\ m.number \in 0 .. published
                 /\ m = Config(m.topic, m.number)
           /\ m.kind # "config" => m = Plain(m.kind)
           /\ m.kind \in {"config", "subscribe", "restart", "remove", "command"}
  BY DEF Messages, Config, Plain

LEMMA ConfigMessage ==
    ASSUME NEW t \in TopicSet, NEW n \in 0 .. published
    PROVE  Config(t, n) \in Messages
  BY DEF Messages, Config

LEMMA PlainMessage ==
    ASSUME NEW kind \in {"subscribe", "restart", "remove", "command"}
    PROVE  Plain(kind) \in Messages
  BY DEF Messages, Plain

LEMMA MoreMessages ==
    ASSUME published \in Nat, published' \in Nat, published' >= published
    PROVE  Messages \subseteq Messages'
  BY DEF Messages

-----------------------------------------------------------------------------
(* publish() *)

\* publish() puts its batch behind what is on its way.
LEMMA PublishAppends ==
    ASSUME IInv, NEW before \in Seq(Messages), NEW removing \in BOOLEAN,
           Publish(before, removing)
    PROVE  /\ published' \in Nat /\ published' = published + 1
           /\ Messages \subseteq Messages' /\ toBroker' \in Seq(Messages')
           /\ Len(before) \in Nat /\ Len(toBroker') = Len(before) + Len(Topics)
           /\ \A p \in 1 .. Len(before) : toBroker'[p] = before[p]
           /\ \A i \in 1 .. Len(Topics) :
                 toBroker'[Len(before) + i] = Config(Topics[i], published')
  <1> DEFINE L == Len(Topics)
             batch == [i \in DOMAIN Topics |-> Config(Topics[i], published + 1)]
  <1>1. published \in Nat
    BY DEF IInv, TypeOK
  <1>2. published' = published + 1 /\ toBroker' = before \o batch
    BY DEF Publish, Batch
  <1>3. published' \in Nat
    BY <1>1, <1>2
  <1>4. Messages \subseteq Messages'
    BY <1>1, <1>2, MoreMessages
  <1>5. \A i \in DOMAIN Topics : Config(Topics[i], published + 1) \in Messages'
    BY <1>1, <1>2, TopicFacts DEF Messages, Config
  <1>6. batch \in Seq(Messages') /\ Len(batch) = L /\ DOMAIN batch = 1 .. L
    BY <1>5, TopicFacts
  <1>7. before \in Seq(Messages')
    BY <1>4
  <1>8. toBroker' \in Seq(Messages')
    BY <1>2, <1>6, <1>7
  <1>9. Len(before) \in Nat /\ L \in Nat
    BY <1>7, TopicFacts
  <1>10. /\ Len(before \o batch) = Len(before) + L
         /\ \A p \in 1 .. Len(before) + L :
               (before \o batch)[p] = IF p <= Len(before) THEN before[p]
                                      ELSE batch[p - Len(before)]
    <2> HIDE DEF batch, L
    <2> QED BY <1>6, <1>7, ConcatProperties, Zenon
  <1>11. \A p \in 1 .. Len(before) : (before \o batch)[p] = before[p]
    <2> HIDE DEF batch, L
    <2> QED BY <1>9, <1>10
  <1>12. \A i \in 1 .. L : (before \o batch)[Len(before) + i] = batch[i]
    <2> HIDE DEF batch, L
    <2> QED BY <1>9, <1>10
  <1>13. \A i \in 1 .. L : batch[i] = Config(Topics[i], published')
    BY <1>2, <1>6
  <1> HIDE DEF batch
  <1> QED BY <1>2, <1>3, <1>4, <1>8, <1>9, <1>10, <1>11, <1>12, <1>13

\* A publication follows everything that is on its way, and nothing of it has
\* arrived anywhere.
LEMMA PublishStep ==
    ASSUME IInv, NEW before \in Seq(Messages), NEW removing \in BOOLEAN,
           Publish(before, removing), UNCHANGED retained, toClient' \in Seq(Messages)
    PROVE  /\ published' \in Nat /\ removals' \subseteq 1 .. published'
           /\ toBroker' \in Seq(Messages') /\ toClient' \in Seq(Messages')
           /\ retained' \in [TopicSet -> 0 .. published']
           /\ expected' \in TopicSet \cup {"none"} /\ confirmed' \in 0 .. published'
           /\ InOrder' /\ OlderAhead' /\ LastTells'
  <1> DEFINE L == Len(Topics)
  <1>1. /\ published \in Nat /\ retained \in [TopicSet -> 0 .. published]
        /\ confirmed \in 0 .. published /\ removals \subseteq 1 .. published
    BY DEF IInv, TypeOK
  <1>2. /\ published' = published + 1 /\ expected' = ExpectedEcho
        /\ confirmed' = confirmed /\ retained' = retained
        /\ removals' \subseteq removals \cup {published'}
    BY DEF Publish
  <1>3. /\ published' \in Nat /\ removals' \subseteq 1 .. published'
        /\ confirmed' \in 0 .. published' /\ expected' \in TopicSet \cup {"none"}
        /\ retained' \in [TopicSet -> 0 .. published']
    BY <1>1, <1>2, TopicFacts
  <1>4. /\ Messages \subseteq Messages' /\ toBroker' \in Seq(Messages')
        /\ Len(before) \in Nat /\ Len(toBroker') = Len(before) + L
        /\ \A p \in 1 .. Len(before) : toBroker'[p] = before[p]
        /\ \A i \in 1 .. L : toBroker'[Len(before) + i] = Config(Topics[i], published')
    BY PublishAppends
  <1>5. toClient' \in Seq(Messages') /\ L \in Nat
    BY <1>4, TopicFacts
  <1>6. InOrder'
    <2> SUFFICES ASSUME NEW i \in DOMAIN Topics
                 PROVE  /\ Len(toBroker') - L + i >= 1
                        /\ toBroker'[Len(toBroker') - L + i] = Config(Topics[i], published')
      BY DEF InOrder
    <2>1. i \in 1 .. L
      BY TopicFacts
    <2>2. Len(toBroker') - L + i = Len(before) + i /\ Len(before) + i >= 1
      BY <1>4, <1>5, <2>1
    <2>3. toBroker'[Len(before) + i] = Config(Topics[i], published')
      BY <1>4, <2>1
    <2> QED BY <2>2, <2>3
  <1>7. OlderAhead'
    <2>1. ASSUME NEW p \in DOMAIN toBroker', p <= Len(toBroker') - L,
                 toBroker'[p].kind = "config"
          PROVE  toBroker'[p].number < published'
      <3>1. p \in 1 .. Len(before)
        BY <1>4, <1>5, <2>1
      <3>2. before[p] \in Messages /\ toBroker'[p] = before[p]
        BY <1>4, <3>1
      <3> QED BY <1>1, <1>2, <2>1, <3>2, MessageFacts
    <2>2. retained'[ExpectedEcho] < published'
      BY <1>1, <1>2, TopicFacts
    <2> QED BY <2>1, <2>2 DEF OlderAhead, ExpectedEcho
  <1>8. LastTells'
    <2>1. retained'[ExpectedEcho] # published' /\ confirmed' # published'
      BY <1>1, <1>2, TopicFacts
    <2>2. \A p \in DOMAIN toClient' : toClient'[p] # Config(ExpectedEcho, published')
      <3> SUFFICES ASSUME NEW p \in DOMAIN toClient'
                   PROVE  toClient'[p] # Config(ExpectedEcho, published')
        OBVIOUS
      <3>1. toClient'[p] \in Messages
        OBVIOUS
      <3> QED BY <1>1, <1>2, <3>1, MessageFacts DEF Config
    <2> QED BY <1>2, <2>1, <2>2 DEF LastTells, ExpectedEcho
  <1> QED BY <1>3, <1>4, <1>5, <1>6, <1>7, <1>8

-----------------------------------------------------------------------------
(* The broker *)

\* What is ahead of the newest publication, or its next message.
LEMMA NextForBroker ==
    ASSUME IInv, session = "up", toBroker # <<>>
    PROVE  /\ toBroker[1] \in Messages
           /\ Len(toBroker) > Len(Topics) \/
                /\ Len(Topics) - Len(toBroker) + 1 \in DOMAIN Topics
                /\ toBroker[1] = Config(Topics[Len(Topics) - Len(toBroker) + 1], published)
           /\ retained[ExpectedEcho] < published
  <1>1. toBroker \in Seq(Messages) /\ InOrder /\ OlderAhead
    BY DEF IInv, TypeOK
  <1>2. Len(toBroker) \in Nat /\ Len(toBroker) >= 1 /\ toBroker[1] \in Messages
    BY <1>1
  <1>3. ASSUME Len(toBroker) <= Len(Topics)
        PROVE  /\ Len(Topics) - Len(toBroker) + 1 \in DOMAIN Topics
               /\ toBroker[1] = Config(Topics[Len(Topics) - Len(toBroker) + 1], published)
    <2> DEFINE i == Len(Topics) - Len(toBroker) + 1
    <2>1. i \in DOMAIN Topics /\ Len(toBroker) - Len(Topics) + i = 1
      BY <1>2, <1>3, TopicFacts
    <2> QED BY <1>1, <2>1 DEF InOrder
  <1> QED BY <1>1, <1>2, <1>3, TopicFacts DEF OlderAhead

\* Taking the first message keeps the order, whatever it was.
LEMMA BrokerTakes ==
    ASSUME IInv, session = "up", session' = session, toBroker # <<>>,
           toBroker' = Tail(toBroker), UNCHANGED <<published, confirmed, expected>>,
           \/ toBroker[1].kind # "config" /\ retained' = retained
           \/ /\ toBroker[1].kind = "config"
              /\ retained' = [retained EXCEPT ![toBroker[1].topic] = toBroker[1].number]
    PROVE  /\ toBroker' \in Seq(Messages) /\ retained' \in [TopicSet -> 0 .. published]
           /\ InOrder' /\ OlderAhead'
           /\ retained'[ExpectedEcho] = published => \A t \in TopicSet : retained'[t] = published
  <1> DEFINE m == toBroker[1]
             L == Len(Topics)
  <1>1. /\ toBroker \in Seq(Messages) /\ InOrder /\ OlderAhead
        /\ retained \in [TopicSet -> 0 .. published] /\ published \in Nat
    BY DEF IInv, TypeOK
  <1>2. /\ m \in Messages /\ retained[ExpectedEcho] < published
        /\ Len(toBroker) > L \/
             /\ L - Len(toBroker) + 1 \in DOMAIN Topics
             /\ m = Config(Topics[L - Len(toBroker) + 1], published)
    BY NextForBroker
  <1>3. m.kind = "config" => m.topic \in TopicSet /\ m.number \in 0 .. published
    BY <1>2, MessageFacts
  <1>4. /\ toBroker' \in Seq(Messages) /\ Len(toBroker') = Len(toBroker) - 1
        /\ Len(toBroker) \in Nat /\ Len(toBroker) >= 1 /\ L \in Nat
        /\ \A p \in DOMAIN toBroker' : toBroker'[p] = toBroker[p + 1]
    BY <1>1, TopicFacts
  <1>5. retained' \in [TopicSet -> 0 .. published]
    BY <1>1, <1>3
  <1>6. InOrder'
    <2> SUFFICES ASSUME NEW i \in DOMAIN Topics
                 PROVE  LET p == Len(toBroker') - L + i
                        IN  IF p >= 1 THEN toBroker'[p] = Config(Topics[i], published)
                            ELSE retained'[Topics[i]] = published
      BY DEF InOrder
    <2> DEFINE p == Len(toBroker) - L + i
    <2>1. /\ i \in 1 .. L /\ p \in Int /\ p <= Len(toBroker)
          /\ Len(toBroker') - L + i = p - 1
      BY <1>4, TopicFacts
    <2>2. IF p >= 1 THEN toBroker[p] = Config(Topics[i], published)
          ELSE retained[Topics[i]] = published
      BY <1>1 DEF InOrder
    <2>3. CASE p - 1 >= 1
      <3>1. p - 1 \in DOMAIN toBroker'
        BY <1>4, <2>1, <2>3
      <3>2. toBroker'[p - 1] = toBroker[p]
        BY <1>4, <2>1, <3>1
      <3> QED BY <2>1, <2>2, <2>3, <3>2
    <2>4. CASE p = 1
      <3>1. m = Config(Topics[i], published)
        BY <2>2, <2>4
      <3>2. retained'[Topics[i]] = published
        BY <1>1, <3>1, TopicFacts DEF Config
      <3> QED BY <2>1, <2>4, <3>2
    <2>5. CASE p < 1
      <3>1. m.kind = "config" /\ m.number = published
        BY <1>2, <1>4, <2>1, <2>5 DEF Config
      <3>2. retained'[Topics[i]] = published
        BY <1>1, <2>2, <2>5, <3>1, TopicFacts
      <3> QED BY <2>1, <2>5, <3>2
    <2> QED BY <2>1, <2>3, <2>4, <2>5
  <1>7. OlderAhead'
    <2>1. ASSUME NEW p \in DOMAIN toBroker', p <= Len(toBroker') - L,
                 toBroker'[p].kind = "config"
          PROVE  toBroker'[p].number < published
      <3>1. p + 1 \in DOMAIN toBroker /\ p + 1 <= Len(toBroker) - L
        BY <1>1, <1>4, <2>1
      <3> QED BY <1>1, <1>4, <2>1, <3>1 DEF OlderAhead
    <2>2. ASSUME toBroker' # <<>>
          PROVE  retained'[ExpectedEcho] < published
      <3>1. Len(toBroker) >= 2
        BY <1>4, <2>2
      <3>2. CASE m.kind = "config" /\ m.topic = ExpectedEcho
        <4>1. Len(toBroker) > L
          <5>1. ASSUME L - Len(toBroker) + 1 \in DOMAIN Topics,
                       m = Config(Topics[L - Len(toBroker) + 1], published)
                PROVE  FALSE
            <6>1. Topics[L - Len(toBroker) + 1] = ExpectedEcho
              BY <3>2, <5>1 DEF Config
            <6>2. L - Len(toBroker) + 1 = L
              BY <5>1, <6>1, TopicFacts
            <6> QED BY <1>4, <3>1, <6>2
          <5> QED BY <1>2, <5>1
        <4>2. 1 \in DOMAIN toBroker /\ 1 <= Len(toBroker) - L
          BY <1>1, <1>4, <4>1
        <4>3. m.number < published
          BY <1>1, <3>2, <4>2 DEF OlderAhead
        <4> QED BY <1>1, <3>2, <4>3, TopicFacts
      <3>3. CASE ~(m.kind = "config" /\ m.topic = ExpectedEcho)
        BY <1>1, <1>2, <3>3, TopicFacts
      <3> QED BY <3>2, <3>3
    <2> QED BY <2>1, <2>2 DEF OlderAhead, ExpectedEcho
  <1>8. ASSUME retained'[ExpectedEcho] = published, NEW t \in TopicSet
        PROVE  retained'[t] = published
    <2>1. Len(toBroker') = 0
      BY <1>1, <1>4, <1>7, <1>8 DEF OlderAhead, ExpectedEcho
    <2>2. PICK i \in DOMAIN Topics : t = Topics[i]
      BY TopicFacts
    <2>3. i \in 1 .. L /\ ~(Len(toBroker') - L + i >= 1)
      BY <1>4, <2>1, TopicFacts
    <2> QED BY <1>6, <2>2, <2>3 DEF InOrder
  <1> QED BY <1>4, <1>5, <1>6, <1>7, <1>8

\* The broker answers a subscription, or keeps a config message and echoes it.
LEMMA BrokerStep == IInv /\ BrokerReceives => IInv'
  <1> SUFFICES ASSUME IInv, BrokerReceives PROVE IInv'
    OBVIOUS
  <1> DEFINE m == toBroker[1]
  <1>1. /\ toBroker \in Seq(Messages) /\ toClient \in Seq(Messages)
        /\ retained \in [TopicSet -> 0 .. published] /\ published \in Nat
        /\ subscribed \in BOOLEAN /\ LastTells
    BY DEF IInv, TypeOK
  <1>2. /\ session = "up" /\ session' = session /\ toBroker # <<>>
        /\ toBroker' = Tail(toBroker)
        /\ UNCHANGED <<published, confirmed, expected, removals>>
    BY DEF BrokerReceives, gateVars, history
  <1>3. m = Head(toBroker)
    BY <1>1, <1>2
  <1>4. Messages' = Messages
    BY <1>2 DEF Messages
  <1>5. /\ m \in Messages /\ retained[ExpectedEcho] < published
    BY <1>2, NextForBroker
  <1>6. CASE /\ m.kind = "subscribe" /\ subscribed' = TRUE /\ retained' = retained
             /\ \E q \in Resends :
                   toClient' = toClient \o [i \in DOMAIN q |-> Config(q[i], retained[q[i]])]
    <2>1. /\ toBroker' \in Seq(Messages) /\ retained' \in [TopicSet -> 0 .. published]
          /\ InOrder' /\ OlderAhead'
      BY <1>2, <1>6, BrokerTakes
    <2>2. PICK q \in Resends :
             toClient' = toClient \o [i \in DOMAIN q |-> Config(q[i], retained[q[i]])]
      BY <1>6
    <2> DEFINE answer == [i \in DOMAIN q |-> Config(q[i], retained[q[i]])]
    <2>3. PICK n \in 0 .. Len(Topics) : q \in [1 .. n -> Kept]
      BY <2>2 DEF Resends
    <2>4. \A i \in 1 .. n : answer[i] \in Messages /\ answer[i] # Config(ExpectedEcho, published)
      <3> SUFFICES ASSUME NEW i \in 1 .. n
                   PROVE  /\ Config(q[i], retained[q[i]]) \in Messages
                          /\ Config(q[i], retained[q[i]]) # Config(ExpectedEcho, published)
        BY <2>3
      <3>1. q[i] \in TopicSet
        BY <2>3 DEF Kept
      <3>2. Config(q[i], retained[q[i]]) \in Messages
        BY <1>1, <3>1, ConfigMessage
      <3>3. Config(q[i], retained[q[i]]) # Config(ExpectedEcho, published)
        BY <1>1, <1>5, <3>1 DEF Config
      <3> QED BY <3>2, <3>3
    <2>5. answer \in Seq(Messages) /\ Len(answer) = n /\ n \in Nat
      BY <2>3, <2>4, TopicFacts
    <2>6. /\ toClient' \in Seq(Messages) /\ Len(toClient') = Len(toClient) + n
          /\ \A p \in 1 .. Len(toClient) + n :
                toClient'[p] = IF p <= Len(toClient) THEN toClient[p]
                               ELSE answer[p - Len(toClient)]
      <3> HIDE DEF answer
      <3>1. toClient' = toClient \o answer
        BY <2>2 DEF answer
      <3> QED BY <1>1, <2>5, <3>1, ConcatProperties, Zenon
    <2>7. \A p \in DOMAIN toClient' : toClient'[p] # Config(ExpectedEcho, published)
      <3> SUFFICES ASSUME NEW p \in DOMAIN toClient'
                   PROVE  toClient'[p] # Config(ExpectedEcho, published)
        OBVIOUS
      <3>1. p \in 1 .. Len(toClient) + n /\ Len(toClient) \in Nat
        BY <1>1, <2>6
      <3>2. CASE p <= Len(toClient)
        <4>1. p \in DOMAIN toClient
          BY <1>1, <3>1, <3>2
        <4>2. toClient'[p] = toClient[p]
          BY <2>6, <3>1, <3>2
        <4> QED BY <1>1, <1>5, <4>1, <4>2, TopicFacts DEF LastTells
      <3>3. CASE p > Len(toClient)
        <4>1. p - Len(toClient) \in 1 .. n /\ toClient'[p] = answer[p - Len(toClient)]
          BY <2>5, <2>6, <3>1, <3>3
        <4> QED BY <2>4, <4>1
      <3> QED BY <3>1, <3>2, <3>3
    <2>8. LastTells'
      <3>1. retained'[ExpectedEcho] # published /\ confirmed # published
        BY <1>1, <1>5, <1>6, TopicFacts DEF LastTells
      <3> QED BY <1>1, <1>2, <2>7, <3>1 DEF LastTells, ExpectedEcho
    <2>9. TypeOK'
      BY <1>2, <1>4, <1>6, <2>1, <2>6 DEF IInv, TypeOK, BrokerReceives, gateVars, history
    <2> QED BY <2>1, <2>8, <2>9 DEF IInv
  <1>7. CASE /\ m.kind = "config" /\ subscribed' = subscribed
             /\ retained' = [retained EXCEPT ![m.topic] = m.number]
             /\ toClient' = IF subscribed THEN Append(toClient, m) ELSE toClient
    <2>1. /\ toBroker' \in Seq(Messages) /\ retained' \in [TopicSet -> 0 .. published]
          /\ InOrder' /\ OlderAhead'
          /\ retained'[ExpectedEcho] = published => \A t \in TopicSet : retained'[t] = published
      BY <1>2, <1>7, BrokerTakes
    <2>2. toClient' \in Seq(Messages)
      BY <1>1, <1>5, <1>7
    <2>3. ASSUME NEW p \in DOMAIN toClient', toClient'[p] = Config(ExpectedEcho, published)
          PROVE  retained'[ExpectedEcho] = published
      <3>1. CASE p \in DOMAIN toClient
        <4>1. toClient'[p] = toClient[p]
          BY <1>1, <1>5, <1>7, <3>1
        <4> QED BY <1>1, <1>5, <2>3, <3>1, <4>1, TopicFacts DEF LastTells
      <3>2. CASE p \notin DOMAIN toClient
        <4>1. toClient'[p] = m
          BY <1>1, <1>5, <1>7, <2>3, <3>2
        <4>2. m.topic = ExpectedEcho /\ m.number = published
          BY <2>3, <4>1 DEF Config
        <4> QED BY <1>1, <1>7, <4>2, TopicFacts
      <3> QED BY <3>1, <3>2
    <2>4. confirmed # published
      BY <1>1, <1>5, TopicFacts DEF LastTells
    <2>5. LastTells'
      BY <1>1, <1>2, <2>1, <2>3, <2>4 DEF LastTells, ExpectedEcho
    <2>6. TypeOK'
      BY <1>2, <1>4, <1>7, <2>1, <2>2 DEF IInv, TypeOK, BrokerReceives, gateVars, history
    <2> QED BY <2>1, <2>5, <2>6 DEF IInv
  <1> QED BY <1>3, <1>6, <1>7 DEF BrokerReceives

-----------------------------------------------------------------------------
(* The program, HA and the network *)

\* A handler takes one message; an echo of the newest publication confirms it.
LEMMA ReceiveStep == IInv /\ Receive => IInv'
  <1> SUFFICES ASSUME IInv, Receive PROVE IInv'
    OBVIOUS
  <1> DEFINE m == Head(toClient)
  <1>1. /\ toBroker \in Seq(Messages) /\ toClient \in Seq(Messages)
        /\ published \in Nat /\ LastTells /\ InOrder /\ OlderAhead
    BY DEF IInv, TypeOK
  <1>2. /\ session = "up" /\ toClient # <<>> /\ toClient' = Tail(toClient)
        /\ UNCHANGED <<session, subscribed, leftover, retained, outages, requests>>
    BY DEF Receive, brokerVars
  <1>3. /\ toClient' \in Seq(Messages) /\ m \in Messages
        /\ 1 \in DOMAIN toClient /\ toClient[1] = m
        /\ \A p \in DOMAIN toClient' : p + 1 \in DOMAIN toClient /\ toClient'[p] = toClient[p + 1]
    BY <1>1, <1>2
  <1>4. CASE /\ m.kind = "config" /\ HandleEcho(m)
             /\ UNCHANGED <<toBroker, published, removals, expected, ready, poller,
                            swept, accepted>>
    <2>1. m.topic \in TopicSet /\ m.number \in 0 .. published /\ m = Config(m.topic, m.number)
      BY <1>3, <1>4, MessageFacts
    <2>2. confirmed' \in 0 .. published /\ posted' \in Nat
      BY <1>4, <2>1 DEF IInv, TypeOK, HandleEcho
    <2>3. Messages' = Messages
      BY <1>4 DEF Messages
    <2>4. TypeOK'
      BY <1>2, <1>3, <1>4, <2>2, <2>3 DEF IInv, TypeOK
    <2>5. ASSUME confirmed' = published
          PROVE  retained[ExpectedEcho] = published
      <3>1. CASE m.topic = expected
        <4>1. m.topic = ExpectedEcho /\ m.number = published
          BY <1>1, <1>4, <2>1, <2>5, <3>1, TopicFacts DEF LastTells, HandleEcho
        <4> QED BY <1>1, <1>3, <2>1, <4>1 DEF LastTells
      <3>2. CASE m.topic # expected
        BY <1>1, <1>4, <2>5, <3>2 DEF LastTells, HandleEcho
      <3> QED BY <3>1, <3>2
    <2>6. LastTells'
      BY <1>1, <1>2, <1>3, <1>4, <2>5 DEF LastTells, ExpectedEcho
    <2>7. InOrder' /\ OlderAhead'
      BY <1>1, <1>2, <1>4 DEF InOrder, OlderAhead, ExpectedEcho
    <2> QED BY <2>4, <2>6, <2>7 DEF IInv
  <1>5. CASE m.kind \in {"restart", "remove"} /\ Publish(toBroker, m.kind = "remove")
    <2>1. (m.kind = "remove") \in BOOLEAN /\ UNCHANGED retained
      BY <1>2
    <2>2. /\ published' \in Nat /\ removals' \subseteq 1 .. published'
          /\ toBroker' \in Seq(Messages') /\ toClient' \in Seq(Messages')
          /\ retained' \in [TopicSet -> 0 .. published']
          /\ expected' \in TopicSet \cup {"none"} /\ confirmed' \in 0 .. published'
          /\ InOrder' /\ OlderAhead' /\ LastTells'
      BY <1>1, <1>3, <1>5, <2>1, PublishStep
    <2>3. TypeOK'
      BY <1>2, <1>5, <2>2 DEF IInv, TypeOK, Publish
    <2> QED BY <2>2, <2>3 DEF IInv
  <1>6. CASE /\ m.kind = "command" /\ accepted' = (accepted \/ ready)
             /\ UNCHANGED <<toBroker, published, removals, gateVars, confirmed, swept>>
    <2>1. Messages' = Messages
      BY <1>6 DEF Messages
    <2>2. TypeOK'
      BY <1>2, <1>3, <1>6, <2>1 DEF IInv, TypeOK, gateVars
    <2>3. LastTells'
      BY <1>1, <1>2, <1>3, <1>6 DEF LastTells, ExpectedEcho, gateVars
    <2>4. InOrder' /\ OlderAhead'
      BY <1>1, <1>2, <1>6 DEF InOrder, OlderAhead, ExpectedEcho
    <2> QED BY <2>2, <2>3, <2>4 DEF IInv
  <1> QED BY <1>4, <1>5, <1>6 DEF Receive, HandleConfig, HandleRequest, HandleCommand

\* A new session starts with nothing on its way but its own publication.
LEMMA ConnectStep == IInv /\ Connect => IInv'
  <1> SUFFICES ASSUME IInv, Connect PROVE IInv'
    OBVIOUS
  <1>1. /\ <<Subscribe>> \in Seq(Messages) /\ toClient' \in Seq(Messages)
        /\ UNCHANGED retained /\ FALSE \in BOOLEAN
    BY PlainMessage DEF Subscribe, Connect, IInv, TypeOK
  <1>2. /\ published' \in Nat /\ removals' \subseteq 1 .. published'
        /\ toBroker' \in Seq(Messages') /\ toClient' \in Seq(Messages')
        /\ retained' \in [TopicSet -> 0 .. published']
        /\ expected' \in TopicSet \cup {"none"} /\ confirmed' \in 0 .. published'
        /\ InOrder' /\ OlderAhead' /\ LastTells'
    BY <1>1, PublishStep DEF Connect
  <1>3. TypeOK'
    BY <1>2 DEF IInv, TypeOK, Connect, Publish
  <1> QED BY <1>2, <1>3 DEF IInv

\* The rest leaves the publications alone.
LEMMA OtherSteps ==
    ASSUME IInv,
           \/ NeverConnect \/ OpenGate \/ Sweep \/ LoseConnection
           \/ \E kind \in {"restart", "remove", "command"} : HaRequests(kind)
           \/ UNCHANGED vars
    PROVE  IInv'
  <1>1. /\ published' = published /\ retained' = retained /\ confirmed' = confirmed
        /\ expected' = expected /\ Messages' = Messages
        /\ UNCHANGED <<subscribed, leftover, removals>>
    BY DEF NeverConnect, OpenGate, Sweep, LoseConnection, HaRequests, vars, gateVars,
           brokerVars, history, Messages
  <1>2. /\ toBroker \in Seq(Messages) /\ toClient \in Seq(Messages)
        /\ LastTells /\ InOrder /\ OlderAhead
    BY DEF IInv, TypeOK
  <1>3. CASE NeverConnect \/ OpenGate \/ Sweep \/ UNCHANGED vars
    <2>1. toBroker' = toBroker /\ toClient' = toClient /\ (session' = "up" => session = "up")
      BY <1>3 DEF NeverConnect, OpenGate, Sweep, vars
    <2>2. TypeOK'
      <3>1. /\ session' \in {"new", "up", "lost", "dead"} /\ posted' \in Nat
            /\ ready' \in BOOLEAN /\ poller' \in {"waiting", "running"}
            /\ swept' \in BOOLEAN /\ accepted' \in BOOLEAN
            /\ UNCHANGED <<outages, requests>>
        <4>1. CASE NeverConnect
          BY <4>1 DEF IInv, TypeOK, NeverConnect, gateVars, history
        <4>2. CASE OpenGate
          BY <4>2 DEF IInv, TypeOK, OpenGate, history
        <4>3. CASE Sweep
          BY <4>3 DEF IInv, TypeOK, Sweep, gateVars
        <4>4. CASE UNCHANGED vars
          BY <4>4 DEF IInv, TypeOK, vars, gateVars, history
        <4> QED BY <1>3, <4>1, <4>2, <4>3, <4>4
      <3> QED BY <1>1, <2>1, <3>1 DEF IInv, TypeOK
    <2>3. LastTells' /\ InOrder' /\ OlderAhead'
      BY <1>1, <1>2, <2>1 DEF LastTells, InOrder, OlderAhead, ExpectedEcho
    <2> QED BY <2>2, <2>3 DEF IInv
  <1>4. CASE LoseConnection
    <2>1. toBroker' = <<>> /\ toClient' = <<>> /\ session' = "lost"
      BY <1>4 DEF LoseConnection
    <2>2. TypeOK'
      <3>1. toBroker' \in Seq(Messages') /\ toClient' \in Seq(Messages')
        BY <2>1
      <3>2. outages' \in 0 .. MaxOutages /\ requests' = requests
        BY <1>4, TopicsAssumption DEF IInv, TypeOK, LoseConnection
      <3>3. UNCHANGED <<posted, ready, poller, swept, accepted>>
        BY <1>4 DEF LoseConnection, gateVars, history
      <3> QED BY <1>1, <2>1, <3>1, <3>2, <3>3 DEF IInv, TypeOK
    <2>3. LastTells' /\ InOrder' /\ OlderAhead'
      BY <1>1, <1>2, <2>1 DEF LastTells, InOrder, OlderAhead, ExpectedEcho
    <2> QED BY <2>2, <2>3 DEF IInv
  <1>5. CASE \E kind \in {"restart", "remove", "command"} : HaRequests(kind)
    <2>1. PICK kind \in {"restart", "remove", "command"} : HaRequests(kind)
      BY <1>5
    <2>2. Plain(kind) \in Messages
      BY PlainMessage
    <2>3. /\ toBroker' = toBroker /\ toClient' = Append(toClient, Plain(kind))
          /\ session' = session
      BY <2>1 DEF HaRequests
    <2>4. toClient' \in Seq(Messages)
      BY <1>2, <2>2, <2>3
    <2>5. requests' \in 0 .. MaxRequests
      BY <2>1, TopicsAssumption DEF IInv, TypeOK, HaRequests
    <2>6. TypeOK'
      BY <1>1, <2>1, <2>3, <2>4, <2>5 DEF IInv, TypeOK, HaRequests, gateVars, history
    <2>7. \A p \in DOMAIN toClient' :
             toClient'[p] = Config(ExpectedEcho, published)
             => p \in DOMAIN toClient /\ toClient[p] = toClient'[p]
      BY <1>2, <2>2, <2>3 DEF Plain, Config
    <2>8. LastTells'
      BY <1>1, <1>2, <2>7 DEF LastTells, ExpectedEcho
    <2>9. InOrder' /\ OlderAhead'
      BY <1>1, <1>2, <2>3 DEF InOrder, OlderAhead, ExpectedEcho
    <2> QED BY <2>6, <2>8, <2>9 DEF IInv
  <1> QED BY <1>3, <1>4, <1>5

-----------------------------------------------------------------------------
(* What the gate holds, when no earlier run left the awaited topic behind *)

IsOf(m, t) == m.kind = "config" /\ m.topic = t

\* On its way to the broker, the awaited message comes after, or is, one of
\* every topic that the broker does not have yet;
AwaitedLast(queue) ==
    \A p \in DOMAIN queue :
        /\ queue[p].kind = "config" => queue[p].number > 0
        /\ IsOf(queue[p], ExpectedEcho) =>
              \A t \in TopicSet : retained[t] > 0 \/ \E q \in 1 .. p : IsOf(queue[q], t)

\* so when the broker has the awaited topic, it has them all.
AwaitedTells == retained[ExpectedEcho] > 0 => \A t \in TopicSet : retained[t] > 0

\* An echo of the awaited topic is one of this run's publications.
EchoesAreOurs ==
    \A p \in DOMAIN toClient :
        IsOf(toClient[p], ExpectedEcho) =>
            toClient[p].number > 0 /\ retained[ExpectedEcho] > 0

\* The gate, open or about to open, has seen such an echo,
Opened == posted > 0 \/ ready \/ poller = "running"

OpenedByEcho == Opened => retained[ExpectedEcho] > 0

\* which was the newest one while there was only one publication.
FirstIsGated == published <= 1 /\ (Opened \/ swept \/ accepted) => confirmed = published

GateInv ==
    /\ AwaitedLast(toBroker) /\ AwaitedTells
    /\ ExpectedEcho \notin leftover => EchoesAreOurs /\ OpenedByEcho /\ FirstIsGated

LEMMA GateHoldsBy == IInv /\ GateInv => GateHolds
  BY DEF GateInv, GateHolds, Gated, AwaitedTells, OpenedByEcho, FirstIsGated, Opened

\* A publication brings every topic, the awaited one last, and finds the gate
\* shut for good when it is the first.
LEMMA GatePublish ==
    ASSUME IInv, GateInv, NEW before \in Seq(Messages), NEW removing \in BOOLEAN,
           AwaitedLast(before), Publish(before, removing), UNCHANGED <<leftover, retained>>,
           toClient' \in Seq(Messages),
           \A p \in DOMAIN toClient' : \E q \in DOMAIN toClient : toClient'[p] = toClient[q]
    PROVE  GateInv'
  <1> DEFINE L == Len(Topics)
  <1>1. /\ published' = published + 1 /\ published \in Nat
        /\ Len(before) \in Nat /\ Len(toBroker') = Len(before) + L
        /\ \A p \in 1 .. Len(before) : toBroker'[p] = before[p]
        /\ \A i \in 1 .. L : toBroker'[Len(before) + i] = Config(Topics[i], published')
        /\ toBroker' \in Seq(Messages') /\ L \in Nat
    BY PublishAppends, TopicFacts DEF IInv, TypeOK
  <1>2. /\ retained' = retained /\ leftover' = leftover
        /\ posted' = posted /\ ready' = FALSE /\ poller' = poller
        /\ swept' = FALSE /\ accepted' = FALSE
        /\ retained \in [TopicSet -> 0 .. published]
    BY DEF Publish, IInv, TypeOK
  <1>3. AwaitedLast(toBroker)'
    <2> SUFFICES ASSUME NEW p \in 1 .. Len(before) + L
                 PROVE  /\ toBroker'[p].kind = "config" => toBroker'[p].number > 0
                        /\ IsOf(toBroker'[p], ExpectedEcho) =>
                              \A t \in TopicSet :
                                  \/ retained[t] > 0
                                  \/ \E q \in 1 .. p : IsOf(toBroker'[q], t)
      <3>1. DOMAIN toBroker' = 1 .. Len(before) + L
        BY <1>1
      <3> QED BY <1>2, <3>1 DEF AwaitedLast, ExpectedEcho, TopicSet, IsOf
    <2>1. CASE p <= Len(before)
      <3>1. p \in 1 .. Len(before) /\ p \in DOMAIN before
        BY <1>1, <2>1
      <3>2. \A q \in 1 .. p : toBroker'[q] = before[q]
        BY <1>1, <3>1
      <3> QED BY <3>1, <3>2 DEF AwaitedLast
    <2>2. CASE p > Len(before)
      <3> DEFINE i == p - Len(before)
      <3>1. i \in 1 .. L /\ p = Len(before) + i
        BY <1>1, <2>2
      <3>2. toBroker'[p] = Config(Topics[i], published')
        BY <1>1, <3>1
      <3>3. ASSUME IsOf(toBroker'[p], ExpectedEcho), NEW t \in TopicSet
            PROVE  \E q \in 1 .. p : IsOf(toBroker'[q], t)
        <4>1. Topics[i] = ExpectedEcho
          BY <3>2, <3>3 DEF IsOf, Config
        <4>2. i = L
          BY <3>1, <4>1, TopicFacts
        <4>3. PICK j \in 1 .. L : t = Topics[j]
          BY TopicFacts
        <4>4. Len(before) + j \in 1 .. p
          BY <1>1, <3>1, <4>2
        <4>5. IsOf(toBroker'[Len(before) + j], t)
          <5>1. toBroker'[Len(before) + j] = Config(t, published')
            BY <1>1, <4>3
          <5> QED BY <5>1 DEF IsOf, Config
        <4> QED BY <4>4, <4>5
      <3>4. toBroker'[p].number > 0
        BY <1>1, <3>2 DEF Config
      <3> QED BY <3>3, <3>4
    <2> QED BY <1>1, <2>1, <2>2
  <1>4. AwaitedTells'
    BY <1>2 DEF GateInv, AwaitedTells, ExpectedEcho, TopicSet
  <1>5. ASSUME ExpectedEcho \notin leftover
        PROVE  EchoesAreOurs' /\ OpenedByEcho' /\ FirstIsGated'
    <2>1. EchoesAreOurs /\ OpenedByEcho /\ FirstIsGated
      BY <1>5 DEF GateInv
    <2>2. EchoesAreOurs'
      BY <1>2, <2>1 DEF EchoesAreOurs, IsOf, ExpectedEcho
    <2>3. OpenedByEcho'
      BY <1>2, <2>1 DEF OpenedByEcho, Opened, ExpectedEcho
    <2>4. FirstIsGated'
      <3>1. published = 0 => ~Opened
        BY <1>1, <1>2, <2>1, TopicFacts DEF OpenedByEcho
      <3>2. Opened' => Opened
        BY <1>2 DEF Opened
      <3> QED BY <1>1, <1>2, <3>1, <3>2 DEF FirstIsGated
    <2> QED BY <2>2, <2>3, <2>4
  <1> QED BY <1>2, <1>3, <1>4, <1>5 DEF GateInv, ExpectedEcho

\* The broker takes the awaited topic last, so it has them all by then.
LEMMA GateBroker == IInv /\ GateInv /\ BrokerReceives => GateInv'
  <1> SUFFICES ASSUME IInv, GateInv, BrokerReceives PROVE GateInv'
    OBVIOUS
  <1> DEFINE m == toBroker[1]
  <1>1. /\ toBroker \in Seq(Messages) /\ toClient \in Seq(Messages)
        /\ retained \in [TopicSet -> 0 .. published] /\ published \in Nat
        /\ AwaitedLast(toBroker) /\ AwaitedTells
    BY DEF IInv, TypeOK, GateInv
  <1>2. /\ toBroker # <<>> /\ toBroker' = Tail(toBroker) /\ m = Head(toBroker)
        /\ UNCHANGED <<leftover, published, confirmed, posted, ready, poller, swept, accepted>>
    BY <1>1 DEF BrokerReceives, gateVars, history
  <1>3. /\ 1 \in DOMAIN toBroker /\ m \in Messages
        /\ Len(toBroker) \in Nat /\ DOMAIN toBroker = 1 .. Len(toBroker)
        /\ Len(toBroker') = Len(toBroker) - 1 /\ DOMAIN toBroker' = 1 .. Len(toBroker')
        /\ \A p \in DOMAIN toBroker' : p + 1 \in DOMAIN toBroker /\ toBroker'[p] = toBroker[p + 1]
    BY <1>1, <1>2
  <1>4. /\ m.kind = "config" => m.topic \in TopicSet /\ m.number > 0
        /\ retained' = IF m.kind = "config"
                       THEN [retained EXCEPT ![m.topic] = m.number] ELSE retained
    BY <1>1, <1>2, <1>3, MessageFacts DEF AwaitedLast, BrokerReceives
  <1>5. \A t \in TopicSet : retained[t] > 0 \/ IsOf(m, t) => retained'[t] > 0
    BY <1>1, <1>4 DEF IsOf
  <1>6. \A t \in TopicSet : retained'[t] > 0 => retained[t] > 0 \/ IsOf(m, t)
    BY <1>1, <1>4 DEF IsOf
  <1>7. AwaitedLast(toBroker)'
    <2> SUFFICES ASSUME NEW p \in DOMAIN toBroker'
                 PROVE  /\ toBroker'[p].kind = "config" => toBroker'[p].number > 0
                        /\ IsOf(toBroker'[p], ExpectedEcho) =>
                              \A t \in TopicSet :
                                  \/ retained'[t] > 0
                                  \/ \E q \in 1 .. p : IsOf(toBroker'[q], t)
      BY DEF AwaitedLast, ExpectedEcho, TopicSet, IsOf
    <2>1. p + 1 \in DOMAIN toBroker /\ toBroker'[p] = toBroker[p + 1] /\ p \in Nat
      BY <1>3
    <2>2. ASSUME IsOf(toBroker'[p], ExpectedEcho), NEW t \in TopicSet, ~(retained'[t] > 0)
          PROVE  \E q \in 1 .. p : IsOf(toBroker'[q], t)
      <3>1. PICK q \in 1 .. p + 1 : IsOf(toBroker[q], t)
        BY <1>1, <1>5, <2>1, <2>2 DEF AwaitedLast
      <3>2. q # 1
        BY <1>5, <2>2, <3>1
      <3>3. q - 1 \in 1 .. p /\ q - 1 \in DOMAIN toBroker' /\ (q - 1) + 1 = q
        BY <1>3, <2>1, <3>1, <3>2
      <3>4. toBroker'[q - 1] = toBroker[q]
        BY <1>3, <3>3
      <3> QED BY <3>1, <3>3, <3>4
    <2> QED BY <1>1, <2>1, <2>2 DEF AwaitedLast
  <1>8. AwaitedTells'
    <2>1. ASSUME IsOf(m, ExpectedEcho), NEW t \in TopicSet
          PROVE  retained'[t] > 0
      <3>1. retained[t] > 0 \/ \E q \in 1 .. 1 : IsOf(toBroker[q], t)
        BY <1>1, <1>3, <2>1 DEF AwaitedLast
      <3>2. retained[t] > 0 \/ IsOf(m, t)
        BY <3>1
      <3> QED BY <1>5, <3>2
    <2> QED BY <1>1, <1>5, <1>6, <2>1, TopicFacts DEF AwaitedTells, ExpectedEcho, TopicSet
  <1>9. ASSUME ExpectedEcho \notin leftover
        PROVE  EchoesAreOurs' /\ OpenedByEcho' /\ FirstIsGated'
    <2>1. EchoesAreOurs /\ OpenedByEcho /\ FirstIsGated
      BY <1>9 DEF GateInv
    <2>2. OpenedByEcho' /\ FirstIsGated'
      BY <1>2, <1>5, <2>1, TopicFacts DEF OpenedByEcho, FirstIsGated, Opened, ExpectedEcho
    <2>3. retained[ExpectedEcho] > 0 => retained'[ExpectedEcho] > 0
      BY <1>5, TopicFacts
    <2>4. CASE /\ m.kind = "subscribe" /\ retained' = retained
               /\ \E q \in Resends :
                     toClient' = toClient \o [i \in DOMAIN q |-> Config(q[i], retained[q[i]])]
      <3>1. PICK q \in Resends :
               toClient' = toClient \o [i \in DOMAIN q |-> Config(q[i], retained[q[i]])]
        BY <2>4
      <3> DEFINE answer == [i \in DOMAIN q |-> Config(q[i], retained[q[i]])]
      <3>2. PICK n \in 0 .. Len(Topics) : q \in [1 .. n -> Kept]
        BY <3>1 DEF Resends
      <3>3. \A i \in 1 .. n :
               /\ answer[i] \in Messages
               /\ IsOf(answer[i], ExpectedEcho) =>
                     answer[i].number > 0 /\ retained[ExpectedEcho] > 0
        <4> SUFFICES ASSUME NEW i \in 1 .. n
                     PROVE  LET a == Config(q[i], retained[q[i]])
                            IN  /\ a \in Messages
                                /\ IsOf(a, ExpectedEcho) =>
                                      a.number > 0 /\ retained[ExpectedEcho] > 0
          BY <3>2
        <4>1. q[i] \in TopicSet /\ Present(q[i])
          BY <3>2 DEF Kept
        <4>2. Config(q[i], retained[q[i]]) \in Messages
          BY <1>1, <4>1, ConfigMessage
        <4>3. ASSUME q[i] = ExpectedEcho PROVE retained[q[i]] > 0
          <5>1. retained[q[i]] # 0
            BY <1>9, <4>1, <4>3 DEF Present
          <5> QED BY <1>1, <4>1, <5>1
        <4> QED BY <4>2, <4>3 DEF IsOf, Config
      <3>4. answer \in Seq(Messages) /\ Len(answer) = n /\ n \in Nat
        BY <3>2, <3>3, TopicFacts
      <3>5. /\ Len(toClient') = Len(toClient) + n /\ toClient' \in Seq(Messages)
            /\ \A p \in 1 .. Len(toClient) + n :
                  toClient'[p] = IF p <= Len(toClient) THEN toClient[p]
                                 ELSE answer[p - Len(toClient)]
        <4> HIDE DEF answer
        <4>1. toClient' = toClient \o answer
          BY <3>1 DEF answer
        <4> QED BY <1>1, <3>4, <4>1, ConcatProperties, Zenon
      <3>6. ASSUME NEW p \in DOMAIN toClient', IsOf(toClient'[p], ExpectedEcho)
            PROVE  toClient'[p].number > 0 /\ retained[ExpectedEcho] > 0
        <4> HIDE DEF answer
        <4>1. p \in 1 .. Len(toClient) + n /\ Len(toClient) \in Nat /\ p \in Nat
          BY <1>1, <3>4, <3>5
        <4>2. CASE p <= Len(toClient)
          <5>1. p \in DOMAIN toClient /\ toClient'[p] = toClient[p]
            BY <1>1, <3>5, <4>1, <4>2
          <5> QED BY <2>1, <3>6, <5>1 DEF EchoesAreOurs
        <4>3. CASE p > Len(toClient)
          <5>1. p - Len(toClient) \in 1 .. n /\ toClient'[p] = answer[p - Len(toClient)]
            BY <3>4, <3>5, <4>1, <4>3
          <5> QED BY <3>3, <3>6, <5>1
        <4> QED BY <4>1, <4>2, <4>3
      <3> QED BY <2>2, <2>4, <3>6 DEF EchoesAreOurs, ExpectedEcho
    <2>5. CASE /\ m.kind = "config"
               /\ toClient' = IF subscribed THEN Append(toClient, m) ELSE toClient
      <3>1. ASSUME NEW p \in DOMAIN toClient', IsOf(toClient'[p], ExpectedEcho)
            PROVE  toClient'[p].number > 0 /\ retained'[ExpectedEcho] > 0
        <4>1. CASE p \in DOMAIN toClient
          <5>1. toClient'[p] = toClient[p]
            BY <1>1, <1>3, <2>5, <4>1
          <5> QED BY <2>1, <2>3, <3>1, <4>1, <5>1 DEF EchoesAreOurs
        <4>2. CASE p \notin DOMAIN toClient
          <5>1. toClient'[p] = m
            BY <1>1, <1>3, <2>5, <3>1, <4>2
          <5> QED BY <1>4, <1>5, <3>1, <5>1, TopicFacts DEF IsOf
        <4> QED BY <4>1, <4>2
      <3> QED BY <2>2, <3>1 DEF EchoesAreOurs, ExpectedEcho, IsOf
    <2> QED BY <1>2, <2>4, <2>5 DEF BrokerReceives
  <1> QED BY <1>2, <1>7, <1>8, <1>9 DEF GateInv, ExpectedEcho

\* An echo of the awaited topic opens the gate, and is the newest if there is
\* only one; a command passes only a gate that is open.
LEMMA GateReceive == IInv /\ GateInv /\ Receive => GateInv'
  <1> SUFFICES ASSUME IInv, GateInv, Receive PROVE GateInv'
    OBVIOUS
  <1> DEFINE m == Head(toClient)
  <1>1. /\ toClient \in Seq(Messages) /\ toBroker \in Seq(Messages) /\ published \in Nat
        /\ AwaitedLast(toBroker) /\ AwaitedTells /\ posted \in Nat
        /\ confirmed \in 0 .. published /\ expected \in {ExpectedEcho, "none"}
    BY DEF IInv, TypeOK, GateInv, LastTells
  <1>2. /\ toClient # <<>> /\ toClient' = Tail(toClient)
        /\ UNCHANGED <<leftover, retained>>
    BY DEF Receive, brokerVars
  <1>3. /\ toClient' \in Seq(Messages) /\ m \in Messages
        /\ 1 \in DOMAIN toClient /\ toClient[1] = m
        /\ \A p \in DOMAIN toClient' : p + 1 \in DOMAIN toClient /\ toClient'[p] = toClient[p + 1]
    BY <1>1, <1>2
  <1>4. CASE HandleRequest(m)
    <2>1. (m.kind = "remove") \in BOOLEAN /\ Publish(toBroker, m.kind = "remove")
      BY <1>4 DEF HandleRequest
    <2>2. \A p \in DOMAIN toClient' : \E q \in DOMAIN toClient : toClient'[p] = toClient[q]
      BY <1>3
    <2> QED BY <1>1, <1>2, <1>3, <2>1, <2>2, GatePublish
  <1>5. CASE HandleConfig(m) \/ HandleCommand(m)
    <2>1. /\ UNCHANGED <<toBroker, published, ready, poller, swept>>
          /\ AwaitedLast(toBroker)' /\ AwaitedTells'
      <3>1. UNCHANGED <<toBroker, published, ready, poller, swept>>
        BY <1>5 DEF HandleConfig, HandleCommand, gateVars
      <3>2. AwaitedLast(toBroker)' /\ AwaitedTells'
        BY <1>1, <1>2, <3>1 DEF AwaitedLast, AwaitedTells, ExpectedEcho, TopicSet, IsOf
      <3> QED BY <3>1, <3>2
    <2>2. ASSUME ExpectedEcho \notin leftover
          PROVE  EchoesAreOurs' /\ OpenedByEcho' /\ FirstIsGated'
      <3>1. EchoesAreOurs /\ OpenedByEcho /\ FirstIsGated
        BY <2>2 DEF GateInv
      <3>2. EchoesAreOurs'
        BY <1>2, <1>3, <3>1 DEF EchoesAreOurs, ExpectedEcho
      <3>3. CASE HandleConfig(m)
        <4>1. CASE m.topic = expected
          <5>1. IsOf(m, ExpectedEcho)
            BY <1>1, <1>3, <3>3, <4>1, MessageFacts, TopicFacts DEF IsOf, HandleConfig
          <5>2. m.number > 0 /\ retained[ExpectedEcho] > 0 /\ m.number \in 0 .. published
            BY <1>3, <3>1, <5>1, MessageFacts DEF EchoesAreOurs, IsOf
          <5>3. confirmed' = m.number /\ accepted' = accepted
            BY <3>3, <4>1 DEF HandleConfig, HandleEcho
          <5>4. published <= 1 => m.number = published
            BY <1>1, <5>2
          <5> QED BY <1>2, <2>1, <3>2, <5>2, <5>3, <5>4
                  DEF OpenedByEcho, FirstIsGated, ExpectedEcho
        <4>2. CASE m.topic # expected
          <5>1. UNCHANGED <<posted, confirmed, accepted>>
            BY <3>3, <4>2 DEF HandleConfig, HandleEcho
          <5> QED BY <1>2, <2>1, <3>1, <3>2, <5>1
                  DEF OpenedByEcho, FirstIsGated, Opened, ExpectedEcho
        <4> QED BY <4>1, <4>2
      <3>4. CASE HandleCommand(m)
        <4>1. UNCHANGED <<posted, confirmed>> /\ accepted' = (accepted \/ ready)
          BY <3>4 DEF HandleCommand, gateVars
        <4> QED BY <1>2, <2>1, <3>1, <3>2, <4>1
                DEF OpenedByEcho, FirstIsGated, Opened, ExpectedEcho
      <3> QED BY <1>5, <3>3, <3>4
    <2> QED BY <1>2, <2>1, <2>2 DEF GateInv, ExpectedEcho
  <1> QED BY <1>4, <1>5 DEF Receive

LEMMA GateConnect == IInv /\ GateInv /\ Connect => GateInv'
  <1> SUFFICES ASSUME IInv, GateInv, Connect PROVE GateInv'
    OBVIOUS
  <1>1. <<Subscribe>> \in Seq(Messages) /\ toClient \in Seq(Messages) /\ FALSE \in BOOLEAN
    BY PlainMessage DEF Subscribe, IInv, TypeOK
  <1>2. AwaitedLast(<<Subscribe>>)
    BY DEF AwaitedLast, IsOf, Subscribe, Plain
  <1> QED BY <1>1, <1>2, GatePublish DEF Connect

\* The gate is opened by an echo, the synchronizer runs once it was open.
LEMMA GateOthers ==
    ASSUME IInv, GateInv,
           \/ NeverConnect \/ OpenGate \/ Sweep \/ LoseConnection
           \/ \E kind \in {"restart", "remove", "command"} : HaRequests(kind)
           \/ UNCHANGED vars
    PROVE  GateInv'
  <1>1. /\ UNCHANGED <<leftover, retained, published, confirmed, accepted>>
        /\ toBroker' \in {toBroker, <<>>}
    BY DEF NeverConnect, OpenGate, Sweep, LoseConnection, HaRequests, vars,
           brokerVars, history
  <1>2. AwaitedLast(toBroker)' /\ AwaitedTells'
    <2>1. AwaitedLast(toBroker) /\ AwaitedTells
      BY DEF GateInv
    <2>2. CASE toBroker' = toBroker
      BY <1>1, <2>1, <2>2 DEF AwaitedLast, AwaitedTells, ExpectedEcho, TopicSet, IsOf
    <2>3. CASE toBroker' = <<>>
      BY <1>1, <2>1, <2>3 DEF AwaitedLast, AwaitedTells, ExpectedEcho, TopicSet
    <2> QED BY <1>1, <2>2, <2>3
  <1>3. ASSUME ExpectedEcho \notin leftover
        PROVE  EchoesAreOurs' /\ OpenedByEcho' /\ FirstIsGated'
    <2>1. EchoesAreOurs /\ OpenedByEcho /\ FirstIsGated
      BY <1>3 DEF GateInv
    <2>2. Opened' => Opened
      BY DEF Opened, NeverConnect, OpenGate, Sweep, LoseConnection, HaRequests, vars,
             gateVars, IInv, TypeOK
    <2>3. swept' => swept \/ Opened
      BY DEF Opened, NeverConnect, OpenGate, Sweep, LoseConnection, HaRequests, vars, history
    <2>4. OpenedByEcho' /\ FirstIsGated'
      BY <1>1, <2>1, <2>2, <2>3 DEF OpenedByEcho, FirstIsGated, ExpectedEcho
    <2>5. EchoesAreOurs'
      <3>1. CASE toClient' = toClient
        BY <1>1, <2>1, <3>1 DEF EchoesAreOurs, ExpectedEcho, IsOf
      <3>2. CASE toClient' = <<>>
        BY <3>2 DEF EchoesAreOurs
      <3>3. CASE \E kind \in {"restart", "remove", "command"} :
                    toClient' = Append(toClient, Plain(kind))
        <4>1. PICK kind \in {"restart", "remove", "command"} :
                 toClient' = Append(toClient, Plain(kind))
          BY <3>3
        <4>2. toClient \in Seq(Messages) /\ Plain(kind) \in Messages
              /\ ~IsOf(Plain(kind), ExpectedEcho)
          BY PlainMessage DEF IInv, TypeOK, IsOf, Plain
        <4>3. \A p \in DOMAIN toClient' :
                 toClient'[p] = Plain(kind) \/ (p \in DOMAIN toClient /\ toClient'[p] = toClient[p])
          <5>1. toClient \in Seq(Messages) /\ Plain(kind) \in Messages
            BY <4>2
          <5> HIDE DEF Plain
          <5> QED BY <4>1, <5>1
        <4>4. \A p \in DOMAIN toClient' :
                 IsOf(toClient'[p], ExpectedEcho) =>
                     p \in DOMAIN toClient /\ toClient'[p] = toClient[p]
          BY <4>2, <4>3
        <4> QED BY <1>1, <2>1, <4>4 DEF EchoesAreOurs, ExpectedEcho
      <3> QED BY <3>1, <3>2, <3>3
              DEF NeverConnect, OpenGate, Sweep, LoseConnection, HaRequests, vars
    <2> QED BY <2>4, <2>5
  <1> QED BY <1>1, <1>2, <1>3 DEF GateInv, ExpectedEcho

LEMMA InitGate == Init => GateInv
  <1> SUFFICES ASSUME Init PROVE GateInv
    OBVIOUS
  <1>1. retained[ExpectedEcho] = 0
    BY TopicFacts DEF Init
  <1> QED BY <1>1 DEF Init, GateInv, AwaitedLast, AwaitedTells, EchoesAreOurs,
             OpenedByEcho, FirstIsGated, Opened

LEMMA NextGate == IInv /\ GateInv /\ [Next]_vars => GateInv'
  <1> SUFFICES ASSUME IInv, GateInv, [Next]_vars PROVE GateInv'
    OBVIOUS
  <1>1. CASE Connect
    BY <1>1, GateConnect
  <1>2. CASE Receive
    BY <1>2, GateReceive
  <1>3. CASE BrokerReceives
    BY <1>3, GateBroker
  <1>4. CASE \/ NeverConnect \/ OpenGate \/ Sweep \/ LoseConnection
             \/ \E kind \in {"restart", "remove", "command"} : HaRequests(kind)
             \/ UNCHANGED vars
    BY <1>4, GateOthers
  <1> QED BY <1>1, <1>2, <1>3, <1>4 DEF Next

-----------------------------------------------------------------------------
(* The theorems *)

LEMMA InitIInv == Init => IInv
  <1> SUFFICES ASSUME Init PROVE IInv
    OBVIOUS
  <1>1. TypeOK
    <2>1. toBroker \in Seq(Messages) /\ toClient \in Seq(Messages)
      BY DEF Init
    <2>2. outages \in 0 .. MaxOutages /\ requests \in 0 .. MaxRequests
      BY TopicsAssumption DEF Init
    <2>3. /\ published \in Nat /\ posted \in Nat /\ confirmed \in 0 .. published
          /\ retained \in [TopicSet -> 0 .. published] /\ removals \subseteq 1 .. published
      BY DEF Init
    <2> QED BY <2>1, <2>2, <2>3 DEF Init, TypeOK
  <1>2. InOrder /\ OlderAhead
    BY DEF Init, InOrder, OlderAhead
  <1>3. LastTells
    BY TopicFacts DEF Init, LastTells
  <1> QED BY <1>1, <1>2, <1>3 DEF IInv

LEMMA NextIInv == IInv /\ [Next]_vars => IInv'
  <1> SUFFICES ASSUME IInv, [Next]_vars PROVE IInv'
    OBVIOUS
  <1>1. CASE Connect
    BY <1>1, ConnectStep
  <1>2. CASE Receive
    BY <1>2, ReceiveStep
  <1>3. CASE BrokerReceives
    BY <1>3, BrokerStep
  <1>4. CASE \/ NeverConnect \/ OpenGate \/ Sweep \/ LoseConnection
             \/ \E kind \in {"restart", "remove", "command"} : HaRequests(kind)
             \/ UNCHANGED vars
    BY <1>4, OtherSteps
  <1> QED BY <1>1, <1>2, <1>3, <1>4 DEF Next

\* What is on its way to the broker ends with the newest publication, in the
\* order of the topics; so the last config message arrives after all others.
THEOREM HandshakeInvariant == Spec => []IInv
  <1> QED BY InitIInv, NextIInv, PTL DEF Spec

\* publish() waits for the echo of its last config message only: when that is
\* handled, the broker has every config message of the publication.
THEOREM EchoIsEnough == Spec => []EchoSpeaksForAll
  <1>1. IInv => EchoSpeaksForAll
    BY DEF IInv, LastTells, EchoSpeaksForAll
  <1> QED BY <1>1, HandshakeInvariant, PTL

\* On the first run, a poll or a command that passes the gate finds every
\* entity at the broker, through all outages, restarts and removals; and with
\* nothing published anew, the gate waits for the echo as it is meant to.
THEOREM GateIsHeld == Spec => []GateHolds
  <1> QED BY InitIInv, NextIInv, InitGate, NextGate, GateHoldsBy, PTL DEF Spec

=============================================================================
