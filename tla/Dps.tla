-------------------------------- MODULE Dps --------------------------------
(***************************************************************************)
(* The registration of the gateway with the Azure device provisioning      *)
(* service: device_provisioning_start, azure_mqtt and mqtt_event_handler   *)
(* of test_azure_sdk.c.  The handler runs in the task of the MQTT client   *)
(* and carries the whole conversation: on every connection it subscribes   *)
(* to the answers and registers, polls three seconds after each 202, and   *)
(* is done at the 200.                                                     *)
(*                                                                         *)
(* External: the MQTT client and the service.  What the client publishes   *)
(* with QoS 1, and its subscriptions, wait in an outbox that outlives the  *)
(* connection and may be delivered twice; what the service sends is lost   *)
(* with the connection, and where there is no subscription.  The service   *)
(* accepts a connection only with a token that is signed and has not       *)
(* expired, takes some polls to assign a hub, and may refuse a request.    *)
(***************************************************************************)
EXTENDS Naturals, Sequences, FiniteSets

CONSTANTS
  MaxConnects,    \* bound: connections
  MaxDuplicates,  \* bound: requests delivered again
  MaxRefusals,    \* bound: requests the service refuses
  MaxAssigning    \* bound: polls answered with 202

ASSUME BoundsAssumption ==
  /\ MaxConnects \in Nat
  /\ MaxDuplicates \in Nat
  /\ MaxRefusals \in Nat
  /\ MaxAssigning \in Nat

Requests == {"subscribe", "register", "poll"}
Answers == {"subscribed", "202", "200", "refused"}

VARIABLES
  sas_token,    \* "none", "signed", "garbage" or "expired"
  connected,
  outbox,       \* what the client has to deliver
  subscribed,   \* the service sends answers on this connection
  inbox,        \* answers on their way to the client
  polling,      \* the handler sleeps before it polls
  provisioned,  \* "Provisioned to hub" has been logged
  assigning,    \* polls still to be answered with 202
  connects, duplicates, refusals

vars == <<sas_token, connected, outbox, subscribed, inbox, polling,
          provisioned, assigning, connects, duplicates, refusals>>
service == <<subscribed, assigning>>
bounds == <<connects, duplicates, refusals>>

Init ==
  /\ sas_token = "none"
  /\ connected = FALSE
  /\ outbox = <<>>
  /\ subscribed = FALSE
  /\ inbox = <<>>
  /\ polling = FALSE
  /\ provisioned = FALSE
  /\ assigning \in 0..MaxAssigning
  /\ connects = 0 /\ duplicates = 0 /\ refusals = 0

(* generate_sas_token, and azure_mqtt with the buffer it leaves: when the  *)
(* TPM does not sign, the buffer was never written.                        *)
device_provisioning_start ==
  /\ sas_token = "none"
  /\ sas_token' \in {"signed", "garbage"}
  /\ UNCHANGED <<connected, outbox, inbox, polling, provisioned, service, bounds>>

(* expiry_time, one hour after the start, has passed.                      *)
Expire ==
  /\ sas_token = "signed"
  /\ sas_token' = "expired"
  /\ UNCHANGED <<connected, outbox, inbox, polling, provisioned, service, bounds>>

Connect ==
  /\ ~ connected /\ ~ polling
  /\ sas_token = "signed"
  /\ connects < MaxConnects
  /\ connects' = connects + 1
  /\ connected' = TRUE

(* Mutant of MqttConnected: it registers before it subscribes.             *)
MqttConnected_RegisterFirst ==
  /\ Connect
  /\ outbox' = outbox \o <<"register", "subscribe">>
  /\ UNCHANGED <<sas_token, inbox, polling, provisioned, service, duplicates,
                 refusals>>

(* MQTT_EVENT_CONNECTED.                                                   *)
MqttConnected ==
  /\ Connect
  /\ outbox' = outbox \o <<"subscribe", "register">>
  /\ UNCHANGED <<sas_token, inbox, polling, provisioned, service, duplicates,
                 refusals>>

(* MQTT_EVENT_DISCONNECTED is only logged; the client connects again.      *)
MqttDisconnected ==
  /\ connected
  /\ connected' = FALSE
  /\ subscribed' = FALSE
  /\ inbox' = <<>>
  /\ UNCHANGED <<sas_token, outbox, polling, provisioned, assigning, bounds>>

(***************************************************************************)
(* The service takes the first request.  Its acknowledgement may be lost:  *)
(* then the client delivers the request again.                             *)
(***************************************************************************)
Reply(request) ==
  IF request = "subscribe" THEN "subscribed"
  ELSE IF request = "poll" /\ assigning = 0 THEN "200"
  ELSE "202"

Acknowledge ==
  \/ outbox' = Tail(outbox) /\ UNCHANGED duplicates
  \/ /\ duplicates < MaxDuplicates
     /\ duplicates' = duplicates + 1
     /\ UNCHANGED outbox

ServiceAnswers ==
  /\ connected /\ outbox # <<>>
  /\ LET request == Head(outbox)
     IN /\ subscribed' = (subscribed \/ request = "subscribe")
        /\ inbox' = IF subscribed' THEN Append(inbox, Reply(request)) ELSE inbox
        /\ assigning' = IF request = "poll" /\ assigning > 0
                          THEN assigning - 1 ELSE assigning
  /\ Acknowledge
  /\ UNCHANGED <<sas_token, connected, polling, provisioned, connects, refusals>>

ServiceRefuses ==
  /\ connected /\ outbox # <<>>
  /\ Head(outbox) \in {"register", "poll"}
  /\ refusals < MaxRefusals
  /\ refusals' = refusals + 1
  /\ inbox' = IF subscribed THEN Append(inbox, "refused") ELSE inbox
  /\ outbox' = Tail(outbox)
  /\ UNCHANGED <<sas_token, connected, polling, provisioned, service, connects,
                 duplicates>>

(***************************************************************************)
(* mqtt_event_handler, for the first answer.  While it sleeps the task of  *)
(* the client handles nothing else.                                        *)
(***************************************************************************)
Take(answer) ==
  /\ connected /\ ~ polling
  /\ inbox # <<>> /\ Head(inbox) = answer
  /\ inbox' = Tail(inbox)

(* MQTT_EVENT_SUBSCRIBED: publishes "data" with QoS 0: it is sent or lost, *)
(* never waits in the outbox, and nobody answers it.                       *)
MqttSubscribed ==
  /\ Take("subscribed")
  /\ UNCHANGED <<sas_token, connected, outbox, polling, provisioned, service,
                 bounds>>

(* Mutant of MqttData202: the answer to a poll is not followed by another. *)
MqttData202_Once ==
  /\ Take("202")
  /\ polling' = (assigning > 0)
  /\ UNCHANGED <<sas_token, connected, outbox, provisioned, service, bounds>>

(* res/202: keeps the operation id, vTaskDelay(3000).                      *)
MqttData202 ==
  /\ Take("202")
  /\ polling' = TRUE
  /\ UNCHANGED <<sas_token, connected, outbox, provisioned, service, bounds>>

(* Mutants of Poll: it polls twice; it registers again.                    *)
Poll_Twice ==
  /\ polling
  /\ polling' = FALSE
  /\ outbox' = outbox \o <<"poll", "poll">>
  /\ UNCHANGED <<sas_token, connected, inbox, provisioned, service, bounds>>

Poll_Registers ==
  /\ polling
  /\ polling' = FALSE
  /\ outbox' = Append(outbox, "register")
  /\ UNCHANGED <<sas_token, connected, inbox, provisioned, service, bounds>>

(* ... and publishes the poll, connected or not.                           *)
Poll ==
  /\ polling
  /\ polling' = FALSE
  /\ outbox' = Append(outbox, "poll")
  /\ UNCHANGED <<sas_token, connected, inbox, provisioned, service, bounds>>

(* res/200: the hub and the device id are logged.                          *)
MqttData200 ==
  /\ Take("200")
  /\ provisioned' = TRUE
  /\ UNCHANGED <<sas_token, connected, outbox, polling, service, bounds>>

(* Any other answer is printed and forgotten.                              *)
MqttDataOther ==
  /\ Take("refused")
  /\ UNCHANGED <<sas_token, connected, outbox, polling, provisioned, service,
                 bounds>>

Handler ==
  MqttSubscribed \/ MqttData202 \/ Poll \/ MqttData200 \/ MqttDataOther
Service == ServiceAnswers \/ ServiceRefuses

Next ==
  \/ device_provisioning_start \/ Expire
  \/ MqttConnected \/ MqttDisconnected
  \/ Service
  \/ Handler

Spec == Init /\ [][Next]_vars

(* The task of the client runs, and the service answers a connection.      *)
FairSpec == Spec /\ WF_vars(Handler) /\ WF_vars(Service)

(***************************************************************************)
(* Properties                                                              *)
(***************************************************************************)
TypeOK ==
  /\ sas_token \in {"none", "signed", "garbage", "expired"}
  /\ connected \in BOOLEAN /\ subscribed \in BOOLEAN
  /\ outbox \in Seq(Requests)
  /\ inbox \in Seq(Answers)
  /\ polling \in BOOLEAN /\ provisioned \in BOOLEAN
  /\ assigning \in 0..MaxAssigning
  /\ connects \in 0..MaxConnects
  /\ duplicates \in 0..MaxDuplicates
  /\ refusals \in 0..MaxRefusals

(* Before the subscription is in force a registration waits behind it: its *)
(* answer will be heard.                                                   *)
WillRegister ==
  \E i, j \in DOMAIN outbox :
    i < j /\ outbox[i] = "subscribe" /\ outbox[j] = "register"

(* The conversation goes on: somebody has the next step to do.             *)
Talking ==
  \/ polling
  \/ \E i \in DOMAIN outbox : outbox[i] \in {"register", "poll"}
  \/ \E i \in DOMAIN inbox : inbox[i] \in {"202", "200"}

(* A registration is never stranded: on a connection that has not led to a *)
(* hub, and with no request refused, a request, an answer or a poll is on  *)
(* its way and its answer will be heard, whatever connections were lost at *)
(* whatever step before.                                                   *)
NeverStranded ==
  connected /\ ~ provisioned /\ refusals = 0 =>
    IF subscribed THEN Talking ELSE WillRegister

(* There is at most one conversation for each connection there has been,   *)
(* and one for each request delivered twice: polls do not multiply.        *)
Count(q, kind) == Cardinality({i \in DOMAIN q : q[i] \in kind})

OneConversationEach ==
  Count(outbox, {"register", "poll"}) + Count(inbox, {"202", "200"})
    + (IF polling THEN 1 ELSE 0) <= connects + duplicates

(* On a connection that lasts, with no refusal, the gateway gets its hub.  *)
GetsProvisioned ==
  <>[](connected /\ refusals = 0) => <>provisioned
=============================================================================
