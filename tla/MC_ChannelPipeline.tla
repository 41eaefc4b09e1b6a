------------------------- MODULE MC_ChannelPipeline -------------------------
(* Small instances of ChannelPipeline.                                     *)
EXTENDS ChannelPipeline

Configured(app, listeners, inbound, auto, autoRetry, retrying) ==
    [ app |-> app, listeners |-> listeners, inbound |-> inbound,
      autoRegister |-> auto, autoRetry |-> autoRetry, retrying |-> retrying ]

\* Without and with handlers of the application; two owners of one message.
Inbounds == { <<"TypedAdapter", "TypedAdapter">>, <<"Adapter", "TypedAdapter">> }

Servers ==
    { Configured("server", FALSE, <<>>, auto, FALSE, FALSE) : auto \in BOOLEAN }
        \cup { Configured("server", TRUE, inbound, TRUE, FALSE, FALSE) : inbound \in Inbounds }

Clients ==
    { Configured("client", TRUE, <<"TypedAdapter">>, FALSE, retry, retry) :
        retry \in BOOLEAN }

AllConfigs == Servers \cup Clients
=============================================================================
