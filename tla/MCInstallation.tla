---------------------------- MODULE MCInstallation ---------------------------
\* The commands of one installation, and the config they load.
EXTENDS Installation

MCSlots == 1..5
MCReleases == {"good", "dies", "sick"}
MCCommands ==
  ({"start", "stop", "restart"} \X {"bridge"})
    \cup {<<"start", "scan">>, <<"show", "bridge">>, <<"update", "bridge">>}

DeviceAnswers ==
  [deviceIp : {"192.168.1.20"}, devicePort : {0, 1, 65535}, devicePassword : {-1, 0},
   deviceTimeout : {15}, deviceForceUdp : {TRUE}, deviceOmitPing : {FALSE},
   deviceTimezone : {"UTC", "Asia/Dhaka"}, deviceCode : {"GATE-01", "GATE-02"},
   apiKey : {"key"}, organizationId : {7}, syncIntervalSeconds : {5},
   clearAttendanceAfterSync : {TRUE}]
SomeDevice == CHOOSE d \in DeviceAnswers : d.deviceCode = "GATE-01" /\ d.devicePort = 1
DeviceLists ==
  {<<d>> : d \in DeviceAnswers}
    \cup {<<SomeDevice, d>> : d \in {e \in DeviceAnswers : e.devicePort < 65535}}

SenseFaceAnswers ==
  {[bindHost |-> "0.0.0.0", port |-> p, timezone |-> "UTC", deviceCodePrefix |-> "SF",
    apiKey |-> "sf-key", organizationId |-> 1, forwardIntervalSeconds |-> 5,
    devices |-> ds] :
     p \in {0, 65535},
     ds \in LET s(n, key) == [serialNumber |-> "SN-1", deviceCode |-> n, apiKey |-> key,
                              organizationId |-> 7]
            IN {<<>>, <<s("FACE-01", "sf-key")>>,
                <<s("FACE-01", "own"),
                  [s("FACE-02", "sf-key") EXCEPT !.serialNumber = "SN-2"]>>,
                <<s("FACE-01", "own"), s("FACE-02", "own")>>}}

MCAnswers ==
  {[bridgeMode |-> m, vpsWebhookUrl |-> "http://hrms/", bridgePort |-> p,
    autoStartOnBoot |-> b, autoUpdate |-> ~b, jobs |-> j[1], hrmsBaseUrl |-> "http://hrms/",
    hrmsApiToken |-> j[2], jobPollIntervalSeconds |-> 60, devices |-> ds,
    senseFace |-> s] :
     m \in {"pull", "push", "hybrid"}, p \in {0, 1, 65535}, b \in BOOLEAN,
     j \in {<<FALSE, "">>, <<TRUE, "">>, <<TRUE, "token">>},
     ds \in DeviceLists, s \in SenseFaceAnswers}

\* Objects with some of the keys of a device, each of which may be wrong.
Without(o, K) == [k \in DOMAIN o \ K |-> o[k]]
Receiver == <<"map", [apiKey |-> <<"str", "sf-key">>]>>
MCSingleDevices ==
  {Without([vpsWebhookUrl |-> <<"str", "http://hrms">>, bridgeMode |-> <<"str", m>>,
            senseFace |-> sf, deviceIp |-> <<"str", "192.168.1.20">>,
            deviceCode |-> <<"str", c>>, apiKey |-> <<"str", "key">>,
            devicePort |-> p, deviceForceUdp |-> <<"str", "yes">>,
            syncIntervalSeconds |-> i], K) :
     m \in {"pull", "push", "both", "none"}, sf \in {Receiver, Null},
     c \in {"GATE-01", ""}, p \in {<<"int", 65535>>, <<"str", "70000">>, Null},
     i \in {<<"int", 1>>, <<"str", "60">>, <<"str", "-1">>},
     K \in {{}, {"deviceIp"}, {"apiKey", "senseFace"}, {"deviceCode", "devicePort"},
            {"bridgeMode"}}}
=============================================================================
