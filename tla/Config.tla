-------------------------------- MODULE Config --------------------------------
(***************************************************************************)
(* src/config/impls.rs: from_json_value as a function from JSON values to  *)
(* configs, and the wizard's config as src/application/setup.rs saves it.  *)
(*                                                                         *)
(* A JSON value is a pair of its type and its content, an object's content *)
(* a record, as <<"str", "GATE-01">>; a key that is not there is Missing.  *)
(* Texts are trimmed and, where the code does not look at case, in lower   *)
(* case.  Which text the error names is left out: Invalid stands for all.  *)
(***************************************************************************)
EXTENDS Integers, Sequences, FiniteSets, TLC

CONSTANTS
  Answers,       \* what is typed into the wizard, see WizardConfig
  SingleDevices  \* objects with the keys of one device beside those of the root

Missing == <<"missing">>
Null == <<"null">>
None == "none"                       \* an absent Option; no text of an input
Invalid == [bridgeMode |-> "invalid"]

MinInterval == 5
MaxOf(a, b) == IF a < b THEN b ELSE a

\* What the bounded inputs may contain: the URLs that have a host, with the
\* form strip_trailing_slash gives them, zones that resolve, numbers in texts.
Stripped(t) ==
  CASE t = "http://hrms/" -> "http://hrms" [] t = "http://" -> "http:" [] OTHER -> t
HttpUrl(t) == t \in {"http://hrms", "http://hrms/"}
Resolves(t) == t \in {"UTC", "+06:00", "Asia/Dhaka"}
NumberIn ==
  [t \in {"0", "3", "60", "-1", "70000"} |->
     CASE t = "0" -> 0 [] t = "3" -> 3 [] t = "60" -> 60 [] t = "-1" -> -1
       [] t = "70000" -> 70000]

-----------------------------------------------------------------------------
\* One value: whether it converts, and what to.

Get(o, key) == IF key \in DOMAIN o THEN o[key] ELSE Missing
Absent(v) == v \in {Missing, Null}

IntegerOk(v, min, max) ==
  \/ Absent(v)
  \/ v[1] = "int" /\ v[2] \in min..max
  \/ v[1] = "str" /\ v[2] \in DOMAIN NumberIn /\ NumberIn[v[2]] \in min..max
Integer(v, default) ==
  IF Absent(v) THEN default ELSE IF v[1] = "int" THEN v[2] ELSE NumberIn[v[2]]

MaxInput == 100000  \* bound: no input is larger; u64 and i32 hold it
MaxPort == 65535    \* what a u16 holds
U64Ok(v) == IntegerOk(v, 0, MaxInput)
I32Ok(v) == IntegerOk(v, -MaxInput, MaxInput)

\* Mutant: 0 is taken for a port.
PortOkZero(v) == IntegerOk(v, 0, MaxPort)
PortOk(v) == IntegerOk(v, 1, MaxPort)

BoolOk(v) == Absent(v) \/ v[1] \in {"bool", "int", "frac", "str"}
Bool(v, default) ==
  IF Absent(v) THEN default
  ELSE \/ v = <<"bool", TRUE>>
       \/ v[1] = "int" /\ v[2] # 0
       \/ v[1] = "str" /\ v[2] \in {"1", "true", "yes", "y", "on"}

Text(v) == IF v[1] = "str" THEN v[2] ELSE ToString(v[2])
Optional(o, key) == IF Absent(Get(o, key)) THEN None ELSE Text(Get(o, key))
Present(o, key) == Optional(o, key) \notin {None, ""}
Filled(o, key, default) == IF Present(o, key) THEN Optional(o, key) ELSE default

-----------------------------------------------------------------------------
\* parse_device_from_object; the default of a password is 0.
PunchCode == {None, "", "punchCode", "punchcode", "punch_code", "punch-code"}
FirstInLastOut ==
  {"firstInLastOut", "firstinlastout", "first_in_last_out", "first-in-last-out"}

DeviceParses(o) ==
  /\ \A key \in {"deviceIp", "deviceCode", "apiKey"} : Present(o, key)
  /\ PortOk(Get(o, "devicePort")) /\ I32Ok(Get(o, "devicePassword"))
  /\ \A key \in {"deviceTimeout", "organizationId", "syncIntervalSeconds",
                 "clearAttendanceThreshold"} : U64Ok(Get(o, key))
  /\ \A key \in {"deviceForceUdp", "deviceOmitPing", "clearAttendanceAfterSync"} :
       BoolOk(Get(o, key))
  /\ Optional(o, "eventTypeMode") \in PunchCode \cup FirstInLastOut

ParseDevice(o) ==
  [deviceIp |-> Optional(o, "deviceIp"),
   devicePort |-> Integer(Get(o, "devicePort"), 4370),
   devicePassword |-> Integer(Get(o, "devicePassword"), 0),
   deviceTimeout |-> Integer(Get(o, "deviceTimeout"), 15),
   deviceForceUdp |-> Bool(Get(o, "deviceForceUdp"), FALSE),
   deviceOmitPing |-> Bool(Get(o, "deviceOmitPing"), TRUE),
   deviceTimezone |-> Filled(o, "deviceTimezone", None),
   eventTypeMode |-> IF Optional(o, "eventTypeMode") \in PunchCode
                     THEN "punchCode" ELSE "firstInLastOut",
   deviceCode |-> Optional(o, "deviceCode"),
   apiKey |-> Optional(o, "apiKey"),
   organizationId |-> Integer(Get(o, "organizationId"), 1),
   syncIntervalSeconds |->
     MaxOf(Integer(Get(o, "syncIntervalSeconds"), 300), MinInterval),
   clearAttendanceAfterSync |-> Bool(Get(o, "clearAttendanceAfterSync"), FALSE),
   clearAttendanceThreshold |->
     IF Absent(Get(o, "clearAttendanceThreshold")) THEN <<>>
     ELSE <<Integer(Get(o, "clearAttendanceThreshold"), 0)>>]

DeviceValid(d) ==
  /\ "" \notin {d.deviceIp, d.deviceCode, d.apiKey}
  /\ d.deviceTimeout \in 1..120
  /\ d.syncIntervalSeconds >= MinInterval
  /\ d.deviceTimezone = None \/ Resolves(d.deviceTimezone)

-----------------------------------------------------------------------------
\* parse_sense_face and its validation.
SenseFaceDeviceParses(v) ==
  /\ v[1] = "map"
  /\ Present(v[2], "serialNumber") /\ Present(v[2], "deviceCode")
  /\ U64Ok(Get(v[2], "organizationId"))

ParseSenseFaceDevice(o, key, organization) ==
  [serialNumber |-> Optional(o, "serialNumber"),
   deviceCode |-> Optional(o, "deviceCode"),
   apiKey |-> Filled(o, "apiKey", key),
   organizationId |-> Integer(Get(o, "organizationId"), organization)]

SenseFaceParses(v) ==
  \/ Absent(v)
  \/ /\ v[1] = "map"
     /\ BoolOk(Get(v[2], "enabled")) /\ PortOk(Get(v[2], "port"))
     /\ Present(v[2], "apiKey")
     /\ U64Ok(Get(v[2], "organizationId"))
     /\ U64Ok(Get(v[2], "forwardIntervalSeconds"))
     /\ LET ds == Get(v[2], "devices") IN
          ds = Missing \/ (ds[1] = "list"
                           /\ \A i \in DOMAIN ds[2] : SenseFaceDeviceParses(ds[2][i]))

\* The devices inherit the key and the organization that they do not give.
ParseSenseFace(v) ==
  IF Absent(v) THEN <<>>
  ELSE LET o == v[2]
           org == Integer(Get(o, "organizationId"), 1)
           ds == IF Get(o, "devices") = Missing THEN <<>> ELSE Get(o, "devices")[2]
       IN <<[enabled |-> Bool(Get(o, "enabled"), TRUE),
             bindHost |-> Filled(o, "bindHost", "0.0.0.0"),
             port |-> Integer(Get(o, "port"), 8090),
             timezone |-> Filled(o, "timezone", "Asia/Dhaka"),
             deviceCodePrefix |-> Filled(o, "deviceCodePrefix", "SF"),
             apiKey |-> Optional(o, "apiKey"),
             organizationId |-> org,
             forwardIntervalSeconds |->
               MaxOf(Integer(Get(o, "forwardIntervalSeconds"), 10), MinInterval),
             devices |-> [i \in DOMAIN ds |->
               ParseSenseFaceDevice(ds[i][2], Optional(o, "apiKey"), org)]]>>

Distinct(f) == \A i, j \in DOMAIN f : i # j => f[i] # f[j]

SenseFaceValid(s) ==
  /\ s.enabled
  /\ "" \notin {s.bindHost, s.timezone, s.deviceCodePrefix, s.apiKey}
  /\ s.forwardIntervalSeconds >= MinInterval
  /\ \A i \in DOMAIN s.devices :
       "" \notin {s.devices[i].serialNumber, s.devices[i].deviceCode, s.devices[i].apiKey}
  /\ Distinct([i \in DOMAIN s.devices |-> s.devices[i].serialNumber])
  /\ Distinct([i \in DOMAIN s.devices |-> s.devices[i].deviceCode])

-----------------------------------------------------------------------------
\* The whole object.
ModeWords ==
  [word \in {"pull", "push", "hybrid", "both", "pull_push", "push_pull"} |->
     IF word \in {"pull", "push"} THEN word ELSE "hybrid"]

\* Only a key that is not there has a default; null is a word that is no mode.
ModeParses(v) == v = Missing \/ (v # Null /\ Text(v) \in DOMAIN ModeWords)
ParseMode(v, senseFace) ==
  IF v # Missing THEN ModeWords[Text(v)]
  ELSE IF senseFace # <<>> /\ senseFace[1].enabled THEN "push" ELSE "pull"

UsesPull(c) == c.bridgeMode \in {"pull", "hybrid"}
UsesPush(c) == c.bridgeMode \in {"push", "hybrid"}

\* Mutant: a device with a key missing is taken for no device.
HasWholeDevice(o) == {"deviceIp", "deviceCode", "apiKey"} \subseteq DOMAIN o

HasLegacyDevice(o) == DOMAIN o \cap {"deviceIp", "deviceCode", "apiKey"} # {}

\* The keys of a single device are read only if there is no list.
DeviceObjects(o) ==
  LET v == Get(o, "devices") IN
  IF v # Missing THEN [i \in DOMAIN v[2] |-> v[2][i][2]]
  ELSE IF HasLegacyDevice(o) THEN <<o>> ELSE <<>>

\* A null bridgePort has the default: only a missing one falls back to port.
PortKey(o) == IF "bridgePort" \in DOMAIN o THEN "bridgePort" ELSE "port"

Parses(o) ==
  /\ Present(o, "vpsWebhookUrl")
  /\ SenseFaceParses(Get(o, "senseFace"))
  /\ ModeParses(Get(o, "bridgeMode"))
  /\ PortOk(Get(o, PortKey(o)))
  /\ BoolOk(Get(o, "autoStartOnBoot")) /\ BoolOk(Get(o, "autoUpdate"))
  /\ U64Ok(Get(o, "jobPollIntervalSeconds"))
  /\ U64Ok(Get(o, "updateCheckIntervalHours"))
  /\ LET v == Get(o, "devices") IN
       v = Missing \/ (v[1] = "list" /\ \A i \in DOMAIN v[2] : v[2][i][1] = "map")
  /\ \A i \in DOMAIN DeviceObjects(o) : DeviceParses(DeviceObjects(o)[i])

Parse(o) ==
  LET senseFace == ParseSenseFace(Get(o, "senseFace")) IN
  [bridgeMode |-> ParseMode(Get(o, "bridgeMode"), senseFace),
   vpsWebhookUrl |-> Optional(o, "vpsWebhookUrl"),
   bridgePort |-> Integer(Get(o, PortKey(o)), 7431),
   autoStartOnBoot |-> Bool(Get(o, "autoStartOnBoot"), FALSE),
   hrmsBaseUrl |-> IF Optional(o, "hrmsBaseUrl") = None THEN None
                   ELSE Stripped(Optional(o, "hrmsBaseUrl")),
   hrmsApiToken |-> Optional(o, "hrmsApiToken"),
   jobPollIntervalSeconds |->
     MaxOf(Integer(Get(o, "jobPollIntervalSeconds"), 30), MinInterval),
   autoUpdate |-> Bool(Get(o, "autoUpdate"), FALSE),
   updateCheckIntervalHours |-> MaxOf(Integer(Get(o, "updateCheckIntervalHours"), 6), 1),
   devices |-> [i \in DOMAIN DeviceObjects(o) |-> ParseDevice(DeviceObjects(o)[i])],
   senseFace |-> senseFace]

Validate(c) ==
  /\ HttpUrl(c.vpsWebhookUrl)
  /\ c.hrmsBaseUrl = None \/ HttpUrl(c.hrmsBaseUrl)
  /\ UsesPull(c) => c.devices # <<>>
  /\ UsesPush(c) => c.senseFace # <<>> /\ SenseFaceValid(c.senseFace[1])
  /\ \A i \in DOMAIN c.devices : DeviceValid(c.devices[i])
  /\ Distinct([i \in DOMAIN c.devices |-> c.devices[i].deviceCode])

FromJson(v) ==
  IF v[1] = "map" /\ Parses(v[2]) /\ Validate(Parse(v[2])) THEN Parse(v[2]) ELSE Invalid

-----------------------------------------------------------------------------
\* The JSON that save_config_atomically writes: every field, under its key, but
\* for an Option that is absent.
IntegerKeys ==
  {"bridgePort", "jobPollIntervalSeconds", "updateCheckIntervalHours", "devicePort",
   "devicePassword", "deviceTimeout", "organizationId", "syncIntervalSeconds",
   "port", "forwardIntervalSeconds"}
BoolKeys ==
  {"autoStartOnBoot", "autoUpdate", "deviceForceUdp", "deviceOmitPing",
   "clearAttendanceAfterSync", "enabled"}
OptionKeys == {"hrmsBaseUrl", "hrmsApiToken", "deviceTimezone"}

Written(r, key) ==
  /\ key \in OptionKeys => r[key] # None
  /\ key \in {"clearAttendanceThreshold", "senseFace"} => r[key] # <<>>

WrittenKeys(r) == {key \in DOMAIN r : Written(r, key)}
Field(r, key) ==
  CASE key \in IntegerKeys -> <<"int", r[key]>>
    [] key \in BoolKeys -> <<"bool", r[key]>>
    [] key = "clearAttendanceThreshold" -> <<"int", r[key][1]>>
    [] OTHER -> <<"str", r[key]>>

DeviceJson(d) == <<"map", [key \in WrittenKeys(d) |-> Field(d, key)]>>
DevicesJson(ds) == <<"list", [i \in DOMAIN ds |-> DeviceJson(ds[i])]>>
SenseFaceJson(s) ==
  <<"map", [key \in WrittenKeys(s) |->
     IF key = "devices" THEN DevicesJson(s.devices) ELSE Field(s, key)]>>
ToJson(c) ==
  <<"map", [key \in WrittenKeys(c) |->
     CASE key = "devices" -> DevicesJson(c.devices)
       [] key = "senseFace" -> SenseFaceJson(c.senseFace[1])
       [] OTHER -> Field(c, key)]>>

\* collect_config: what it makes of the answers a.  It asks for devices and for
\* the receiver only in the modes that use them.
WizardDevice(a) ==
  [deviceIp |-> a.deviceIp, devicePort |-> a.devicePort,
   devicePassword |-> a.devicePassword, deviceTimeout |-> a.deviceTimeout,
   deviceForceUdp |-> a.deviceForceUdp, deviceOmitPing |-> a.deviceOmitPing,
   deviceTimezone |-> IF a.deviceTimezone = "UTC" THEN None ELSE a.deviceTimezone,
   eventTypeMode |-> "punchCode", deviceCode |-> a.deviceCode, apiKey |-> a.apiKey,
   organizationId |-> a.organizationId, syncIntervalSeconds |-> a.syncIntervalSeconds,
   clearAttendanceAfterSync |-> a.clearAttendanceAfterSync,
   clearAttendanceThreshold |-> <<>>]

WizardReceiver(a) ==
  [enabled |-> TRUE, bindHost |-> a.bindHost, port |-> a.port, timezone |-> a.timezone,
   deviceCodePrefix |-> a.deviceCodePrefix, apiKey |-> a.apiKey,
   organizationId |-> a.organizationId,
   forwardIntervalSeconds |-> a.forwardIntervalSeconds, devices |-> a.devices]

WizardConfig(a) ==
  [bridgeMode |-> a.bridgeMode, vpsWebhookUrl |-> a.vpsWebhookUrl,
   bridgePort |-> a.bridgePort, autoStartOnBoot |-> a.autoStartOnBoot,
   autoUpdate |-> a.autoUpdate, updateCheckIntervalHours |-> 6,
   hrmsBaseUrl |-> IF a.jobs THEN a.hrmsBaseUrl ELSE None,
   hrmsApiToken |-> IF a.jobs /\ a.hrmsApiToken # "" THEN a.hrmsApiToken ELSE None,
   jobPollIntervalSeconds |-> IF a.jobs THEN a.jobPollIntervalSeconds ELSE 30,
   devices |-> IF UsesPull(a)
               THEN [i \in DOMAIN a.devices |-> WizardDevice(a.devices[i])] ELSE <<>>,
   senseFace |-> IF UsesPush(a) THEN <<WizardReceiver(a.senseFace)>> ELSE <<>>]

-----------------------------------------------------------------------------
\* What the prompts of the wizard let through, in the types of the answers: a port
\* is any u16, so 0 is one too.
Texts == STRING \ {None}
Ports == 0..MaxPort
Numbers == 0..MaxInput
Intervals == MinInterval..MaxInput

DeviceInputs ==
  [deviceIp : Texts, devicePort : Ports, devicePassword : -MaxInput..MaxInput,
   deviceTimeout : Numbers, deviceForceUdp : BOOLEAN, deviceOmitPing : BOOLEAN,
   deviceTimezone : Texts, deviceCode : Texts, apiKey : Texts, organizationId : Numbers,
   syncIntervalSeconds : Intervals, clearAttendanceAfterSync : BOOLEAN]
MappingInputs ==
  [serialNumber : Texts, deviceCode : Texts, apiKey : Texts, organizationId : Numbers]
ReceiverInputs ==
  [bindHost : Texts, port : Ports, timezone : Texts, deviceCodePrefix : Texts,
   apiKey : Texts, organizationId : Numbers, forwardIntervalSeconds : Intervals,
   devices : Seq(MappingInputs)]
Inputs ==
  [bridgeMode : {"pull", "push", "hybrid"}, vpsWebhookUrl : Texts, bridgePort : Ports,
   autoStartOnBoot : BOOLEAN, autoUpdate : BOOLEAN, jobs : BOOLEAN, hrmsBaseUrl : Texts,
   hrmsApiToken : Texts, jobPollIntervalSeconds : Intervals, devices : Seq(DeviceInputs),
   senseFace : ReceiverInputs]

ASSUME ConfigAssumption ==
  /\ Answers \subseteq Inputs
  /\ \A o \in SingleDevices : /\ DOMAIN o \cap {"deviceIp", "deviceCode", "apiKey"} # {}
                              /\ "devices" \notin DOMAIN o

-----------------------------------------------------------------------------
\* Where a config comes from, until it is loaded: the wizard's answers, saved if
\* they are valid, or an object written by hand.
Loaded == <<"loaded", 0>>
Sources ==
  {<<"answers", a>> : a \in {b \in Answers : Validate(WizardConfig(b))}}
    \cup {<<"object", o>> : o \in SingleDevices}

VARIABLE config
ConfigInit == config \in Sources

File == IF config[1] = "answers" THEN ToJson(WizardConfig(config[2]))
        ELSE <<"map", config[2]>>

\* The program loads a config that is valid, and any other one never.
Load ==
  /\ config # Loaded /\ config' = Loaded
  /\ FromJson(File) # Invalid

-----------------------------------------------------------------------------
\* The ports of a config, and what it is once it is loaded: the same, but for a
\* slash at the end of the HRMS URL.
PortsOf(c) ==
  {c.bridgePort} \cup {c.devices[i].devicePort : i \in DOMAIN c.devices}
    \cup {c.senseFace[i].port : i \in DOMAIN c.senseFace}
Reloaded(c) ==
  [c EXCEPT !.hrmsBaseUrl = IF @ = None THEN None ELSE Stripped(@)]

\* What the wizard saves loads back with the meaning it was given, unless one of
\* its ports is 0, and then the program refuses the file that the wizard wrote:
\* prompts and validate() let a port of 0 through, u16_from_value does not.  But
\* for that, the keys that are written, those that are left out, the defaults and
\* the clamps fit the parser.
SavedLoadsBack ==
  config[1] = "answers" =>
    LET saved == WizardConfig(config[2])
    IN FromJson(File) = IF 0 \in PortsOf(saved) THEN Invalid ELSE Reloaded(saved)

\* A config with the keys of a single device at its root is the config with
\* that device in a list of one: the same errors, defaults and clamps.
AsList(o) ==
  [key \in DOMAIN o \cup {"devices"} |->
     IF key = "devices" THEN <<"list", <<<<"map", o>>>>>> ELSE o[key]]
LegacyIsOneDevice ==
  config[1] = "object" => FromJson(File) = FromJson(<<"map", AsList(config[2])>>)
=============================================================================
