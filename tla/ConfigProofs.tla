----------------------------- MODULE ConfigProofs -----------------------------
(***************************************************************************)
(* Theorems about the config of one installation, for any answers to the   *)
(* wizard and any objects with the keys of a single device.                *)
(***************************************************************************)
EXTENDS Installation, TLAPS

-----------------------------------------------------------------------------
\* The keys of a single device.

LEMMA KeysOfList ==
  ASSUME NEW o
  PROVE  /\ Get(AsList(o), "devices") = <<"list", <<<<"map", o>>>>>>
         /\ \A key : key # "devices" => Get(AsList(o), key) = Get(o, key)
         /\ \A key : key # "devices" => (key \in DOMAIN AsList(o) <=> key \in DOMAIN o)
         /\ \A key : key # "devices" => Optional(AsList(o), key) = Optional(o, key)
<1>1. AsList(o) = [key \in DOMAIN o \cup {"devices"} |->
                     IF key = "devices" THEN <<"list", <<<<"map", o>>>>>> ELSE o[key]]
  BY DEF AsList
<1> QED BY <1>1 DEF Get, Optional

LEMMA LegacySame ==
  ASSUME NEW o, DOMAIN o \cap {"deviceIp", "deviceCode", "apiKey"} # {}, "devices" \notin DOMAIN o
  PROVE  FromJson(<<"map", o>>) = FromJson(<<"map", AsList(o)>>)
<1> DEFINE p == AsList(o)
<1>1. Get(o, "devices") = Missing /\ HasLegacyDevice(o)
  BY DEF Get, HasLegacyDevice
<1>2. DeviceObjects(o) = <<o>>
  BY <1>1 DEF DeviceObjects
<1>3. Get(p, "devices") = <<"list", <<<<"map", o>>>>>>
  BY KeysOfList
<1>4. DeviceObjects(p) = <<o>>
  <2>1. Get(p, "devices") # Missing
    BY <1>3 DEF Missing
  <2>2. DeviceObjects(p) = [i \in DOMAIN Get(p, "devices")[2] |-> Get(p, "devices")[2][i][2]]
    BY <2>1 DEF DeviceObjects
  <2>3. Get(p, "devices")[2] = <<<<"map", o>>>>
    BY <1>3
  <2>4. DeviceObjects(p) = [i \in DOMAIN <<<<"map", o>>>> |-> <<<<"map", o>>>>[i][2]]
    BY <2>2, <2>3
  <2> QED BY <2>4
<1>5. PortKey(p) = PortKey(o) /\ PortKey(o) # "devices"
  BY KeysOfList DEF PortKey
<1>6. \A key : key # "devices" => Get(p, key) = Get(o, key)
  BY KeysOfList
<1>7. \A key : key # "devices" => Optional(p, key) = Optional(o, key)
  BY KeysOfList
<1>8. \A key : key # "devices" => (Present(p, key) <=> Present(o, key))
  BY <1>7 DEF Present
<1>9. Parses(p) <=> Parses(o)
  <2> DEFINE DevicesOk(q) == LET v == Get(q, "devices") IN
        v = Missing \/ (v[1] = "list" /\ \A i \in DOMAIN v[2] : v[2][i][1] = "map")
  <2> DEFINE Rest(q) ==
        /\ Present(q, "vpsWebhookUrl")
        /\ SenseFaceParses(Get(q, "senseFace"))
        /\ ModeParses(Get(q, "bridgeMode"))
        /\ PortOk(Get(q, PortKey(q)))
        /\ BoolOk(Get(q, "autoStartOnBoot")) /\ BoolOk(Get(q, "autoUpdate"))
        /\ U64Ok(Get(q, "jobPollIntervalSeconds"))
        /\ U64Ok(Get(q, "updateCheckIntervalHours"))
        /\ \A i \in DOMAIN DeviceObjects(q) : DeviceParses(DeviceObjects(q)[i])
  <2>1. \A q : Parses(q) <=> Rest(q) /\ DevicesOk(q)
    BY DEF Parses
  <2>2. Rest(p) <=> Rest(o)
    BY <1>2, <1>4, <1>5, <1>6, <1>8
  <2>3. DevicesOk(o)
    BY <1>1
  <2>4. DevicesOk(p)
    BY <1>3
  <2> HIDE DEF DevicesOk, Rest
  <2> QED BY <2>1, <2>2, <2>3, <2>4
<1>10. Parse(p) = Parse(o)
  <2>1. DeviceObjects(p) = DeviceObjects(o)
    BY <1>2, <1>4
  <2>2. ParseSenseFace(Get(p, "senseFace")) = ParseSenseFace(Get(o, "senseFace"))
    BY <1>6
  <2>3. Get(p, PortKey(p)) = Get(o, PortKey(o))
    BY <1>5, <1>6
  <2>4. /\ Get(p, "bridgeMode") = Get(o, "bridgeMode")
        /\ Get(p, "autoStartOnBoot") = Get(o, "autoStartOnBoot")
        /\ Get(p, "jobPollIntervalSeconds") = Get(o, "jobPollIntervalSeconds")
        /\ Get(p, "autoUpdate") = Get(o, "autoUpdate")
        /\ Get(p, "updateCheckIntervalHours") = Get(o, "updateCheckIntervalHours")
    BY <1>6
  <2>5. /\ Optional(p, "vpsWebhookUrl") = Optional(o, "vpsWebhookUrl")
        /\ Optional(p, "hrmsBaseUrl") = Optional(o, "hrmsBaseUrl")
        /\ Optional(p, "hrmsApiToken") = Optional(o, "hrmsApiToken")
    BY <1>7
  <2> DEFINE Made(mode, url, port, boot, base, token, poll, own, check, objects, sf) ==
        [bridgeMode |-> ParseMode(mode, sf),
         vpsWebhookUrl |-> url,
         bridgePort |-> Integer(port, 7431),
         autoStartOnBoot |-> Bool(boot, FALSE),
         hrmsBaseUrl |-> IF base = None THEN None ELSE Stripped(base),
         hrmsApiToken |-> token,
         jobPollIntervalSeconds |-> MaxOf(Integer(poll, 30), MinInterval),
         autoUpdate |-> Bool(own, FALSE),
         updateCheckIntervalHours |-> MaxOf(Integer(check, 6), 1),
         devices |-> [i \in DOMAIN objects |-> ParseDevice(objects[i])],
         senseFace |-> sf]
  <2>6. ASSUME NEW q
        PROVE  Parse(q) =
                 Made(Get(q, "bridgeMode"), Optional(q, "vpsWebhookUrl"),
                      Get(q, PortKey(q)), Get(q, "autoStartOnBoot"),
                      Optional(q, "hrmsBaseUrl"), Optional(q, "hrmsApiToken"),
                      Get(q, "jobPollIntervalSeconds"), Get(q, "autoUpdate"),
                      Get(q, "updateCheckIntervalHours"), DeviceObjects(q),
                      ParseSenseFace(Get(q, "senseFace")))
    BY DEF Parse
  <2> HIDE DEF p, Made
  <2> QED BY <2>1, <2>2, <2>3, <2>4, <2>5, <2>6
<1> HIDE DEF p
<1>11. FromJson(<<"map", p>>) = FromJson(<<"map", o>>)
  BY <1>9, <1>10 DEF FromJson
<1> QED BY <1>11 DEF p

-----------------------------------------------------------------------------
\* The config of an installation is one of its sources, and then loaded.

ConfigInv == config \in Sources \cup {Loaded}

LEMMA SourcesOnly == InstallSpec => []ConfigInv
<1>1. InstallInit => ConfigInv
  BY DEF InstallInit, ConfigInit, ConfigInv
<1>2. ConfigInv /\ [InstallNext]_<<vars, config>> => ConfigInv'
  <2> SUFFICES ASSUME ConfigInv, [InstallNext]_<<vars, config>> PROVE ConfigInv'
    OBVIOUS
  <2>1. CASE Configure
    BY <2>1 DEF Configure, Load, ConfigInv
  <2>2. CASE UNCHANGED config
    BY <2>2 DEF ConfigInv
  <2>3. UNCHANGED <<vars, config>> => UNCHANGED config
    OBVIOUS
  <2> QED BY <2>1, <2>2, <2>3 DEF InstallNext
<1> QED BY <1>1, <1>2, PTL DEF InstallSpec

LEMMA FromObject ==
  ASSUME ConfigInv, config[1] = "object"
  PROVE  \E o \in SingleDevices : config = <<"object", o>>
<1>1. config # Loaded
  BY DEF Loaded
<1> QED BY <1>1 DEF ConfigInv, Sources

\* A config that gives a single device by keys at its root, whatever they say,
\* loads to what it loads to with that device in a list of one, and is refused
\* when that one is: DeviceObjects of from_json_value, for any such object.
THEOREM LegacyIsOneDeviceAlways == InstallSpec => []LegacyIsOneDevice
<1>1. ConfigInv => LegacyIsOneDevice
  <2> SUFFICES ASSUME ConfigInv, config[1] = "object"
               PROVE  FromJson(File) = FromJson(<<"map", AsList(config[2])>>)
    BY DEF LegacyIsOneDevice
  <2>1. PICK o \in SingleDevices : config = <<"object", o>>
    BY FromObject
  <2>2. DOMAIN o \cap {"deviceIp", "deviceCode", "apiKey"} # {} /\ "devices" \notin DOMAIN o
    BY ConfigAssumption
  <2>3. File = <<"map", o>> /\ config[2] = o
    BY <2>1 DEF File
  <2> QED BY <2>2, <2>3, LegacySame
<1> QED BY <1>1, SourcesOnly, PTL

-----------------------------------------------------------------------------
\* What the parser makes of one value that was written.

LEMMA IntBack ==
  ASSUME NEW n, NEW v, v = <<"int", n>>
  PROVE  /\ ~Absent(v)
         /\ \A default : Integer(v, default) = n
         /\ \A min, max : n \in min..max => IntegerOk(v, min, max)
<1>1. ~Absent(v) /\ v[1] = "int" /\ v[2] = n
  BY DEF Absent, Missing, Null
<1> QED BY <1>1 DEF Integer, IntegerOk

LEMMA ZeroIsNoPort ==
  ASSUME NEW v, v = <<"int", 0>>
  PROVE  ~PortOk(v)
<1>1. ~Absent(v) /\ v[1] = "int" /\ v[1] # "str" /\ v[2] = 0
  BY DEF Absent, Missing, Null
<1>2. 0 \notin 1..MaxPort
  OBVIOUS
<1> QED BY <1>1, <1>2 DEF PortOk, IntegerOk

LEMMA BoolBack ==
  ASSUME NEW b \in BOOLEAN, NEW v, v = <<"bool", b>>
  PROVE  BoolOk(v) /\ \A default : Bool(v, default) = b
<1>1. ~Absent(v) /\ v[1] = "bool" /\ v[2] = b
  BY DEF Absent, Missing, Null
<1>2. BoolOk(v)
  BY <1>1 DEF BoolOk
<1>3. ASSUME NEW default PROVE Bool(v, default) = b
  <2>1. Bool(v, default) = (v = <<"bool", TRUE>>)
    BY <1>1 DEF Bool
  <2>2. CASE b = TRUE
    BY <2>1, <2>2
  <2>3. CASE b = FALSE
    BY <2>1, <2>3, <1>1
  <2> QED BY <2>2, <2>3
<1> QED BY <1>2, <1>3

LEMMA TextBack ==
  ASSUME NEW o, NEW key, NEW t, Get(o, key) = <<"str", t>>
  PROVE  /\ Optional(o, key) = t
         /\ t \notin {None, ""} => /\ Present(o, key)
                                  /\ \A default : Filled(o, key, default) = t
<1>1. ~Absent(Get(o, key)) /\ Get(o, key)[1] = "str" /\ Get(o, key)[2] = t
  BY DEF Absent, Missing, Null
<1>2. Optional(o, key) = t
  BY <1>1 DEF Optional, Text
<1> QED BY <1>2 DEF Present, Filled

LEMMA NothingBack ==
  ASSUME NEW o, NEW key, Get(o, key) = Missing
  PROVE  /\ Optional(o, key) = None
         /\ \A default : Filled(o, key, default) = default
         /\ Absent(Get(o, key))
<1>1. Absent(Get(o, key))
  BY DEF Absent
<1>2. Optional(o, key) = None
  BY <1>1 DEF Optional
<1> QED BY <1>1, <1>2 DEF Present, Filled

-----------------------------------------------------------------------------
\* A device of the wizard: written and read, it is the same device.

SavedDevices ==
  [deviceIp : Texts, devicePort : Ports, devicePassword : -MaxInput..MaxInput,
   deviceTimeout : Numbers, deviceForceUdp : BOOLEAN, deviceOmitPing : BOOLEAN,
   deviceTimezone : Texts \cup {None}, eventTypeMode : {"punchCode"},
   deviceCode : Texts, apiKey : Texts, organizationId : Numbers,
   syncIntervalSeconds : Intervals, clearAttendanceAfterSync : BOOLEAN,
   clearAttendanceThreshold : {<<>>}]

LEMMA WizardDeviceType ==
  ASSUME NEW a \in DeviceInputs PROVE WizardDevice(a) \in SavedDevices
BY DEF DeviceInputs, SavedDevices, WizardDevice

LEMMA DeviceKeys ==
  ASSUME NEW d \in SavedDevices, NEW o, o = DeviceJson(d)[2]
  PROVE  /\ Get(o, "deviceIp") = <<"str", d.deviceIp>>
         /\ Get(o, "devicePort") = <<"int", d.devicePort>>
         /\ Get(o, "devicePassword") = <<"int", d.devicePassword>>
         /\ Get(o, "deviceTimeout") = <<"int", d.deviceTimeout>>
         /\ Get(o, "deviceForceUdp") = <<"bool", d.deviceForceUdp>>
         /\ Get(o, "deviceOmitPing") = <<"bool", d.deviceOmitPing>>
         /\ Get(o, "deviceTimezone") =
              IF d.deviceTimezone = None THEN Missing ELSE <<"str", d.deviceTimezone>>
         /\ Get(o, "eventTypeMode") = <<"str", d.eventTypeMode>>
         /\ Get(o, "deviceCode") = <<"str", d.deviceCode>>
         /\ Get(o, "apiKey") = <<"str", d.apiKey>>
         /\ Get(o, "organizationId") = <<"int", d.organizationId>>
         /\ Get(o, "syncIntervalSeconds") = <<"int", d.syncIntervalSeconds>>
         /\ Get(o, "clearAttendanceAfterSync") = <<"bool", d.clearAttendanceAfterSync>>
         /\ Get(o, "clearAttendanceThreshold") = Missing
<1>1. o = [key \in WrittenKeys(d) |-> Field(d, key)]
  BY DEF DeviceJson
<1>2. DOMAIN o = WrittenKeys(d) /\ \A key \in WrittenKeys(d) : o[key] = Field(d, key)
  BY <1>1
<1>3. DOMAIN d = {"deviceIp", "devicePort", "devicePassword", "deviceTimeout",
                  "deviceForceUdp", "deviceOmitPing", "deviceTimezone", "eventTypeMode",
                  "deviceCode", "apiKey", "organizationId", "syncIntervalSeconds",
                  "clearAttendanceAfterSync", "clearAttendanceThreshold"}
  BY DEF SavedDevices
<1>4. \A key \in DOMAIN d \ {"deviceTimezone", "clearAttendanceThreshold"} :
        key \in DOMAIN o /\ o[key] = Field(d, key)
  BY <1>2, <1>3 DEF WrittenKeys, Written, OptionKeys
<1>5. ASSUME NEW key \in DOMAIN d \ {"deviceTimezone", "clearAttendanceThreshold"}
      PROVE  Get(o, key) = Field(d, key)
  BY <1>4 DEF Get
<1>6. Get(o, "clearAttendanceThreshold") = Missing
  BY <1>2 DEF Get, WrittenKeys, Written, SavedDevices
<1>7. Get(o, "deviceTimezone") =
        IF d.deviceTimezone = None THEN Missing ELSE <<"str", d.deviceTimezone>>
  <2>1. "deviceTimezone" \in DOMAIN o <=> d.deviceTimezone # None
    BY <1>2, <1>3 DEF WrittenKeys, Written, OptionKeys
  <2>2. Field(d, "deviceTimezone") = <<"str", d.deviceTimezone>>
    BY DEF Field, IntegerKeys, BoolKeys
  <2> QED BY <1>2, <2>1, <2>2 DEF Get
<1>8. /\ Field(d, "deviceIp") = <<"str", d.deviceIp>>
      /\ Field(d, "devicePort") = <<"int", d.devicePort>>
      /\ Field(d, "devicePassword") = <<"int", d.devicePassword>>
      /\ Field(d, "deviceTimeout") = <<"int", d.deviceTimeout>>
      /\ Field(d, "deviceForceUdp") = <<"bool", d.deviceForceUdp>>
      /\ Field(d, "deviceOmitPing") = <<"bool", d.deviceOmitPing>>
      /\ Field(d, "eventTypeMode") = <<"str", d.eventTypeMode>>
      /\ Field(d, "deviceCode") = <<"str", d.deviceCode>>
      /\ Field(d, "apiKey") = <<"str", d.apiKey>>
      /\ Field(d, "organizationId") = <<"int", d.organizationId>>
      /\ Field(d, "syncIntervalSeconds") = <<"int", d.syncIntervalSeconds>>
      /\ Field(d, "clearAttendanceAfterSync") = <<"bool", d.clearAttendanceAfterSync>>
  BY DEF Field, IntegerKeys, BoolKeys
<1> QED BY <1>3, <1>5, <1>6, <1>7, <1>8

LEMMA BoundsOrdered ==
  MaxInput \in Nat /\ MinInterval \in Nat /\ MinInterval < MaxInput
BY DEF MaxInput, MinInterval

LEMMA PortBound ==
  ASSUME NEW n \in 0..MaxPort, n # 0
  PROVE  n \in 1..MaxPort
<1>1. MaxPort \in Nat
  BY DEF MaxPort
<1> QED BY <1>1

LEMMA DeviceBack ==
  ASSUME NEW d \in SavedDevices, DeviceValid(d), d.devicePort # 0,
         NEW o, o = DeviceJson(d)[2]
  PROVE  DeviceParses(o) /\ ParseDevice(o) = d
<1>a. /\ Get(o, "deviceIp") = <<"str", d.deviceIp>>
      /\ Get(o, "deviceCode") = <<"str", d.deviceCode>>
      /\ Get(o, "apiKey") = <<"str", d.apiKey>>
      /\ Get(o, "eventTypeMode") = <<"str", d.eventTypeMode>>
  BY DeviceKeys
<1>b. /\ Get(o, "devicePort") = <<"int", d.devicePort>>
      /\ Get(o, "devicePassword") = <<"int", d.devicePassword>>
      /\ Get(o, "deviceTimeout") = <<"int", d.deviceTimeout>>
      /\ Get(o, "organizationId") = <<"int", d.organizationId>>
      /\ Get(o, "syncIntervalSeconds") = <<"int", d.syncIntervalSeconds>>
  BY DeviceKeys
<1>c. /\ Get(o, "deviceForceUdp") = <<"bool", d.deviceForceUdp>>
      /\ Get(o, "deviceOmitPing") = <<"bool", d.deviceOmitPing>>
      /\ Get(o, "clearAttendanceAfterSync") = <<"bool", d.clearAttendanceAfterSync>>
  BY DeviceKeys
<1>d. /\ Get(o, "deviceTimezone") =
           IF d.deviceTimezone = None THEN Missing ELSE <<"str", d.deviceTimezone>>
      /\ Get(o, "clearAttendanceThreshold") = Missing
  BY DeviceKeys
<1>1. /\ d.devicePort \in 1..MaxPort /\ d.devicePassword \in -MaxInput..MaxInput
      /\ d.deviceTimeout \in 0..MaxInput /\ d.organizationId \in 0..MaxInput
      /\ d.syncIntervalSeconds \in MinInterval..MaxInput
  <2>1. d.devicePort \in 0..MaxPort
    BY DEF SavedDevices, Ports
  <2>2. d.devicePort \in 1..MaxPort
    BY <2>1, PortBound
  <2> QED BY <2>2 DEF SavedDevices, Numbers, Intervals
<1>e. d.syncIntervalSeconds \in 0..MaxInput
  BY <1>1, BoundsOrdered
<1>2. /\ d.deviceForceUdp \in BOOLEAN /\ d.deviceOmitPing \in BOOLEAN
      /\ d.clearAttendanceAfterSync \in BOOLEAN
  BY DEF SavedDevices
<1>3. /\ d.deviceIp \notin {None, ""} /\ d.deviceCode \notin {None, ""}
      /\ d.apiKey \notin {None, ""}
  BY DEF SavedDevices, DeviceValid, Texts
<1>4. /\ Optional(o, "deviceIp") = d.deviceIp /\ Present(o, "deviceIp")
      /\ Optional(o, "deviceCode") = d.deviceCode /\ Present(o, "deviceCode")
      /\ Optional(o, "apiKey") = d.apiKey /\ Present(o, "apiKey")
  BY <1>3, <1>a, TextBack
<1>5. Optional(o, "eventTypeMode") = d.eventTypeMode /\ d.eventTypeMode = "punchCode"
  <2>1. d.eventTypeMode = "punchCode"
    BY DEF SavedDevices
  <2> QED BY <2>1, <1>a, TextBack
<1>6. Filled(o, "deviceTimezone", None) = d.deviceTimezone
  <2>1. CASE d.deviceTimezone = None
    BY <2>1, <1>d, NothingBack
  <2>2. CASE d.deviceTimezone # None
    <3>1. d.deviceTimezone \notin {None, ""}
      BY <2>2 DEF DeviceValid, Resolves
    <3> QED BY <2>2, <3>1, <1>d, TextBack
  <2> QED BY <2>1, <2>2
<1>7. /\ \A default : Integer(Get(o, "devicePort"), default) = d.devicePort
      /\ \A default : Integer(Get(o, "devicePassword"), default) = d.devicePassword
      /\ \A default : Integer(Get(o, "deviceTimeout"), default) = d.deviceTimeout
      /\ \A default : Integer(Get(o, "organizationId"), default) = d.organizationId
      /\ \A default : Integer(Get(o, "syncIntervalSeconds"), default) = d.syncIntervalSeconds
  BY <1>b, IntBack
<1>8. /\ PortOk(Get(o, "devicePort")) /\ I32Ok(Get(o, "devicePassword"))
      /\ U64Ok(Get(o, "deviceTimeout")) /\ U64Ok(Get(o, "organizationId"))
      /\ U64Ok(Get(o, "syncIntervalSeconds"))
  BY <1>1, <1>e, <1>b, IntBack DEF PortOk, I32Ok, U64Ok
<1>9. /\ \A default : Bool(Get(o, "deviceForceUdp"), default) = d.deviceForceUdp
      /\ \A default : Bool(Get(o, "deviceOmitPing"), default) = d.deviceOmitPing
      /\ \A default : Bool(Get(o, "clearAttendanceAfterSync"), default)
                        = d.clearAttendanceAfterSync
      /\ BoolOk(Get(o, "deviceForceUdp")) /\ BoolOk(Get(o, "deviceOmitPing"))
      /\ BoolOk(Get(o, "clearAttendanceAfterSync"))
  BY <1>2, <1>c, BoolBack
<1>10. Absent(Get(o, "clearAttendanceThreshold")) /\ U64Ok(Get(o, "clearAttendanceThreshold"))
  BY <1>d, NothingBack DEF U64Ok, IntegerOk
<1>11. MaxOf(d.syncIntervalSeconds, MinInterval) = d.syncIntervalSeconds
  BY <1>1, BoundsOrdered DEF MaxOf
<1>12. DeviceParses(o)
  BY <1>4, <1>5, <1>8, <1>9, <1>10 DEF DeviceParses, PunchCode
<1>13. ParseDevice(o) = d
  <2> DEFINE port == Integer(Get(o, "devicePort"), 4370)
             password == Integer(Get(o, "devicePassword"), 0)
             timeout == Integer(Get(o, "deviceTimeout"), 15)
             udp == Bool(Get(o, "deviceForceUdp"), FALSE)
             ping == Bool(Get(o, "deviceOmitPing"), TRUE)
             zone == Filled(o, "deviceTimezone", None)
             mode == IF Optional(o, "eventTypeMode") \in PunchCode
                     THEN "punchCode" ELSE "firstInLastOut"
             org == Integer(Get(o, "organizationId"), 1)
             interval == MaxOf(Integer(Get(o, "syncIntervalSeconds"), 300), MinInterval)
             clear == Bool(Get(o, "clearAttendanceAfterSync"), FALSE)
             limit == IF Absent(Get(o, "clearAttendanceThreshold")) THEN <<>>
                      ELSE <<Integer(Get(o, "clearAttendanceThreshold"), 0)>>
             Made(a1, a2, a3, a4, a5, a6, a7, a8, a9, a10, a11, a12, a13, a14) ==
               [deviceIp |-> a1, devicePort |-> a2, devicePassword |-> a3,
                deviceTimeout |-> a4, deviceForceUdp |-> a5, deviceOmitPing |-> a6,
                deviceTimezone |-> a7, eventTypeMode |-> a8, deviceCode |-> a9,
                apiKey |-> a10, organizationId |-> a11, syncIntervalSeconds |-> a12,
                clearAttendanceAfterSync |-> a13, clearAttendanceThreshold |-> a14]
  <2>1. ParseDevice(o) =
          Made(Optional(o, "deviceIp"), port, password, timeout, udp, ping, zone, mode,
               Optional(o, "deviceCode"), Optional(o, "apiKey"), org, interval, clear, limit)
    BY DEF ParseDevice
  <2>2. d = Made(d.deviceIp, d.devicePort, d.devicePassword, d.deviceTimeout,
                 d.deviceForceUdp, d.deviceOmitPing, d.deviceTimezone, d.eventTypeMode,
                 d.deviceCode, d.apiKey, d.organizationId, d.syncIntervalSeconds,
                 d.clearAttendanceAfterSync, d.clearAttendanceThreshold)
    BY DEF SavedDevices
  <2>3. /\ port = d.devicePort /\ password = d.devicePassword
        /\ timeout = d.deviceTimeout /\ org = d.organizationId
        /\ zone = d.deviceTimezone
    BY <1>6, <1>7
  <2>4. udp = d.deviceForceUdp /\ ping = d.deviceOmitPing
        /\ clear = d.clearAttendanceAfterSync
    BY <1>9
  <2>5. interval = d.syncIntervalSeconds
    BY <1>7, <1>11
  <2>6. mode = d.eventTypeMode
    BY <1>5 DEF PunchCode
  <2>7. limit = d.clearAttendanceThreshold
    BY <1>10 DEF SavedDevices
  <2> HIDE DEF port, password, timeout, udp, ping, zone, mode, org, interval, clear, limit,
               Made
  <2> QED BY <2>1, <2>2, <2>3, <2>4, <2>5, <2>6, <2>7, <1>4, <1>2
<1> QED BY <1>12, <1>13

-----------------------------------------------------------------------------
\* A device of the receiver, and the receiver.

LEMMA MappingBack ==
  ASSUME NEW m \in MappingInputs,
         m.serialNumber # "", m.deviceCode # "", m.apiKey # "",
         NEW v, v = DeviceJson(m), NEW key, NEW organization
  PROVE  SenseFaceDeviceParses(v) /\ ParseSenseFaceDevice(v[2], key, organization) = m
<1> DEFINE o == v[2]
<1>1. v[1] = "map" /\ o = [k \in WrittenKeys(m) |-> Field(m, k)]
  BY DEF DeviceJson
<1>2. DOMAIN m = {"serialNumber", "deviceCode", "apiKey", "organizationId"}
  BY DEF MappingInputs
<1>3. WrittenKeys(m) = DOMAIN m
  BY <1>2 DEF WrittenKeys, Written, OptionKeys
<1> HIDE DEF o
<1>4. \A k \in DOMAIN m : Get(o, k) = Field(m, k)
  BY <1>1, <1>3 DEF Get
<1>5. /\ Field(m, "serialNumber") = <<"str", m.serialNumber>>
      /\ Field(m, "deviceCode") = <<"str", m.deviceCode>>
      /\ Field(m, "apiKey") = <<"str", m.apiKey>>
      /\ Field(m, "organizationId") = <<"int", m.organizationId>>
  BY DEF Field, IntegerKeys, BoolKeys
<1>6. /\ Get(o, "serialNumber") = <<"str", m.serialNumber>>
      /\ Get(o, "deviceCode") = <<"str", m.deviceCode>>
      /\ Get(o, "apiKey") = <<"str", m.apiKey>>
      /\ Get(o, "organizationId") = <<"int", m.organizationId>>
  BY <1>2, <1>4, <1>5
<1>7. /\ m.serialNumber \notin {None, ""} /\ m.deviceCode \notin {None, ""}
      /\ m.apiKey \notin {None, ""}
  BY DEF MappingInputs, Texts
<1>8. /\ Optional(o, "serialNumber") = m.serialNumber /\ Present(o, "serialNumber")
      /\ Optional(o, "deviceCode") = m.deviceCode /\ Present(o, "deviceCode")
      /\ Filled(o, "apiKey", key) = m.apiKey
  BY <1>6, <1>7, TextBack
<1>9. /\ Integer(Get(o, "organizationId"), organization) = m.organizationId
      /\ U64Ok(Get(o, "organizationId"))
  <2>1. m.organizationId \in 0..MaxInput
    BY DEF MappingInputs, Numbers
  <2> QED BY <2>1, <1>6, IntBack DEF U64Ok
<1>10. SenseFaceDeviceParses(v)
  <2>1. v[2] = o
    BY DEF o
  <2> QED BY <2>1, <1>1, <1>8, <1>9 DEF SenseFaceDeviceParses
<1>11. m = [serialNumber |-> m.serialNumber, deviceCode |-> m.deviceCode,
            apiKey |-> m.apiKey, organizationId |-> m.organizationId]
  BY DEF MappingInputs
<1>12. ParseSenseFaceDevice(o, key, organization) = m
  BY <1>8, <1>9, <1>11 DEF ParseSenseFaceDevice
<1> QED BY <1>10, <1>12 DEF o

SavedReceivers ==
  [enabled : BOOLEAN, bindHost : Texts, port : Ports, timezone : Texts,
   deviceCodePrefix : Texts, apiKey : Texts, organizationId : Numbers,
   forwardIntervalSeconds : Intervals, devices : Seq(MappingInputs)]

LEMMA WizardReceiverType ==
  ASSUME NEW a \in ReceiverInputs PROVE WizardReceiver(a) \in SavedReceivers
BY DEF ReceiverInputs, SavedReceivers, WizardReceiver

LEMMA ReceiverKeys ==
  ASSUME NEW s \in SavedReceivers, NEW o, o = SenseFaceJson(s)[2]
  PROVE  /\ Get(o, "enabled") = <<"bool", s.enabled>>
         /\ Get(o, "bindHost") = <<"str", s.bindHost>>
         /\ Get(o, "port") = <<"int", s.port>>
         /\ Get(o, "timezone") = <<"str", s.timezone>>
         /\ Get(o, "deviceCodePrefix") = <<"str", s.deviceCodePrefix>>
         /\ Get(o, "apiKey") = <<"str", s.apiKey>>
         /\ Get(o, "organizationId") = <<"int", s.organizationId>>
         /\ Get(o, "forwardIntervalSeconds") = <<"int", s.forwardIntervalSeconds>>
         /\ Get(o, "devices") = DevicesJson(s.devices)
<1>1. o = [key \in WrittenKeys(s) |->
             IF key = "devices" THEN DevicesJson(s.devices) ELSE Field(s, key)]
  BY DEF SenseFaceJson
<1>2. DOMAIN s = {"enabled", "bindHost", "port", "timezone", "deviceCodePrefix", "apiKey",
                  "organizationId", "forwardIntervalSeconds", "devices"}
  BY DEF SavedReceivers
<1>3. WrittenKeys(s) = DOMAIN s
  BY <1>2 DEF WrittenKeys, Written, OptionKeys
<1>4. Get(o, "devices") = DevicesJson(s.devices)
  BY <1>1, <1>2, <1>3 DEF Get
<1>5. \A key \in DOMAIN s \ {"devices"} : Get(o, key) = Field(s, key)
  BY <1>1, <1>3 DEF Get
<1>6. /\ Field(s, "enabled") = <<"bool", s.enabled>>
      /\ Field(s, "bindHost") = <<"str", s.bindHost>>
      /\ Field(s, "port") = <<"int", s.port>>
      /\ Field(s, "timezone") = <<"str", s.timezone>>
      /\ Field(s, "deviceCodePrefix") = <<"str", s.deviceCodePrefix>>
      /\ Field(s, "apiKey") = <<"str", s.apiKey>>
      /\ Field(s, "organizationId") = <<"int", s.organizationId>>
      /\ Field(s, "forwardIntervalSeconds") = <<"int", s.forwardIntervalSeconds>>
  BY DEF Field, IntegerKeys, BoolKeys
<1> QED BY <1>2, <1>4, <1>5, <1>6

LEMMA ReceiverBack ==
  ASSUME NEW s \in SavedReceivers, SenseFaceValid(s), s.port # 0,
         NEW v, v = SenseFaceJson(s)
  PROVE  SenseFaceParses(v) /\ ~Absent(v) /\ ParseSenseFace(v) = <<s>>
<1> DEFINE o == v[2]
           ds == Get(o, "devices")[2]
<1>1. v = <<"map", o>>
  BY DEF SenseFaceJson
<1>2. ~Absent(v) /\ v[1] = "map" /\ v[2] = o
  BY <1>1 DEF Absent, Missing, Null
<1>3. /\ Get(o, "enabled") = <<"bool", s.enabled>>
      /\ Get(o, "port") = <<"int", s.port>>
      /\ Get(o, "organizationId") = <<"int", s.organizationId>>
      /\ Get(o, "forwardIntervalSeconds") = <<"int", s.forwardIntervalSeconds>>
  BY ReceiverKeys
<1>4. /\ Get(o, "bindHost") = <<"str", s.bindHost>>
      /\ Get(o, "timezone") = <<"str", s.timezone>>
      /\ Get(o, "deviceCodePrefix") = <<"str", s.deviceCodePrefix>>
      /\ Get(o, "apiKey") = <<"str", s.apiKey>>
  BY ReceiverKeys
<1>5. Get(o, "devices") = DevicesJson(s.devices)
  BY ReceiverKeys
<1> HIDE DEF o
<1>6. /\ s.bindHost \notin {None, ""} /\ s.timezone \notin {None, ""}
      /\ s.deviceCodePrefix \notin {None, ""} /\ s.apiKey \notin {None, ""}
  BY DEF SavedReceivers, SenseFaceValid, Texts
<1>7. /\ Filled(o, "bindHost", "0.0.0.0") = s.bindHost
      /\ Filled(o, "timezone", "Asia/Dhaka") = s.timezone
      /\ Filled(o, "deviceCodePrefix", "SF") = s.deviceCodePrefix
      /\ Optional(o, "apiKey") = s.apiKey /\ Present(o, "apiKey")
  BY <1>4, <1>6, TextBack
<1>8. /\ \A default : Integer(Get(o, "port"), default) = s.port
      /\ \A default : Integer(Get(o, "organizationId"), default) = s.organizationId
      /\ \A default : Integer(Get(o, "forwardIntervalSeconds"), default)
                        = s.forwardIntervalSeconds
  BY <1>3, IntBack
<1>9. /\ s.port \in 1..MaxPort /\ s.organizationId \in 0..MaxInput
      /\ s.forwardIntervalSeconds \in MinInterval..MaxInput
  <2>1. s.port \in 0..MaxPort
    BY DEF SavedReceivers, Ports
  <2>2. s.port \in 1..MaxPort
    BY <2>1, PortBound
  <2> QED BY <2>2 DEF SavedReceivers, Numbers, Intervals
<1>10. /\ s.forwardIntervalSeconds \in 0..MaxInput
       /\ MaxOf(s.forwardIntervalSeconds, MinInterval) = s.forwardIntervalSeconds
  BY <1>9, BoundsOrdered DEF MaxOf
<1>11. /\ PortOk(Get(o, "port")) /\ U64Ok(Get(o, "organizationId"))
       /\ U64Ok(Get(o, "forwardIntervalSeconds"))
  BY <1>3, <1>9, <1>10, IntBack DEF PortOk, U64Ok
<1>12. s.enabled \in BOOLEAN
  BY DEF SavedReceivers
<1>13. /\ BoolOk(Get(o, "enabled"))
       /\ \A default : Bool(Get(o, "enabled"), default) = s.enabled
  BY <1>3, <1>12, BoolBack
<1>14. /\ Get(o, "devices") # Missing /\ Get(o, "devices")[1] = "list"
       /\ ds = [i \in DOMAIN s.devices |-> DeviceJson(s.devices[i])]
  BY <1>5 DEF DevicesJson, Missing
<1> HIDE DEF ds
<1>15. ASSUME NEW i \in DOMAIN ds
       PROVE  /\ i \in DOMAIN s.devices
              /\ SenseFaceDeviceParses(ds[i])
              /\ \A key, organization :
                   ParseSenseFaceDevice(ds[i][2], key, organization) = s.devices[i]
  <2>1. i \in DOMAIN s.devices /\ ds[i] = DeviceJson(s.devices[i])
    BY <1>14
  <2>2. s.devices[i] \in MappingInputs
    BY <2>1 DEF SavedReceivers
  <2>3. /\ s.devices[i].serialNumber # "" /\ s.devices[i].deviceCode # ""
        /\ s.devices[i].apiKey # ""
    BY <2>1 DEF SenseFaceValid
  <2>4. ASSUME NEW key, NEW organization
        PROVE  /\ SenseFaceDeviceParses(ds[i])
               /\ ParseSenseFaceDevice(ds[i][2], key, organization) = s.devices[i]
    <3> DEFINE m == s.devices[i]
    <3>1. /\ m \in MappingInputs /\ ds[i] = DeviceJson(m)
          /\ m.serialNumber # "" /\ m.deviceCode # "" /\ m.apiKey # ""
      BY <2>1, <2>2, <2>3
    <3> HIDE DEF m
    <3>2. /\ SenseFaceDeviceParses(ds[i])
          /\ ParseSenseFaceDevice(ds[i][2], key, organization) = m
      BY <3>1, MappingBack
    <3> QED BY <3>2 DEF m
  <2> QED BY <2>1, <2>4
<1>16. SenseFaceParses(v)
  <2>1. Get(o, "devices") = Missing \/ (Get(o, "devices")[1] = "list"
          /\ \A i \in DOMAIN Get(o, "devices")[2] : SenseFaceDeviceParses(Get(o, "devices")[2][i]))
    BY <1>14, <1>15 DEF ds
  <2> QED BY <2>1, <1>2, <1>7, <1>11, <1>13 DEF SenseFaceParses
<1>17. ASSUME NEW key, NEW organization
       PROVE  [i \in DOMAIN ds |-> ParseSenseFaceDevice(ds[i][2], key, organization)]
                = s.devices
  <2>1. s.devices = [i \in DOMAIN s.devices |-> s.devices[i]] /\ DOMAIN ds = DOMAIN s.devices
    BY <1>14 DEF SavedReceivers
  <2> QED BY <2>1, <1>15
<1>18. ParseSenseFace(v) = <<s>>
  <2> DEFINE org == Integer(Get(o, "organizationId"), 1)
             on == Bool(Get(o, "enabled"), TRUE)
             host == Filled(o, "bindHost", "0.0.0.0")
             port == Integer(Get(o, "port"), 8090)
             zone == Filled(o, "timezone", "Asia/Dhaka")
             prefix == Filled(o, "deviceCodePrefix", "SF")
             interval == MaxOf(Integer(Get(o, "forwardIntervalSeconds"), 10), MinInterval)
             devices == [i \in DOMAIN ds |->
                           ParseSenseFaceDevice(ds[i][2], Optional(o, "apiKey"), org)]
             Made(a1, a2, a3, a4, a5, a6, a7, a8, a9) ==
               [enabled |-> a1, bindHost |-> a2, port |-> a3, timezone |-> a4,
                deviceCodePrefix |-> a5, apiKey |-> a6, organizationId |-> a7,
                forwardIntervalSeconds |-> a8, devices |-> a9]
  <2>1. ParseSenseFace(v) = <<Made(on, host, port, zone, prefix, Optional(o, "apiKey"), org,
                                   interval, devices)>>
    <3> DEFINE list == IF Get(o, "devices") = Missing THEN <<>> ELSE Get(o, "devices")[2]
    <3>1. ~Absent(v)
      BY <1>2
    <3>2. list = ds
      BY <1>14 DEF ds
    <3>3. ParseSenseFace(v) =
            <<Made(on, host, port, zone, prefix, Optional(o, "apiKey"), org, interval,
                   [i \in DOMAIN list |->
                      ParseSenseFaceDevice(list[i][2], Optional(o, "apiKey"), org)])>>
      BY <3>1 DEF ParseSenseFace, o
    <3> HIDE DEF list
    <3> QED BY <3>2, <3>3
  <2>2. s = Made(s.enabled, s.bindHost, s.port, s.timezone, s.deviceCodePrefix, s.apiKey,
                 s.organizationId, s.forwardIntervalSeconds, s.devices)
    BY DEF SavedReceivers
  <2>3. on = s.enabled
    BY <1>13
  <2>4. org = s.organizationId /\ port = s.port
    BY <1>8
  <2>5. interval = s.forwardIntervalSeconds
    BY <1>8, <1>10
  <2>6. host = s.bindHost /\ zone = s.timezone /\ prefix = s.deviceCodePrefix
    BY <1>7
  <2>7. devices = s.devices
    BY <1>17
  <2> HIDE DEF org, on, host, port, zone, prefix, interval, devices, Made
  <2> QED BY <2>1, <2>2, <2>3, <2>4, <2>5, <2>6, <2>7, <1>7, <1>12
<1> QED BY <1>2, <1>16, <1>18

-----------------------------------------------------------------------------
\* The config of the wizard.

SavedConfigs ==
  [bridgeMode : {"pull", "push", "hybrid"}, vpsWebhookUrl : Texts, bridgePort : Ports,
   autoStartOnBoot : BOOLEAN, autoUpdate : BOOLEAN, updateCheckIntervalHours : {6},
   hrmsBaseUrl : Texts \cup {None}, hrmsApiToken : Texts \cup {None},
   jobPollIntervalSeconds : Intervals, devices : Seq(SavedDevices),
   senseFace : Seq(SavedReceivers)]

\* What the wizard's steps add to the types of its answers.
SavedConfig(c) ==
  /\ c \in SavedConfigs
  /\ c.hrmsApiToken # ""
  /\ c.senseFace = <<>> \/ (UsesPush(c) /\ c.senseFace = <<c.senseFace[1]>>
                              /\ c.senseFace[1] \in SavedReceivers)

LEMMA WizardConfigType ==
  ASSUME NEW a \in Inputs PROVE SavedConfig(WizardConfig(a))
<1> DEFINE c == WizardConfig(a)
<1>1. 30 \in Intervals
  <2>1. MinInterval <= 30 /\ 30 <= MaxInput
    BY DEF MinInterval, MaxInput
  <2> QED BY <2>1, BoundsOrdered DEF Intervals
<1>2. /\ c.bridgeMode = a.bridgeMode /\ c.vpsWebhookUrl = a.vpsWebhookUrl
      /\ c.bridgePort = a.bridgePort /\ c.autoStartOnBoot = a.autoStartOnBoot
      /\ c.autoUpdate = a.autoUpdate /\ c.updateCheckIntervalHours = 6
      /\ c.hrmsBaseUrl = IF a.jobs THEN a.hrmsBaseUrl ELSE None
      /\ c.hrmsApiToken = IF a.jobs /\ a.hrmsApiToken # "" THEN a.hrmsApiToken ELSE None
      /\ c.jobPollIntervalSeconds = IF a.jobs THEN a.jobPollIntervalSeconds ELSE 30
  BY DEF WizardConfig
<1>3. /\ c.devices = IF UsesPull(a)
                     THEN [i \in DOMAIN a.devices |-> WizardDevice(a.devices[i])] ELSE <<>>
      /\ c.senseFace = IF UsesPush(a) THEN <<WizardReceiver(a.senseFace)>> ELSE <<>>
  BY DEF WizardConfig
<1>4. c = [bridgeMode |-> c.bridgeMode, vpsWebhookUrl |-> c.vpsWebhookUrl,
           bridgePort |-> c.bridgePort, autoStartOnBoot |-> c.autoStartOnBoot,
           autoUpdate |-> c.autoUpdate,
           updateCheckIntervalHours |-> c.updateCheckIntervalHours,
           hrmsBaseUrl |-> c.hrmsBaseUrl, hrmsApiToken |-> c.hrmsApiToken,
           jobPollIntervalSeconds |-> c.jobPollIntervalSeconds,
           devices |-> c.devices, senseFace |-> c.senseFace]
  BY DEF WizardConfig
<1> HIDE DEF c
<1>5. /\ a.bridgeMode \in {"pull", "push", "hybrid"} /\ a.vpsWebhookUrl \in Texts
      /\ a.bridgePort \in Ports /\ a.autoStartOnBoot \in BOOLEAN /\ a.autoUpdate \in BOOLEAN
      /\ a.hrmsBaseUrl \in Texts /\ a.hrmsApiToken \in Texts
      /\ a.jobPollIntervalSeconds \in Intervals
  BY DEF Inputs
<1>6. a.devices \in Seq(DeviceInputs) /\ a.senseFace \in ReceiverInputs
  BY DEF Inputs
<1>7. c.devices \in Seq(SavedDevices)
  <2>1. CASE UsesPull(a)
    <3>1. \A i \in DOMAIN a.devices : WizardDevice(a.devices[i]) \in SavedDevices
      BY <1>6, WizardDeviceType
    <3>2. DOMAIN a.devices = 1..Len(a.devices) /\ Len(a.devices) \in Nat
      BY <1>6
    <3>3. c.devices = [i \in 1..Len(a.devices) |-> WizardDevice(a.devices[i])]
      BY <1>3, <2>1, <3>2
    <3> QED BY <3>1, <3>2, <3>3
  <2>2. CASE ~UsesPull(a)
    BY <1>3, <2>2
  <2> QED BY <2>1, <2>2
<1>8. UsesPush(c) <=> UsesPush(a)
  BY <1>2 DEF UsesPush
<1>9. /\ c.senseFace \in Seq(SavedReceivers)
      /\ c.senseFace = <<>> \/ (UsesPush(c) /\ c.senseFace = <<c.senseFace[1]>>
                                  /\ c.senseFace[1] \in SavedReceivers)
  <2>1. CASE UsesPush(a)
    <3>1. WizardReceiver(a.senseFace) \in SavedReceivers
      BY <1>6, WizardReceiverType
    <3>2. c.senseFace = <<WizardReceiver(a.senseFace)>>
      BY <1>3, <2>1
    <3> QED BY <3>1, <3>2, <2>1, <1>8
  <2>2. CASE ~UsesPush(a)
    BY <1>3, <2>2
  <2> QED BY <2>1, <2>2
<1>10. c.hrmsApiToken # "" /\ c.hrmsApiToken \in Texts \cup {None}
  BY <1>2, <1>5 DEF None
<1>11. c.hrmsBaseUrl \in Texts \cup {None} /\ c.jobPollIntervalSeconds \in Intervals
  BY <1>1, <1>2, <1>5
<1>12. c \in SavedConfigs
  BY <1>2, <1>4, <1>5, <1>7, <1>9, <1>10, <1>11 DEF SavedConfigs
<1> QED BY <1>9, <1>10, <1>12 DEF SavedConfig, c

LEMMA ConfigKeys ==
  ASSUME NEW c \in SavedConfigs, NEW o, o = ToJson(c)[2]
  PROVE  /\ Get(o, "bridgeMode") = <<"str", c.bridgeMode>>
         /\ Get(o, "vpsWebhookUrl") = <<"str", c.vpsWebhookUrl>>
         /\ Get(o, "bridgePort") = <<"int", c.bridgePort>> /\ "bridgePort" \in DOMAIN o
         /\ Get(o, "autoStartOnBoot") = <<"bool", c.autoStartOnBoot>>
         /\ Get(o, "autoUpdate") = <<"bool", c.autoUpdate>>
         /\ Get(o, "updateCheckIntervalHours") = <<"int", c.updateCheckIntervalHours>>
         /\ Get(o, "jobPollIntervalSeconds") = <<"int", c.jobPollIntervalSeconds>>
         /\ Get(o, "hrmsBaseUrl") =
              IF c.hrmsBaseUrl = None THEN Missing ELSE <<"str", c.hrmsBaseUrl>>
         /\ Get(o, "hrmsApiToken") =
              IF c.hrmsApiToken = None THEN Missing ELSE <<"str", c.hrmsApiToken>>
         /\ Get(o, "devices") = DevicesJson(c.devices)
         /\ Get(o, "senseFace") =
              IF c.senseFace = <<>> THEN Missing ELSE SenseFaceJson(c.senseFace[1])
<1>1. o = [key \in WrittenKeys(c) |->
             CASE key = "devices" -> DevicesJson(c.devices)
               [] key = "senseFace" -> SenseFaceJson(c.senseFace[1])
               [] OTHER -> Field(c, key)]
  BY DEF ToJson
<1>2. DOMAIN o = WrittenKeys(c)
  BY <1>1
<1>3. /\ "devices" \in DOMAIN o => o["devices"] = DevicesJson(c.devices)
      /\ "senseFace" \in DOMAIN o => o["senseFace"] = SenseFaceJson(c.senseFace[1])
      /\ \A key \in DOMAIN o \ {"devices", "senseFace"} : o[key] = Field(c, key)
  BY <1>1
<1>4. DOMAIN c = {"bridgeMode", "vpsWebhookUrl", "bridgePort", "autoStartOnBoot",
                  "autoUpdate", "updateCheckIntervalHours", "hrmsBaseUrl", "hrmsApiToken",
                  "jobPollIntervalSeconds", "devices", "senseFace"}
  BY DEF SavedConfigs
<1> DEFINE Always == DOMAIN c \ {"hrmsBaseUrl", "hrmsApiToken", "senseFace"}
<1>5. \A key \in Always : key \in DOMAIN o
  BY <1>2, <1>4 DEF WrittenKeys, Written, OptionKeys
<1>6. \A key \in Always \ {"devices"} : Get(o, key) = Field(c, key)
  BY <1>3, <1>5 DEF Get
<1>7. Get(o, "devices") = DevicesJson(c.devices)
  BY <1>3, <1>4, <1>5 DEF Get
<1>8. Get(o, "senseFace") =
        IF c.senseFace = <<>> THEN Missing ELSE SenseFaceJson(c.senseFace[1])
  <2>1. "senseFace" \in DOMAIN o <=> c.senseFace # <<>>
    BY <1>2, <1>4 DEF WrittenKeys, Written, OptionKeys
  <2> QED BY <1>3, <2>1 DEF Get
<1>9. /\ Get(o, "hrmsBaseUrl") =
           IF c.hrmsBaseUrl = None THEN Missing ELSE <<"str", c.hrmsBaseUrl>>
      /\ Get(o, "hrmsApiToken") =
           IF c.hrmsApiToken = None THEN Missing ELSE <<"str", c.hrmsApiToken>>
  <2>1. /\ "hrmsBaseUrl" \in DOMAIN o <=> c.hrmsBaseUrl # None
        /\ "hrmsApiToken" \in DOMAIN o <=> c.hrmsApiToken # None
    BY <1>2, <1>4 DEF WrittenKeys, Written, OptionKeys
  <2>2. /\ Field(c, "hrmsBaseUrl") = <<"str", c.hrmsBaseUrl>>
        /\ Field(c, "hrmsApiToken") = <<"str", c.hrmsApiToken>>
    BY DEF Field, IntegerKeys, BoolKeys
  <2> QED BY <1>3, <2>1, <2>2 DEF Get
<1>10. /\ Field(c, "bridgeMode") = <<"str", c.bridgeMode>>
       /\ Field(c, "vpsWebhookUrl") = <<"str", c.vpsWebhookUrl>>
       /\ Field(c, "bridgePort") = <<"int", c.bridgePort>>
       /\ Field(c, "autoStartOnBoot") = <<"bool", c.autoStartOnBoot>>
       /\ Field(c, "autoUpdate") = <<"bool", c.autoUpdate>>
       /\ Field(c, "updateCheckIntervalHours") = <<"int", c.updateCheckIntervalHours>>
       /\ Field(c, "jobPollIntervalSeconds") = <<"int", c.jobPollIntervalSeconds>>
  BY DEF Field, IntegerKeys, BoolKeys
<1> QED BY <1>4, <1>5, <1>6, <1>7, <1>8, <1>9, <1>10

LEMMA ReloadedValid ==
  ASSUME NEW c \in SavedConfigs, Validate(c)
  PROVE  Validate(Reloaded(c))
<1> DEFINE r == Reloaded(c)
<1>1. /\ r.bridgeMode = c.bridgeMode /\ r.vpsWebhookUrl = c.vpsWebhookUrl
      /\ r.devices = c.devices /\ r.senseFace = c.senseFace
  BY DEF Reloaded, SavedConfigs
<1>2. r.hrmsBaseUrl = IF c.hrmsBaseUrl = None THEN None ELSE Stripped(c.hrmsBaseUrl)
  BY DEF Reloaded, SavedConfigs
<1> HIDE DEF r
<1>3. r.hrmsBaseUrl = None \/ HttpUrl(r.hrmsBaseUrl)
  BY <1>2 DEF Validate, HttpUrl, Stripped
<1>4. (UsesPull(r) <=> UsesPull(c)) /\ (UsesPush(r) <=> UsesPush(c))
  BY <1>1 DEF UsesPull, UsesPush
<1>5. Validate(r)
  BY <1>1, <1>3, <1>4 DEF Validate
<1> QED BY <1>5 DEF r

LEMMA ConfigBack ==
  ASSUME NEW c, SavedConfig(c), Validate(c), 0 \notin PortsOf(c)
  PROVE  FromJson(ToJson(c)) = Reloaded(c)
<1> DEFINE v == ToJson(c)
           o == v[2]
           ds == DeviceObjects(o)
<1>1. c \in SavedConfigs
  BY DEF SavedConfig
<1>2. v[1] = "map" /\ v[2] = o
  BY DEF ToJson
<1>3. /\ Get(o, "bridgeMode") = <<"str", c.bridgeMode>>
      /\ Get(o, "vpsWebhookUrl") = <<"str", c.vpsWebhookUrl>>
  BY <1>1, ConfigKeys
<1>4. /\ Get(o, "bridgePort") = <<"int", c.bridgePort>> /\ PortKey(o) = "bridgePort"
      /\ Get(o, "updateCheckIntervalHours") = <<"int", c.updateCheckIntervalHours>>
      /\ Get(o, "jobPollIntervalSeconds") = <<"int", c.jobPollIntervalSeconds>>
  BY <1>1, ConfigKeys DEF PortKey
<1>5. /\ Get(o, "autoStartOnBoot") = <<"bool", c.autoStartOnBoot>>
      /\ Get(o, "autoUpdate") = <<"bool", c.autoUpdate>>
  BY <1>1, ConfigKeys
<1>6. /\ Get(o, "hrmsBaseUrl") =
           IF c.hrmsBaseUrl = None THEN Missing ELSE <<"str", c.hrmsBaseUrl>>
      /\ Get(o, "hrmsApiToken") =
           IF c.hrmsApiToken = None THEN Missing ELSE <<"str", c.hrmsApiToken>>
  BY <1>1, ConfigKeys
<1>7. /\ Get(o, "devices") = DevicesJson(c.devices)
      /\ Get(o, "senseFace") =
           IF c.senseFace = <<>> THEN Missing ELSE SenseFaceJson(c.senseFace[1])
  BY <1>1, ConfigKeys
<1> HIDE DEF o
\* The receiver.
<1>8. SenseFaceParses(Get(o, "senseFace")) /\ ParseSenseFace(Get(o, "senseFace")) = c.senseFace
  <2>1. CASE c.senseFace = <<>>
    BY <2>1, <1>7 DEF SenseFaceParses, ParseSenseFace, Absent
  <2>2. CASE c.senseFace # <<>>
    <3>1. /\ UsesPush(c) /\ c.senseFace = <<c.senseFace[1]>>
          /\ c.senseFace[1] \in SavedReceivers
      BY <2>2 DEF SavedConfig
    <3>2. SenseFaceValid(c.senseFace[1])
      BY <3>1 DEF Validate
    <3>4. c.senseFace[1].port # 0
      BY <3>1 DEF PortsOf
    <3> DEFINE s == c.senseFace[1]
    <3>3. /\ s \in SavedReceivers /\ SenseFaceValid(s) /\ c.senseFace = <<s>>
          /\ Get(o, "senseFace") = SenseFaceJson(s) /\ s.port # 0
      BY <3>1, <3>2, <3>4, <2>2, <1>7
    <3> HIDE DEF s
    <3> QED BY <3>3, ReceiverBack
  <2> QED BY <2>1, <2>2
\* The devices.
<1>9. /\ Get(o, "devices") # Missing /\ Get(o, "devices")[1] = "list"
      /\ Get(o, "devices")[2] = [i \in DOMAIN c.devices |-> DeviceJson(c.devices[i])]
  BY <1>7 DEF DevicesJson, Missing
<1>10. ds = [i \in DOMAIN c.devices |-> DeviceJson(c.devices[i])[2]]
  <2>1. ds = [i \in DOMAIN Get(o, "devices")[2] |-> Get(o, "devices")[2][i][2]]
    BY <1>9 DEF DeviceObjects
  <2> QED BY <2>1, <1>9
<1> HIDE DEF ds
<1>11. ASSUME NEW i \in DOMAIN c.devices
       PROVE  /\ i \in DOMAIN ds /\ DeviceParses(ds[i])
              /\ ParseDevice(ds[i]) = c.devices[i]
              /\ DeviceJson(c.devices[i])[1] = "map"
  <2> DEFINE d == c.devices[i]
  <2>1. d \in SavedDevices
    BY <1>1 DEF SavedConfigs
  <2>2. DeviceValid(d) /\ d.devicePort # 0
    BY DEF Validate, PortsOf
  <2>3. ds[i] = DeviceJson(d)[2] /\ i \in DOMAIN ds
    BY <1>10
  <2>4. DeviceJson(d)[1] = "map"
    BY DEF DeviceJson
  <2> HIDE DEF d
  <2>5. DeviceParses(ds[i]) /\ ParseDevice(ds[i]) = d
    BY <2>1, <2>2, <2>3, DeviceBack
  <2> QED BY <2>3, <2>4, <2>5 DEF d
<1>12. [i \in DOMAIN ds |-> ParseDevice(ds[i])] = c.devices
  <2>1. DOMAIN ds = DOMAIN c.devices
    BY <1>10
  <2>2. c.devices = [i \in DOMAIN c.devices |-> c.devices[i]]
    BY <1>1 DEF SavedConfigs
  <2> QED BY <2>1, <2>2, <1>11
\* The values of the root.
<1>13. /\ c.bridgeMode \in {"pull", "push", "hybrid"}
       /\ c.vpsWebhookUrl \notin {None, ""}
  BY <1>1 DEF SavedConfigs, Validate, HttpUrl, None
<1>14. /\ Optional(o, "vpsWebhookUrl") = c.vpsWebhookUrl /\ Present(o, "vpsWebhookUrl")
       /\ Get(o, "bridgeMode") \notin {Missing, Null}
       /\ Text(Get(o, "bridgeMode")) = c.bridgeMode
  <2>1. /\ Optional(o, "vpsWebhookUrl") = c.vpsWebhookUrl /\ Present(o, "vpsWebhookUrl")
    BY <1>3, <1>13, TextBack
  <2>2. Get(o, "bridgeMode") \notin {Missing, Null} /\ Text(Get(o, "bridgeMode")) = c.bridgeMode
    BY <1>3 DEF Missing, Null, Text
  <2> QED BY <2>1, <2>2
<1>15. /\ ModeParses(Get(o, "bridgeMode"))
       /\ \A senseFace : ParseMode(Get(o, "bridgeMode"), senseFace) = c.bridgeMode
  <2>1. c.bridgeMode \in DOMAIN ModeWords /\ ModeWords[c.bridgeMode] = c.bridgeMode
    BY <1>13 DEF ModeWords
  <2> QED BY <2>1, <1>14 DEF ModeParses, ParseMode
<1>16. /\ \A default : Integer(Get(o, "bridgePort"), default) = c.bridgePort
       /\ \A default : Integer(Get(o, "jobPollIntervalSeconds"), default)
                         = c.jobPollIntervalSeconds
       /\ \A default : Integer(Get(o, "updateCheckIntervalHours"), default)
                         = c.updateCheckIntervalHours
  BY <1>4, IntBack
<1>17. /\ c.bridgePort \in 1..MaxPort /\ c.jobPollIntervalSeconds \in MinInterval..MaxInput
       /\ c.updateCheckIntervalHours = 6
  <2>1. c.bridgePort \in 0..MaxPort /\ c.bridgePort # 0
    BY <1>1 DEF SavedConfigs, Ports, PortsOf
  <2>2. c.bridgePort \in 1..MaxPort
    BY <2>1, PortBound
  <2> QED BY <2>2, <1>1 DEF SavedConfigs, Intervals
<1>18. /\ c.jobPollIntervalSeconds \in 0..MaxInput
       /\ MaxOf(c.jobPollIntervalSeconds, MinInterval) = c.jobPollIntervalSeconds
       /\ MaxOf(c.updateCheckIntervalHours, 1) = c.updateCheckIntervalHours
       /\ c.updateCheckIntervalHours \in 0..MaxInput
  <2>1. 6 <= MaxInput
    BY DEF MaxInput
  <2> QED BY <2>1, <1>17, BoundsOrdered DEF MaxOf
<1>19. /\ PortOk(Get(o, "bridgePort")) /\ U64Ok(Get(o, "jobPollIntervalSeconds"))
       /\ U64Ok(Get(o, "updateCheckIntervalHours"))
  BY <1>4, <1>17, <1>18, IntBack DEF PortOk, U64Ok
<1>20. c.autoStartOnBoot \in BOOLEAN /\ c.autoUpdate \in BOOLEAN
  BY <1>1 DEF SavedConfigs
<1>21. /\ BoolOk(Get(o, "autoStartOnBoot")) /\ BoolOk(Get(o, "autoUpdate"))
       /\ \A default : Bool(Get(o, "autoStartOnBoot"), default) = c.autoStartOnBoot
       /\ \A default : Bool(Get(o, "autoUpdate"), default) = c.autoUpdate
  BY <1>5, <1>20, BoolBack
<1>22. Optional(o, "hrmsBaseUrl") = c.hrmsBaseUrl /\ Optional(o, "hrmsApiToken") = c.hrmsApiToken
  <2>1. Optional(o, "hrmsBaseUrl") = c.hrmsBaseUrl
    <3>1. CASE c.hrmsBaseUrl = None
      BY <3>1, <1>6, NothingBack
    <3>2. CASE c.hrmsBaseUrl # None
      BY <3>2, <1>6, TextBack
    <3> QED BY <3>1, <3>2
  <2>2. Optional(o, "hrmsApiToken") = c.hrmsApiToken
    <3>1. CASE c.hrmsApiToken = None
      BY <3>1, <1>6, NothingBack
    <3>2. CASE c.hrmsApiToken # None
      BY <3>2, <1>6, TextBack
    <3> QED BY <3>1, <3>2
  <2> QED BY <2>1, <2>2
\* The whole.
<1>23. Parses(o)
  <2>1. \A i \in DOMAIN Get(o, "devices")[2] : Get(o, "devices")[2][i][1] = "map"
    BY <1>9, <1>11
  <2>2. \A i \in DOMAIN DeviceObjects(o) : DeviceParses(DeviceObjects(o)[i])
    BY <1>10, <1>11 DEF ds
  <2>3. PortOk(Get(o, PortKey(o)))
    BY <1>4, <1>19
  <2> QED BY <2>1, <2>2, <2>3, <1>8, <1>9, <1>14, <1>15, <1>19, <1>21 DEF Parses
<1>24. Parse(o) = Reloaded(c)
  <2> DEFINE face == ParseSenseFace(Get(o, "senseFace"))
             mode == ParseMode(Get(o, "bridgeMode"), face)
             port == Integer(Get(o, PortKey(o)), 7431)
             boot == Bool(Get(o, "autoStartOnBoot"), FALSE)
             base == IF Optional(o, "hrmsBaseUrl") = None THEN None
                     ELSE Stripped(Optional(o, "hrmsBaseUrl"))
             poll == MaxOf(Integer(Get(o, "jobPollIntervalSeconds"), 30), MinInterval)
             own == Bool(Get(o, "autoUpdate"), FALSE)
             hours == MaxOf(Integer(Get(o, "updateCheckIntervalHours"), 6), 1)
             devices == [i \in DOMAIN ds |-> ParseDevice(ds[i])]
             url == IF c.hrmsBaseUrl = None THEN None ELSE Stripped(c.hrmsBaseUrl)
             Made(a1, a2, a3, a4, a5, a6, a7, a8, a9, a10, a11) ==
               [bridgeMode |-> a1, vpsWebhookUrl |-> a2, bridgePort |-> a3,
                autoStartOnBoot |-> a4, hrmsBaseUrl |-> a5, hrmsApiToken |-> a6,
                jobPollIntervalSeconds |-> a7, autoUpdate |-> a8,
                updateCheckIntervalHours |-> a9, devices |-> a10, senseFace |-> a11]
  <2>1. Parse(o) = Made(mode, Optional(o, "vpsWebhookUrl"), port, boot, base,
                        Optional(o, "hrmsApiToken"), poll, own, hours, devices, face)
    BY DEF Parse, ds
  <2>2. Reloaded(c) = Made(c.bridgeMode, c.vpsWebhookUrl, c.bridgePort, c.autoStartOnBoot,
                           url, c.hrmsApiToken, c.jobPollIntervalSeconds, c.autoUpdate,
                           c.updateCheckIntervalHours, c.devices, c.senseFace)
    BY <1>1 DEF Reloaded, SavedConfigs
  <2>3. face = c.senseFace /\ mode = c.bridgeMode
    BY <1>8, <1>15
  <2>4. port = c.bridgePort
    BY <1>4, <1>16
  <2>5. boot = c.autoStartOnBoot /\ own = c.autoUpdate
    BY <1>21
  <2>6. base = url
    BY <1>22
  <2>7. poll = c.jobPollIntervalSeconds /\ hours = c.updateCheckIntervalHours
    BY <1>16, <1>18
  <2>8. devices = c.devices
    BY <1>12
  <2> HIDE DEF face, mode, port, boot, base, poll, own, hours, devices, url, Made
  <2> QED BY <2>1, <2>2, <2>3, <2>4, <2>5, <2>6, <2>7, <2>8, <1>14, <1>20, <1>22
<1>25. Validate(Reloaded(c))
  BY <1>1, ReloadedValid
<1> HIDE DEF v
<1>26. FromJson(v) = Reloaded(c)
  <2>1. Parses(v[2]) /\ Validate(Parse(v[2])) /\ Parse(v[2]) = Reloaded(c)
    BY <1>23, <1>24, <1>25 DEF o
  <2> QED BY <1>2, <2>1 DEF FromJson
<1> QED BY <1>26 DEF v

\* One port of 0, whichever it is, and the whole file is refused.
LEMMA ZeroPortRefused ==
  ASSUME NEW c, SavedConfig(c), 0 \in PortsOf(c)
  PROVE  FromJson(ToJson(c)) = Invalid
<1> DEFINE v == ToJson(c)
           o == v[2]
<1>1. c \in SavedConfigs
  BY DEF SavedConfig
<1>2. v[2] = o
  OBVIOUS
<1>3. /\ Get(o, "bridgePort") = <<"int", c.bridgePort>> /\ PortKey(o) = "bridgePort"
      /\ Get(o, "devices") = DevicesJson(c.devices)
      /\ Get(o, "senseFace") =
           IF c.senseFace = <<>> THEN Missing ELSE SenseFaceJson(c.senseFace[1])
  BY <1>1, ConfigKeys DEF PortKey
<1> HIDE DEF o
<1>4. ASSUME c.bridgePort = 0 PROVE ~Parses(o)
  <2>1. ~PortOk(Get(o, PortKey(o)))
    BY <1>3, <1>4, ZeroIsNoPort
  <2> QED BY <2>1 DEF Parses
<1>5. ASSUME NEW i \in DOMAIN c.devices, c.devices[i].devicePort = 0
      PROVE  ~Parses(o)
  <2>1. c.devices[i] \in SavedDevices
    BY <1>1 DEF SavedConfigs
  <2>2. Get(DeviceJson(c.devices[i])[2], "devicePort") = <<"int", 0>>
    BY <2>1, <1>5, DeviceKeys
  <2>3. ~DeviceParses(DeviceJson(c.devices[i])[2])
    BY <2>2, ZeroIsNoPort DEF DeviceParses
  <2>4. /\ Get(o, "devices") # Missing
        /\ Get(o, "devices")[2] = [j \in DOMAIN c.devices |-> DeviceJson(c.devices[j])]
    BY <1>3 DEF DevicesJson, Missing
  <2>5. DeviceObjects(o) = [j \in DOMAIN Get(o, "devices")[2] |-> Get(o, "devices")[2][j][2]]
    BY <2>4 DEF DeviceObjects
  <2>6. i \in DOMAIN DeviceObjects(o) /\ DeviceObjects(o)[i] = DeviceJson(c.devices[i])[2]
    BY <2>4, <2>5
  <2> QED BY <2>3, <2>6 DEF Parses
<1>6. ASSUME NEW i \in DOMAIN c.senseFace, c.senseFace[i].port = 0
      PROVE  ~Parses(o)
  <2> DEFINE s == c.senseFace[1]
  <2>1. s \in SavedReceivers /\ s.port = 0 /\ c.senseFace # <<>>
    <3>1. c.senseFace # <<>>
      BY <1>6
    <3>2. c.senseFace = <<s>> /\ s \in SavedReceivers
      BY <3>1 DEF SavedConfig
    <3>3. i = 1
      BY <3>2, <1>6
    <3> QED BY <1>6, <3>1, <3>2, <3>3
  <2>2. Get(o, "senseFace") = SenseFaceJson(s)
    BY <1>3, <2>1
  <2> HIDE DEF s
  <2>3. Get(SenseFaceJson(s)[2], "port") = <<"int", 0>>
    BY <2>1, ReceiverKeys
  <2>4. ~PortOk(Get(SenseFaceJson(s)[2], "port"))
    BY <2>3, ZeroIsNoPort
  <2>5. ~Absent(SenseFaceJson(s))
    BY DEF SenseFaceJson, Absent, Missing, Null
  <2>6. ~SenseFaceParses(Get(o, "senseFace"))
    BY <2>2, <2>4, <2>5 DEF SenseFaceParses
  <2> QED BY <2>6 DEF Parses
<1>7. ~Parses(o)
  BY <1>4, <1>5, <1>6 DEF PortsOf
<1> HIDE DEF v
<1> QED BY <1>2, <1>7 DEF FromJson, v

LEMMA FromAnswers ==
  ASSUME ConfigInv, config[1] = "answers"
  PROVE  \E a \in Answers : Validate(WizardConfig(a)) /\ config = <<"answers", a>>
<1>1. config # Loaded
  BY DEF Loaded
<1> QED BY <1>1 DEF ConfigInv, Sources

\* Whatever is typed into the wizard, of a config that it finds valid and saves:
\* it is valid when it is loaded, and the same, no field is lost by the writer and
\* no default or clamp of from_json_value changes one (only the slash at the end of
\* the HRMS URL goes), if and only if none of its ports is 0; with a port of 0,
\* which prompts and validate() accept, from_json_value refuses the whole file.
THEOREM SavedLoadsBackAlways == InstallSpec => []SavedLoadsBack
<1>1. ConfigInv => SavedLoadsBack
  <2> SUFFICES ASSUME ConfigInv, config[1] = "answers"
               PROVE  FromJson(File) = IF 0 \in PortsOf(WizardConfig(config[2]))
                                       THEN Invalid ELSE Reloaded(WizardConfig(config[2]))
    BY DEF SavedLoadsBack
  <2>1. PICK a \in Answers : Validate(WizardConfig(a)) /\ config = <<"answers", a>>
    BY FromAnswers
  <2>2. SavedConfig(WizardConfig(a))
    BY ConfigAssumption, WizardConfigType
  <2>3. File = ToJson(WizardConfig(a)) /\ config[2] = a
    BY <2>1 DEF File
  <2>4. CASE 0 \in PortsOf(WizardConfig(a))
    BY <2>2, <2>3, <2>4, ZeroPortRefused
  <2>5. CASE 0 \notin PortsOf(WizardConfig(a))
    BY <2>1, <2>2, <2>3, <2>5, ConfigBack
  <2> QED BY <2>3, <2>4, <2>5
<1> QED BY <1>1, SourcesOnly, PTL
=============================================================================
