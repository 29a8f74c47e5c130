----------------------------- MODULE MCExchange -----------------------------
(* CwmpExchange on documents of a few elements, short version lists and a few *)
(* contents of each message, well-formed and not.                             *)
EXTENDS CwmpExchange

\* Two common versions, one of another major and one of a later minor number.
MCEntries == {<<1, 0>>, <<1, 3>>, <<2, 1>>, <<1, 7>>, Malformed}
MCVersionLists == UNION {[1 .. n -> MCEntries] : n \in 0 .. 3}
MCNamespaceSets ==
    LET soap == {"SOAPENV", "SOAPENC", "XSI", "XSD"}
    IN  {soap, soap \cup {"CWMP_1_1"}, soap \cup {"CWMP_1_0", "CWMP_1_2"},
         {"SOAPENV", "XSI", "XSD", "CWMP_1_0"}}

-----------------------------------------------------------------------------
(* Informs. *)

Device(class, serial) ==
    [Manufacturer |-> "maker", OUI |-> <<"oui">>, ProductClass |-> class, SerialNumber |-> serial]

\* Of the last two, with a hyphen in a field, the strings are the same.
MCDeviceIds == {Device(<<>>, <<"1">>), Device(<<"box">>, <<"1">>), Device(<<"dish">>, <<"1">>),
                Device(<<"box">>, <<"1", "2">>), Device(<<"box", "1">>, <<"2">>)}

IdTree(id) ==
    Tree("DeviceId", <<Leaf("Manufacturer", id.Manufacturer), Leaf("OUI", id.OUI),
                       Leaf("ProductClass", id.ProductClass),
                       Leaf("SerialNumber", id.SerialNumber)>>)

IdParts ==
    {<<IdTree(id)>> : id \in MCDeviceIds}
    \cup {<<>>, <<Tree("DeviceId", <<Leaf("Manufacturer", "maker")>>)>>,
          <<IdTree(Device(<<>>, <<"1">>)), IdTree(Device(<<"box">>, <<"1">>))>>}

Event(code) ==
    Tree("EventStruct", <<Leaf("EventCode", code), Leaf("CommandKey", "")>>)

EventParts ==
    {<<ArrayTree("Event", "EventStruct", 1, <<Event("1 BOOT")>>)>>,
     <<ArrayTree("Event", "EventStruct", 1, <<Event("2 PERIODIC")>>), Leaf("RetryCount", "0")>>,
     <<ArrayTree("Event", "EventStruct", 2, <<Event("1 BOOT")>>)>>,
     <<ArrayTree("Event", "EventStruct", 0, <<>>)>>,
     <<ArrayTree("Event", "EventStruct", 1, <<Event("1 BOOT")>>), Leaf("RetryCount", "many")>>}

Parameter(root, suffix, value) ==
    Tree("ParameterValueStruct", <<Leaf("Name", <<root, suffix>>), Leaf("Value", value)>>)

Url(root, value) == Parameter(root, "ManagementServer.ConnectionRequestURL", value)

OtherParameters ==
    <<Parameter("Device.", "DeviceInfo.HardwareVersion", "h"),
      Parameter("Device.", "DeviceInfo.SoftwareVersion", "s"),
      Parameter("Device.", "DeviceInfo.ProvisioningCode", "p"),
      Parameter("Device.", "ManagementServer.ParameterKey", "k")>>

ParameterLists ==
    {OtherParameters, OtherParameters \o <<Url("Device.", "u")>>,
     <<Url("", "u")>> \o OtherParameters,
     <<Url("Device.", "u")>> \o OtherParameters \o <<Url("Device.X_VENDOR.", "v")>>}

ParameterParts ==
    {<<ArrayTree("ParameterList", "ParameterValueStruct", Len(list), list)>> :
        list \in ParameterLists} \cup {<<>>}

MCInformContents ==
    {id \o events \o list : id \in IdParts, events \in EventParts, list \in ParameterParts}

-----------------------------------------------------------------------------
(* API calls. *)

Attribute(name, access) ==
    [Name |-> name, NotificationChange |-> TRUE, Notification |-> "2",
     AccessListChange |-> access # <<>>, AccessList |-> access]

Value(name, type) == [Name |-> name, Value |-> "1", Type |-> type]

Objects(rpc) ==
    CASE rpc \in {"AddObject", "DeleteObject"} ->
            {[ObjectName |-> "Device.Host."], [ObjectName |-> "", ParameterKey |-> "k"]}
      [] rpc \in {"GetParameterAttributes", "GetParameterValues"} ->
            {[ParameterNames |-> <<>>], [ParameterNames |-> <<"Device.", "Device.Host.">>]}
      [] rpc = "GetParameterNames" -> {[ParameterPath |-> "Device.", NextLevel |-> TRUE]}
      [] rpc = "Reboot" -> {[CommandKey |-> "k"]}
      [] rpc = "SetParameterAttributes" ->
            {[Attributes |-> <<Attribute("a", <<>>), Attribute("b", <<"Subscriber">>)>>]}
      [] rpc = "SetParameterValues" ->
            {[ParameterList |-> <<Value("a", <<"xsd", "int">>), Value("b", <<"int">>)>>]}
      [] OTHER -> {}

MCApiCalls ==
    UNION {[rpc : {rpc}, params : {Absent, Null, Wrong, Object(<<>>)}
                                  \cup {Object(o) : o \in Objects(rpc)}] :
           rpc \in RpcNames \cup {"Download"}}

-----------------------------------------------------------------------------
(* Responses. *)

Status(name) == <<Leaf(name, "0")>>
NoStatus(name) == <<Leaf(name, "done")>>

\* The list with its right count, one that is not the number of items, or the
\* wrong type of items.
Lists(name, of, items) == {<<ArrayTree(name, of, Len(items), items)>>}
BadLists(name, of, items) ==
    {<<ArrayTree(name, of, Len(items) + 1, items)>>, <<ArrayTree(name, "int", Len(items), items)>>,
     <<Tree(name, items)>>}

AttributeItem(notification) ==
    Tree("ParameterAttributeStruct",
         <<Leaf("Name", "a"), Leaf("Notification", notification),
           ArrayTree("AccessList", "string", 1, <<Leaf("string", "Subscriber")>>)>>)
InfoItem(writable) ==
    Tree("ParameterInfoStruct", <<Leaf("Name", "a"), Leaf("Writable", writable)>>)
ValueItem == Parameter("Device.", "Host", "1")
JunkItem == Tree("ParameterValueStruct", <<Leaf("Nome", <<"Device.", "Host">>)>>)

Detail(code) ==
    Tree("detail", <<Tree("Fault", <<Leaf("FaultCode", code), Leaf("FaultString", "x")>>)>>)
FaultHead == <<Leaf("faultcode", "Client"), Leaf("faultstring", "CWMP fault")>>

MCHeaders ==
    {<<>>, <<Leaf("ID", CpeId), Leaf("ID", RpcId)>>, <<Leaf("ID", RpcId), Leaf("ID", CpeId)>>}

MCGoodResponses ==
    [AddObjectResponse |-> {Status("InstanceNumber") \o Status("Status"), <<>>},
     DeleteObjectResponse |-> {Status("Status")},
     SetParameterValuesResponse |-> {Status("Status")},
     SetParameterAttributesResponse |-> {<<>>},
     RebootResponse |-> {<<>>},
     Fault |-> {FaultHead \o <<Detail("9005")>>, FaultHead},
     GetParameterAttributesResponse |->
        Lists("ParameterList", "ParameterAttributeStruct", <<AttributeItem("2")>>),
     GetParameterNamesResponse |->
        Lists("ParameterList", "ParameterInfoStruct", <<InfoItem("0"), InfoItem("1")>>),
     GetParameterValuesResponse |->
        Lists("ParameterList", "ParameterValueStruct", <<ValueItem>>)
        \cup Lists("ParameterList", "ParameterValueStruct", <<>>),
     GetRPCMethodsResponse |-> Lists("MethodList", "string", <<Leaf("string", "Reboot")>>)]

MCBadResponses ==
    [AddObjectResponse |-> {Status("Status") \o NoStatus("InstanceNumber")},
     DeleteObjectResponse |-> {NoStatus("Status")},
     SetParameterValuesResponse |-> {NoStatus("Status")},
     SetParameterAttributesResponse |-> {},
     RebootResponse |-> {},
     Fault |-> {FaultHead \o <<Detail("nine")>>},
     GetParameterAttributesResponse |->
        Lists("ParameterList", "ParameterAttributeStruct", <<AttributeItem("all")>>)
        \cup BadLists("ParameterList", "ParameterAttributeStruct", <<AttributeItem("2")>>),
     GetParameterNamesResponse |->
        Lists("ParameterList", "ParameterInfoStruct", <<InfoItem("0"), InfoItem("perhaps")>>)
        \cup BadLists("ParameterList", "ParameterInfoStruct", <<InfoItem("1")>>),
     GetParameterValuesResponse |->
        Lists("ParameterList", "ParameterValueStruct", <<ValueItem, JunkItem>>)
        \cup BadLists("ParameterList", "ParameterValueStruct", <<ValueItem>>),
     GetRPCMethodsResponse |->
        Lists("MethodList", "string", <<Leaf("String", "Reboot")>>)
        \cup BadLists("MethodList", "string", <<Leaf("string", "Reboot")>>)]
=============================================================================
