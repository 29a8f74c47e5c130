------------------------------ MODULE CwmpRpcs ------------------------------
(***************************************************************************)
(* Outgoing messages: how an RPC is built from the JSON of an API call     *)
(* (controllers/api_controller.go), what of it the database keeps          *)
(* (db/db.go), what XML becomes of a message (internal/xml/cwmp_1_4/       *)
(* generators.go, internal/xml/dom/dom.go), and what of an Inform goes     *)
(* into the device table.                                                  *)
(*                                                                         *)
(* The XML is the tree of elements, as in CwmpMessages: prefixes and the   *)
(* declarations of namespaces are left out.                                *)
(***************************************************************************)
EXTENDS CwmpMessages

\* The JSON of "parameters": not there, null, an object, of which the fields
\* the RPC knows are given, or something a struct cannot be read from.
Absent == [json |-> "absent"]
Null == [json |-> "null"]
Wrong == [json |-> "wrong"]
Object(fields) == [json |-> "object", fields |-> fields]

\* json.Unmarshal into a struct: null leaves it as it is, no bytes are an error.
Unmarshals(params) == params.json \in {"null", "object"}

Field(params, name, zero) ==
    IF params.json = "object" /\ name \in DOMAIN params.fields
    THEN params.fields[name] ELSE zero

-----------------------------------------------------------------------------
(* buildCwmpMessageFromParts. *)

RpcNames == {"AddObject", "DeleteObject", "GetParameterAttributes", "GetParameterValues",
             "GetParameterNames", "Reboot", "GetRPCMethods", "SetParameterAttributes",
             "SetParameterValues"}

\* The type of a value: the parts between the colons.
WithoutPrefix(type) == IF Len(type) > 1 THEN Tail(type) ELSE type

\* What an RPC cannot do without.
HasRequired(name, params) ==
    CASE name \in {"AddObject", "DeleteObject"} -> Field(params, "ObjectName", "") # ""
      [] name \in {"GetParameterAttributes", "GetParameterValues"} ->
            Field(params, "ParameterNames", <<>>) # <<>>
      [] name = "SetParameterAttributes" -> Field(params, "Attributes", <<>>) # <<>>
      [] name = "SetParameterValues" -> Field(params, "ParameterList", <<>>) # <<>>
      [] OTHER -> TRUE

\* GetRPCMethods never looks at its parameters, Reboot can do without.
Builds(name, params) ==
    /\ name \in RpcNames
    /\ \/ name = "GetRPCMethods"
       \/ name = "Reboot" /\ params.json = "absent"
       \/ Unmarshals(params) /\ HasRequired(name, params)

FieldsOf(name, params) ==
    CASE name \in {"AddObject", "DeleteObject"} ->
            [ObjectName |-> Field(params, "ObjectName", ""),
             ParameterKey |-> Field(params, "ParameterKey", "")]
      [] name \in {"GetParameterAttributes", "GetParameterValues"} ->
            [ParameterNames |-> Field(params, "ParameterNames", <<>>)]
      [] name = "GetParameterNames" ->
            [ParameterPath |-> Field(params, "ParameterPath", ""),
             NextLevel |-> Field(params, "NextLevel", FALSE)]
      [] name = "Reboot" -> [CommandKey |-> Field(params, "CommandKey", "")]
      [] name = "GetRPCMethods" -> NoFields
      [] name = "SetParameterAttributes" ->
            [ParameterList |-> Field(params, "Attributes", <<>>)]
      [] name = "SetParameterValues" ->
            LET list == Field(params, "ParameterList", <<>>)
            IN  [ParameterList |->
                    [i \in DOMAIN list |-> [list[i] EXCEPT !.Type = WithoutPrefix(@)]],
                 ParameterKey |-> Field(params, "ParameterKey", "")]

Outgoing(name, id, fields) == [name |-> name, id |-> id, fields |-> fields]

\* Defined where Builds(name, params).
buildCwmpMessageFromParts(id, name, params) == Outgoing(name, id, FieldsOf(name, params))

-----------------------------------------------------------------------------
(* The column rpc_queue.parameters. *)

NullColumn == [json |-> "NULL"]

\* nullableString on the way in: no bytes are NULL.
StoreParameters(params) == IF params.json = "absent" THEN NullColumn ELSE params

\* Mutant: NULL is scanned into a plain string, which is an error.
LoadParameters_Strict(column) == [error |-> column = NullColumn, params |-> column]

\* sql.NullString on the way out: NULL is no bytes.
LoadParameters(column) ==
    [error |-> FALSE, params |-> IF column = NullColumn THEN Absent ELSE column]

-----------------------------------------------------------------------------
(* The generators. *)

FormatBool(b) == IF b THEN "true" ELSE "false"

\* The Envelope with its Header, and in the Body an element named as the message.
generateMessageParts(message, kids) ==
    [header |-> [ID |-> message.id], rpc |-> Tree(message.name, kids)]

StringArray(name, strings) ==
    ArrayTree(name, "string", Len(strings), Each(strings, LAMBDA text : Leaf("string", text)))

GenerateObject(message) ==
    generateMessageParts(message, <<Leaf("ObjectName", message.fields.ObjectName),
                                    Leaf("ParameterKey", message.fields.ParameterKey)>>)

CwmpFault(fault) ==
    Tree("detail", <<Tree("Fault", <<Leaf("FaultCode", fault.fields.FaultCode),
                                     Leaf("FaultString", fault.fields.FaultString)>>)>>)

\* Mutant: the detail is written before the faultstring.
GenerateFault_DetailFirst(message) ==
    generateMessageParts(message, <<Leaf("faultcode", message.fields.Source),
                                    CwmpFault(message),
                                    Leaf("faultstring", "CWMP fault")>>)

GenerateFault(message) ==
    generateMessageParts(message, <<Leaf("faultcode", message.fields.Source),
                                    Leaf("faultstring", "CWMP fault"),
                                    CwmpFault(message)>>)

GenerateNames(message) ==
    generateMessageParts(message, <<StringArray("ParameterNames",
                                                message.fields.ParameterNames)>>)

GenerateGetParameterNames(message) ==
    generateMessageParts(message, <<Leaf("ParameterPath", message.fields.ParameterPath),
                                    Leaf("NextLevel", FormatBool(message.fields.NextLevel))>>)

GenerateGetRPCMethods(message) == generateMessageParts(message, <<>>)

\* The list is sorted only after the elements were made from it.
GenerateGetRPCMethodsResponse(message) ==
    generateMessageParts(message, <<StringArray("MethodList", message.fields.MethodList)>>)

\* No version has the empty name, so UseCWMPVersion is always there.
GenerateInformResponse(message) ==
    [header |-> [ID |-> message.id, UseCWMPVersion |-> message.fields.UseCWMPVersion],
     rpc |-> Tree(message.name, <<Leaf("MaxEnvelopes", message.fields.MaxEnvelopes)>>)]

GenerateReboot(message) ==
    generateMessageParts(message, <<Leaf("CommandKey", message.fields.CommandKey)>>)

GenerateSetParameterAttributes(message) ==
    LET list == message.fields.ParameterList
    IN  generateMessageParts(message,
            <<ArrayTree("ParameterList", "SetParameterAttributesStruct", Len(list),
                Each(list, LAMBDA param : Tree("SetParameterAttributesStruct",
                    <<Leaf("Name", param.Name),
                      Leaf("NotificationChange", FormatBool(param.NotificationChange)),
                      Leaf("Notification", param.Notification),
                      Leaf("AccessListChange", FormatBool(param.AccessListChange)),
                      StringArray("AccessList", param.AccessList)>>)))>>)

TypedLeaf(name, text, type) ==
    [name |-> name, text |-> text, array |-> NoArray, kids |-> <<>>, type |-> type]

\* The type of a value is written under the prefix of XML Schema.
GenerateSetParameterValues(message) ==
    LET list == message.fields.ParameterList
    IN  generateMessageParts(message,
            <<ArrayTree("ParameterList", "ParameterValueStruct", Len(list),
                Each(list, LAMBDA param : Tree("ParameterValueStruct",
                    <<Leaf("Name", param.Name),
                      TypedLeaf("Value", param.Value, <<"xsd">> \o param.Type)>>))),
              Leaf("ParameterKey", message.fields.ParameterKey)>>)

CwmpMessageGenerators == RpcNames \cup {"Fault", "GetRPCMethodsResponse", "InformResponse"}

Generate(message) ==
    CASE message.name \in {"AddObject", "DeleteObject"} -> GenerateObject(message)
      [] message.name = "Fault" -> GenerateFault(message)
      [] message.name \in {"GetParameterAttributes", "GetParameterValues"} ->
            GenerateNames(message)
      [] message.name = "GetParameterNames" -> GenerateGetParameterNames(message)
      [] message.name = "GetRPCMethods" -> GenerateGetRPCMethods(message)
      [] message.name = "GetRPCMethodsResponse" -> GenerateGetRPCMethodsResponse(message)
      [] message.name = "InformResponse" -> GenerateInformResponse(message)
      [] message.name = "Reboot" -> GenerateReboot(message)
      [] message.name = "SetParameterAttributes" -> GenerateSetParameterAttributes(message)
      [] message.name = "SetParameterValues" -> GenerateSetParameterValues(message)

cwmpMessageGenerators == [v \in {CWMP_V1_4} |-> CwmpMessageGenerators]
defaultCwmpMessageGenerators == CwmpMessageGenerators

\* Is there a generator?  If not, the handler answers with a 500.
HasGenerator(cwmpVersion, name) ==
    \/ cwmpVersion \in DOMAIN cwmpMessageGenerators /\ name \in cwmpMessageGenerators[cwmpVersion]
    \/ name \in defaultCwmpMessageGenerators

-----------------------------------------------------------------------------
(* From an Inform to the device table. *)

\* Mutant: the product class is left out.
generateDeviceIdString_NoClass(id) == id.OUI \o id.SerialNumber

\* The parts of the fields joined by hyphens; an empty ProductClass has no part.
generateDeviceIdString(id) == id.OUI \o id.ProductClass \o id.SerialNumber

\* The value of the last parameter with this suffix, below whatever root.
InformValue(inform, suffix) ==
    ValueOr(LastFound(Each(inform.Parameters, LAMBDA param :
                IF HasDotSuffix(param.Name, suffix) THEN {param.Value} ELSE {})), "")

\* The row AddDevice and UpdateDevice write and GetDeviceByID reads: the versions
\* of hardware and software have no column.  NULL is read as the empty string.
DeviceRow(inform) ==
    [device_id |-> generateDeviceIdString(inform.DeviceId),
     connection_request_url |-> InformValue(inform, "ManagementServer.ConnectionRequestURL"),
     parameter_key |-> InformValue(inform, "ManagementServer.ParameterKey"),
     provisioning_code |-> InformValue(inform, "DeviceInfo.ProvisioningCode")]

bootEvents == {"0 BOOTSTRAP", "1 BOOT"}

isBoot(inform) == \E i \in DOMAIN inform.Events : inform.Events[i].EventCode \in bootEvents

incomingRequestNames == {"Inform", "GetRPCMethods", "TransferComplete"}
=============================================================================
