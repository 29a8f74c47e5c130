---------------------------- MODULE CwmpMessages ----------------------------
(***************************************************************************)
(* The parsers of incoming messages (internal/xml/cwmp_1_4/parsers.go) and *)
(* the tables that choose one for a message of a session.                  *)
(*                                                                         *)
(* An element is what ParseSOAPEnvelope built: name, text, children and    *)
(* the attribute arrayType, here the type and count it declares.  Texts    *)
(* are strings; the name of a parameter is the pair of its root and the    *)
(* rest of its path, a field of a DeviceId the sequence of its parts with  *)
(* its hyphens.  The xsi:type of a Value is left out.                      *)
(***************************************************************************)
EXTENDS CwmpVersions
LOCAL INSTANCE SequencesExt

NoArray == [of |-> "", count |-> 0]

Leaf(name, text) == [name |-> name, text |-> text, array |-> NoArray, kids |-> <<>>]
Tree(name, kids) == [name |-> name, text |-> "", array |-> NoArray, kids |-> kids]
ArrayTree(name, of, count, kids) ==
    [name |-> name, text |-> "", array |-> [of |-> of, count |-> count], kids |-> kids]

Each(seq, Op(_)) == [i \in DOMAIN seq |-> Op(seq[i])]
EachIs(seq, Test(_)) == \A i \in DOMAIN seq : Test(seq[i])

\* What a loop leaves behind that assigns whatever it finds: what each turn finds
\* is a set of at most one value, and the last that is not empty counts.
LastFound(sets) ==
    LET at == {i \in DOMAIN sets : sets[i] # {}}
    IN  IF at = {} THEN {} ELSE sets[CHOOSE i \in at : \A j \in at : j <= i]

FoundIn(elem, name, Found(_)) ==
    LastFound(Each(elem.kids, LAMBDA kid : IF kid.name = name THEN Found(kid) ELSE {}))

\* Without any, the field keeps its zero value.
ValueOr(found, zero) == IF found = {} THEN zero ELSE CHOOSE value \in found : TRUE

LastText(elem, name, zero) == ValueOr(FoundIn(elem, name, LAMBDA kid : {kid.text}), zero)

\* strconv.Atoi and ParseBool on the texts a model uses.
Atoi(text) == text \in {"0", "1", "2", "8000", "8001", "8002", "8003", "9005"}
ParseBool(text) == text \in {"0", "1", "true", "false"}

AllInts(elem, names) == EachIs(elem.kids, LAMBDA kid : kid.name \in names => Atoi(kid.text))
AllBools(elem, names) ==
    EachIs(elem.kids, LAMBDA kid : kid.name \in names => ParseBool(kid.text))

OnlyKids(elem, names) == EachIs(elem.kids, LAMBDA kid : kid.name \in names)

\* What a parser returns: a message, an IncomingMessageError (its Header is not
\* filled) or another error.
Message(name, fields) == [error |-> "none", name |-> name, fields |-> fields]
Invalid == [error |-> "IncomingMessageError", code |-> "8003"]
OtherError == [error |-> "other"]
NoFields == <<>>

-----------------------------------------------------------------------------
(* SOAP arrays. *)

BadList == [ok |-> FALSE]

\* Mutant: the number of items is not compared with the declared one.
ParseList_AnyCount(elem, of, item, valid, items) ==
    IF elem.array.of = of /\ OnlyKids(elem, {item}) /\ valid
    THEN [ok |-> TRUE, items |-> items] ELSE BadList

\* The scheme all lists are parsed by: the attribute arrayType names the type
\* of the items and their number, every child is such an item and valid, and
\* there are as many as declared.
ParseList(elem, of, item, valid, items) ==
    IF /\ elem.array.of = of
       /\ OnlyKids(elem, {item})
       /\ valid
       /\ Len(items) = elem.array.count
    THEN [ok |-> TRUE, items |-> items] ELSE BadList

KidsNamed(elem, name) == SelectSeq(elem.kids, LAMBDA kid : kid.name = name)

\* The strings of all AccessLists, appended, whatever their arrayType.
AccessListOf(item) ==
    FlattenSeq(Each(KidsNamed(item, "AccessList"), LAMBDA list :
        Each(KidsNamed(list, "string"), LAMBDA str : str.text)))

\* Items that may hold anything beside a Notification that is a number.
parseParameterAttributeStructList(elem) ==
    ParseList(elem, "ParameterAttributeStruct", "ParameterAttributeStruct",
        EachIs(elem.kids, LAMBDA kid : AllInts(kid, {"Notification"})),
        Each(elem.kids, LAMBDA kid : [Name |-> LastText(kid, "Name", ""),
                                      Notification |-> LastText(kid, "Notification", "0"),
                                      AccessList |-> AccessListOf(kid)]))

parseParameterInfoStructList(elem) ==
    ParseList(elem, "ParameterInfoStruct", "ParameterInfoStruct",
        EachIs(elem.kids, LAMBDA kid :
            OnlyKids(kid, {"Name", "Writable"}) /\ AllBools(kid, {"Writable"})),
        Each(elem.kids, LAMBDA kid : [Name |-> LastText(kid, "Name", ""),
                                      Writable |-> LastText(kid, "Writable", "false")]))

parseMethodList(elem) ==
    ParseList(elem, "string", "string", TRUE, Each(elem.kids, LAMBDA kid : kid.text))

parseEventList(elem) ==
    ParseList(elem, "EventStruct", "EventStruct",
        EachIs(elem.kids, LAMBDA kid : OnlyKids(kid, {"EventCode", "CommandKey"})),
        Each(elem.kids, LAMBDA kid : [EventCode |-> LastText(kid, "EventCode", ""),
                                      CommandKey |-> LastText(kid, "CommandKey", "")]))

NoName == <<"", "">>

parseParameterValueStructList(elem) ==
    ParseList(elem, "ParameterValueStruct", "ParameterValueStruct",
        EachIs(elem.kids, LAMBDA kid : OnlyKids(kid, {"Name", "Value"})),
        Each(elem.kids, LAMBDA kid : [Name |-> LastText(kid, "Name", NoName),
                                      Value |-> LastText(kid, "Value", "")]))

\* The children of this name, parsed: all of them have to parse, the last one
\* counts.
LastParsed(elem, name, ParseKid(_), zero) ==
    IF EachIs(elem.kids, LAMBDA kid : kid.name = name => ParseKid(kid).ok)
    THEN ValueOr(FoundIn(elem, name, LAMBDA kid : {ParseKid(kid)}), zero)
    ELSE BadList

ListsOf(elem, name, ParseKid(_)) ==
    LastParsed(elem, name, ParseKid, [ok |-> TRUE, items |-> <<>>])

-----------------------------------------------------------------------------
(* The Header. *)

\* The ID a message has, from the children of the Header in any namespace; the
\* last one counts.
ParseCPEHeader(kids) ==
    LET Field(name) == LastText(Tree("Header", kids), name, "")
    IN  [ID |-> Field("ID"), SessionTimeout |-> Field("SessionTimeout"),
         SupportedCWMPVersions |-> Field("SupportedCWMPVersions")]

-----------------------------------------------------------------------------
(* Responses. *)

ParseAddObjectResponse(elem) ==
    IF AllInts(elem, {"InstanceNumber", "Status"})
    THEN Message("AddObjectResponse",
                 [InstanceNumber |-> LastText(elem, "InstanceNumber", "0"),
                  Status |-> LastText(elem, "Status", "0")])
    ELSE Invalid

ParseDeleteObjectResponse(elem) ==
    IF AllInts(elem, {"Status"})
    THEN Message("DeleteObjectResponse", [Status |-> LastText(elem, "Status", "0")])
    ELSE Invalid

ParseSetParameterValuesResponse(elem) ==
    IF AllInts(elem, {"Status"})
    THEN Message("SetParameterValuesResponse", [Status |-> LastText(elem, "Status", "0")])
    ELSE Invalid

\* A field of the CWMP faults in a detail.
FoundInFaults(detail, name) ==
    FoundIn(detail, "Fault", LAMBDA fault : FoundIn(fault, name, LAMBDA kid : {kid.text}))

\* What sets FaultString: each faultstring, and each FaultString of a detail.
FaultString(elem) ==
    ValueOr(LastFound(Each(elem.kids, LAMBDA kid :
                CASE kid.name = "faultstring" -> {kid.text}
                  [] kid.name = "detail" -> FoundInFaults(kid, "FaultString")
                  [] OTHER -> {})), "")

FaultCode(elem) ==
    ValueOr(FoundIn(elem, "detail", LAMBDA detail : FoundInFaults(detail, "FaultCode")), "0")

\* An unknown faultcode leaves the source as it is, at first the CPE.
FaultSource(elem) ==
    ValueOr(FoundIn(elem, "faultcode", LAMBDA kid : {kid.text} \cap {"Client", "Server"}),
            "Client")

FaultCodesAreInts(elem) ==
    EachIs(elem.kids, LAMBDA kid : kid.name = "detail" =>
        EachIs(kid.kids, LAMBDA fault : fault.name = "Fault" => AllInts(fault, {"FaultCode"})))

\* A FaultCode that is no number is an error of no type the handler knows.
ParseFault(elem) ==
    IF FaultCodesAreInts(elem)
    THEN Message("Fault", [Source |-> FaultSource(elem), FaultCode |-> FaultCode(elem),
                           FaultString |-> FaultString(elem)])
    ELSE OtherError

ListMessage(name, list) ==
    IF list.ok THEN Message(name, [List |-> list.items]) ELSE Invalid

ParseGetParameterAttributesResponse(elem) ==
    ListMessage("GetParameterAttributesResponse",
                ListsOf(elem, "ParameterList", parseParameterAttributeStructList))

ParseGetParameterNamesResponse(elem) ==
    ListMessage("GetParameterNamesResponse",
                ListsOf(elem, "ParameterList", parseParameterInfoStructList))

ParseGetParameterValuesResponse(elem) ==
    ListMessage("GetParameterValuesResponse",
                ListsOf(elem, "ParameterList", parseParameterValueStructList))

ParseGetRPCMethodsResponse(elem) ==
    ListMessage("GetRPCMethodsResponse", ListsOf(elem, "MethodList", parseMethodList))

ParseGetRPCMethods(elem) == Message("GetRPCMethods", NoFields)
ParseRebootResponse(elem) == Message("RebootResponse", NoFields)
ParseSetParameterAttributesResponse(elem) == Message("SetParameterAttributesResponse", NoFields)

-----------------------------------------------------------------------------
(* Inform. *)

NoDeviceId == [Manufacturer |-> "", OUI |-> <<>>, ProductClass |-> <<>>, SerialNumber |-> <<>>]

DeviceIdOf(elem) ==
    [Manufacturer |-> LastText(elem, "Manufacturer", ""),
     OUI |-> LastText(elem, "OUI", <<>>),
     ProductClass |-> LastText(elem, "ProductClass", <<>>),
     SerialNumber |-> LastText(elem, "SerialNumber", <<>>)]

\* Only ProductClass may be missing or empty.
parseDeviceId(elem) ==
    LET id == DeviceIdOf(elem)
    IN  IF id.Manufacturer # "" /\ id.OUI # <<>> /\ id.SerialNumber # <<>>
        THEN [ok |-> TRUE, id |-> id] ELSE BadList

LastDeviceId(elem) ==
    LastParsed(elem, "DeviceId", parseDeviceId, [ok |-> TRUE, id |-> NoDeviceId])

minimumForcedInformParameters ==
    {"DeviceInfo.HardwareVersion", "DeviceInfo.SoftwareVersion", "DeviceInfo.ProvisioningCode",
     "ManagementServer.ConnectionRequestURL", "ManagementServer.ParameterKey"}

\* strings.HasSuffix(name, suffix), and with a dot before the suffix: of a name
\* with a root, which ends in a dot.
Rooted(name) == name[1] \in {"Device.", "Device.X_VENDOR."}
HasSuffix(name, suffix) == name[2] = suffix
HasDotSuffix(name, suffix) == Rooted(name) /\ HasSuffix(name, suffix)

\* Mutant: one of the required parameters is enough.
isValidInform_OneParameter(inform) ==
    /\ inform.DeviceId.Manufacturer # ""
    /\ inform.Events # <<>>
    /\ \E required \in minimumForcedInformParameters : \E i \in DOMAIN inform.Parameters :
           HasSuffix(inform.Parameters[i].Name, required)

isValidInform(inform) ==
    /\ inform.DeviceId.Manufacturer # ""
    /\ inform.Events # <<>>
    /\ \A required \in minimumForcedInformParameters : \E i \in DOMAIN inform.Parameters :
           HasSuffix(inform.Parameters[i].Name, required)

ParseInform(elem) ==
    LET id == LastDeviceId(elem)
        events == ListsOf(elem, "Event", parseEventList)
        parameters == ListsOf(elem, "ParameterList", parseParameterValueStructList)
        inform == [DeviceId |-> id.id, Events |-> events.items, Parameters |-> parameters.items]
    IN  IF /\ id.ok /\ events.ok /\ parameters.ok
           /\ AllInts(elem, {"MaxEnvelopes", "RetryCount"})
           /\ isValidInform(inform)
        THEN Message("Inform", inform) ELSE Invalid

-----------------------------------------------------------------------------
(* The tables. *)

CwmpMessageParsers ==
    {"AddObjectResponse", "DeleteObjectResponse", "Fault", "GetParameterAttributesResponse",
     "GetParameterNamesResponse", "GetParameterValuesResponse", "GetRPCMethods",
     "GetRPCMethodsResponse", "Inform", "RebootResponse", "SetParameterAttributesResponse",
     "SetParameterValuesResponse"}

Parse(name, elem) ==
    CASE name = "AddObjectResponse" -> ParseAddObjectResponse(elem)
      [] name = "DeleteObjectResponse" -> ParseDeleteObjectResponse(elem)
      [] name = "Fault" -> ParseFault(elem)
      [] name = "GetParameterAttributesResponse" -> ParseGetParameterAttributesResponse(elem)
      [] name = "GetParameterNamesResponse" -> ParseGetParameterNamesResponse(elem)
      [] name = "GetParameterValuesResponse" -> ParseGetParameterValuesResponse(elem)
      [] name = "GetRPCMethods" -> ParseGetRPCMethods(elem)
      [] name = "GetRPCMethodsResponse" -> ParseGetRPCMethodsResponse(elem)
      [] name = "Inform" -> ParseInform(elem)
      [] name = "RebootResponse" -> ParseRebootResponse(elem)
      [] name = "SetParameterAttributesResponse" -> ParseSetParameterAttributesResponse(elem)
      [] name = "SetParameterValuesResponse" -> ParseSetParameterValuesResponse(elem)

\* Tables exist for 1.4 and as the default.
cwmpMessageParsers == [v \in {CWMP_V1_4} |-> CwmpMessageParsers]
defaultCwmpMessageParsers == CwmpMessageParsers

\* "Method not supported"; this error has its Header.
Unsupported == [error |-> "IncomingMessageError", code |-> "8000"]

parseCwmpMessageViaMap(cwmpVersion, name, elem) ==
    IF \/ cwmpVersion \in DOMAIN cwmpMessageParsers /\ name \in cwmpMessageParsers[cwmpVersion]
       \/ name \in defaultCwmpMessageParsers
    THEN Parse(name, elem)
    ELSE Unsupported
=============================================================================
