---------------------------- MODULE CwmpExchange ----------------------------
(***************************************************************************)
(* The messages of one session, one after the other: the Inform that opens *)
(* it, requests of the CPE, an RPC on its way from the API over the        *)
(* database to the CPE, and the response.  CwmpIncoming takes the first    *)
(* POST apart; CwmpMessages parses, CwmpRpcs builds and generates.  What   *)
(* runs at the same time, fails or crashes is in CwmpSessions and AcsApi.  *)
(***************************************************************************)
EXTENDS CwmpIncoming, CwmpRpcs

CONSTANTS
    DeviceIds,        \* DeviceIds of CPEs
    InformContents,   \* children an Inform may have
    ApiCalls,         \* [rpc, params] an operator may ask for
    Headers,          \* children the Header of a response may have
    GoodResponses,    \* children of the responses, by name: every list, number and
    BadResponses      \* boolean that is there is well-formed, or one is not

IsList(list) == list \in Seq({list[i] : i \in DOMAIN list})

\* Elements, and theirs, as deep as the parsers go.
AreElements(elems) ==
    /\ IsList(elems)
    /\ \A i \in DOMAIN elems : IsList(elems[i].kids)
    /\ \A i \in DOMAIN elems : \A j \in DOMAIN elems[i].kids : IsList(elems[i].kids[j].kids)

DeviceIdStruct ==
    [Manufacturer : STRING,
     OUI : Seq(STRING), ProductClass : Seq(STRING), SerialNumber : Seq(STRING)]

ASSUME DeviceIdsAssumption ==
    /\ DeviceIds \subseteq DeviceIdStruct
    /\ \A kids \in InformContents :
          AreElements(kids) /\
          LET parsed == LastDeviceId(Tree("Inform", kids))
          IN  parsed.ok => parsed.id \in DeviceIdStruct

\* What JSON can be read into the structs of the RPCs.
ASSUME ApiCallsAssumption ==
    \A c \in ApiCalls :
        LET Attributes == Field(c.params, "Attributes", <<>>)
        IN  /\ c.params.json \in {"absent", "null", "wrong", "object"}
            /\ c.params.json = "absent" => c.params = Absent
            /\ \A name \in {"ParameterNames", "Attributes", "ParameterList"} :
                  IsList(Field(c.params, name, <<>>))
            /\ \A i \in DOMAIN Attributes : IsList(Attributes[i].AccessList)

\* Which responses are well-formed, told apart without the parsers: an array has
\* the items and as many as it declares, an item no children but its own, and a
\* number is one.
ItemFits(item) ==
    \A i \in DOMAIN item.kids :
        LET kid == item.kids[i]
        IN  CASE item.name = "ParameterAttributeStruct" ->
                    kid.name = "Notification" => Atoi(kid.text)
              [] item.name = "ParameterInfoStruct" ->
                    kid.name = "Name" \/ (kid.name = "Writable" /\ ParseBool(kid.text))
              [] item.name = "ParameterValueStruct" -> kid.name \in {"Name", "Value"}
              [] OTHER -> TRUE

IsArray(elem, item) ==
    /\ elem.array.of = item /\ elem.array.count = Len(elem.kids)
    /\ \A i \in DOMAIN elem.kids : elem.kids[i].name = item /\ ItemFits(elem.kids[i])

FaultFits(fault) ==
    \A i \in DOMAIN fault.kids : fault.kids[i].name = "FaultCode" => Atoi(fault.kids[i].text)

ResponseKidFits(name, kid) ==
    CASE name = "AddObjectResponse" ->
            kid.name \in {"InstanceNumber", "Status"} => Atoi(kid.text)
      [] name \in {"DeleteObjectResponse", "SetParameterValuesResponse"} ->
            kid.name = "Status" => Atoi(kid.text)
      [] name = "GetParameterAttributesResponse" ->
            kid.name = "ParameterList" => IsArray(kid, "ParameterAttributeStruct")
      [] name = "GetParameterNamesResponse" ->
            kid.name = "ParameterList" => IsArray(kid, "ParameterInfoStruct")
      [] name = "GetParameterValuesResponse" ->
            kid.name = "ParameterList" => IsArray(kid, "ParameterValueStruct")
      [] name = "GetRPCMethodsResponse" -> kid.name = "MethodList" => IsArray(kid, "string")
      [] name = "Fault" -> kid.name = "detail" =>
            \A i \in DOMAIN kid.kids : kid.kids[i].name = "Fault" => FaultFits(kid.kids[i])
      [] OTHER -> TRUE

WellFormed(name, kids) == \A i \in DOMAIN kids : ResponseKidFits(name, kids[i])

ASSUME ResponsesAssumption ==
    /\ DOMAIN GoodResponses \subseteq CwmpMessageParsers \ {"Inform", "GetRPCMethods"}
    /\ DOMAIN BadResponses = DOMAIN GoodResponses
    /\ \A name \in DOMAIN GoodResponses :
          /\ \A kids \in GoodResponses[name] : AreElements(kids) /\ WellFormed(name, kids)
          /\ \A kids \in BadResponses[name] : AreElements(kids) /\ ~WellFormed(name, kids)

VARIABLES
    stage,     \* how far the session has come
    incoming,  \* the message taken last
    device,    \* the row of the device
    call,      \* the API call that queued the RPC
    row,       \* its row in rpc_queue
    reply      \* what the handler wrote last

sessionVars == <<stage, incoming, device, call, row, reply>>
exchangeVars == <<incomingVars, sessionVars>>

NoIncoming == [name |-> "none"]
NoDevice == [device_id |-> <<>>]
NoCall == [rpc |-> "none"]
NoRow == [name |-> "none"]
NoReply == [kind |-> "none"]

\* The ids in the headers of the CPE's own requests and of the RPC; the Fault
\* for a message that does not parse has none.
CpeId == "cpe"
RpcId == "rpc"
NoId == ""

ExchangeTypeOK ==
    /\ IncomingTypeOK
    /\ stage \in {"incoming", "informed", "queued", "sent", "refused", "settled", "closed"}
    /\ device.device_id # <<>> <=> stage = "informed"
    /\ stage \in {"queued", "sent", "refused"} => call \in ApiCalls /\ row.name = call.rpc
    /\ reply.kind \in {"none", "xml", "error"}

ExchangeInit ==
    /\ IncomingInit
    /\ stage = "incoming"
    /\ incoming = NoIncoming /\ device = NoDevice
    /\ call = NoCall /\ row = NoRow /\ reply = NoReply

-----------------------------------------------------------------------------
(* sendOutgoingMsg. *)

Answer(cwmpVersion, message) ==
    reply' = IF HasGenerator(cwmpVersion, message.name)
             THEN [kind |-> "xml", message |-> message, xml |-> Generate(message)]
             ELSE [kind |-> "error"]

generateFault(id, source, code) ==
    Outgoing("Fault", id, [Source |-> source, FaultCode |-> code,
                           FaultString |-> "what is wrong"])

\* An IncomingMessageError is answered with a Fault, which has an id only if
\* the error was given the header; any other error with a 500.
AnswerError(parsed) ==
    IF parsed.error = "IncomingMessageError"
    THEN Answer(version, IF parsed = Unsupported
                         THEN generateFault(CpeId, "Server", parsed.code)
                         ELSE generateFault(NoId, "Client", parsed.code))
    ELSE reply' = [kind |-> "error"]

-----------------------------------------------------------------------------
(* The first POST. *)

TakePost ==
    /\ stage = "incoming" /\ IncomingNext
    /\ UNCHANGED sessionVars

\* No session, no version but that of the message.
AnswerWithoutSession ==
    /\ stage = "incoming" /\ verdict = "Message"
    /\ \E v \in AllVersions : Answer(v, generateFault(CpeId, "Server", "8001"))
    /\ stage' = "closed"
    /\ UNCHANGED <<incomingVars, incoming, device, call, row>>

ParsedInform(kids) == parseCwmpMessageViaMap(version, "Inform", Tree("Inform", kids))

ReadInform(kids, result) ==
    /\ stage = "incoming" /\ verdict = "Inform"
    /\ incoming' = [name |-> "Inform", kids |-> kids]
    /\ stage' = result
    /\ supported' = <<>>
    /\ UNCHANGED <<envelopeVars, verdict, version, call, row>>

RefuseInform ==
    \E kids \in InformContents :
        /\ ReadInform(kids, "closed")
        /\ ParsedInform(kids).error # "none"
        /\ AnswerError(ParsedInform(kids))
        /\ UNCHANGED device

\* The database fails, or has no row for a device that did not boot.
FailInform ==
    \E kids \in InformContents, code \in {"8001", "8002"} :
        /\ ReadInform(kids, "closed")
        /\ ParsedInform(kids).error = "none"
        /\ code = "8001" => ~isBoot(ParsedInform(kids).fields)
        /\ Answer(version, generateFault(CpeId, "Server", code))
        /\ UNCHANGED device

\* AddDevice after a boot, else UpdateDevice.
AcceptInform ==
    \E kids \in InformContents :
        /\ ReadInform(kids, "informed")
        /\ ParsedInform(kids).error = "none"
        /\ device' = DeviceRow(ParsedInform(kids).fields)
        /\ Answer(version, Outgoing("InformResponse", CpeId,
                                    [UseCWMPVersion |-> VersionString(version),
                                     MaxEnvelopes |-> "1"]))

-----------------------------------------------------------------------------
(* Requests of the CPE. *)

\* The orders in which a Go map is ranged over.
RangeOrders(keys) ==
    {order \in [1 .. Cardinality(keys) -> keys] :
        \A key \in keys : \E i \in DOMAIN order : order[i] = key}

ReceiveRequest ==
    /\ stage = "informed"
    /\ \E name \in {"GetRPCMethods", "TransferComplete"} :
        LET parsed == parseCwmpMessageViaMap(version, name, Tree(name, <<>>))
        IN  IF parsed.error = "none"
            THEN \E methods \in RangeOrders(incomingRequestNames) :
                    Answer(version, Outgoing("GetRPCMethodsResponse", CpeId,
                                             [MethodList |-> methods]))
            ELSE AnswerError(parsed)
    /\ UNCHANGED <<incomingVars, stage, incoming, device, call, row>>

-----------------------------------------------------------------------------
(* An RPC of the ACS. *)

\* ApiHandler: a call that does not build is answered with a 400.
QueueCall ==
    /\ stage = "informed"
    /\ \E c \in ApiCalls :
        /\ Builds(c.rpc, c.params)
        /\ call' = c
        /\ row' = [name |-> c.rpc, parameters |-> StoreParameters(c.params)]
    /\ stage' = "queued"
    /\ incoming' = NoIncoming /\ device' = NoDevice /\ reply' = NoReply
    /\ UNCHANGED incomingVars

\* findOutgoingRpc: a row that cannot be read or built ends the session and stays.
FetchRpc ==
    /\ stage = "queued"
    /\ LET loaded == LoadParameters(row.parameters)
       IN  IF ~loaded.error /\ Builds(row.name, loaded.params)
           THEN /\ Answer(version, buildCwmpMessageFromParts(RpcId, row.name, loaded.params))
                /\ stage' = "sent"
           ELSE stage' = "closed" /\ UNCHANGED reply
    /\ UNCHANGED <<incomingVars, incoming, device, call, row>>

ResponseNames == DOMAIN GoodResponses

\* A response that parses and has the id of the RPC settles it, whatever its
\* name; with another id the row is fetched again.  An error leaves it active.
ReceiveResponse ==
    /\ stage \in {"sent", "refused"}
    /\ \E name \in ResponseNames, headerKids \in Headers :
        \E kids \in GoodResponses[name] \cup BadResponses[name] :
            LET id == ParseCPEHeader(headerKids).ID
                parsed == parseCwmpMessageViaMap(version, name, Tree(name, kids))
            IN  CASE parsed.error # "none" ->
                        /\ stage' = "refused" /\ incoming' = [name |-> name, kids |-> kids]
                        /\ AnswerError(parsed)
                        /\ UNCHANGED <<call, row>>
                  [] parsed.error = "none" /\ id = RpcId ->
                        /\ stage' = "settled"
                        /\ incoming' = [name |-> name, kids |-> kids, header |-> headerKids]
                        /\ call' = NoCall /\ row' = NoRow /\ reply' = NoReply
                  [] parsed.error = "none" /\ id # RpcId ->
                        /\ stage' = "queued" /\ incoming' = NoIncoming /\ reply' = NoReply
                        /\ UNCHANGED <<call, row>>
    /\ UNCHANGED <<incomingVars, device>>

ExchangeNext ==
    \/ TakePost
    \/ AnswerWithoutSession
    \/ RefuseInform
    \/ FailInform
    \/ AcceptInform
    \/ ReceiveRequest
    \/ QueueCall
    \/ FetchRpc
    \/ ReceiveResponse

ExchangeSpec == ExchangeInit /\ [][ExchangeNext]_exchangeVars

-----------------------------------------------------------------------------

\* Every array declares as many items as it has, two levels deep.
ArraysAreCounted(elem) ==
    \A i \in DOMAIN elem.kids :
        LET kid == elem.kids[i]
        IN  /\ kid.array.of # "" => kid.array.count = Len(kid.kids)
            /\ \A j \in DOMAIN kid.kids :
                  \A k \in DOMAIN kid.kids[j].kids :
                     LET inner == kid.kids[j].kids[k]
                     IN  inner.array.of # "" => inner.array.count = Len(inner.kids)

\* What ApiHandler accepted can be sent: the row it left, read back by another
\* session, builds once more, and has a generator in every version of CWMP; no
\* accepted call ends a session with its row left at the head of the queue.
AcceptedCallIsSent ==
    /\ row # NoRow => stage # "closed"
    /\ stage = "sent" => /\ reply.kind = "xml"
                         /\ reply.xml.header.ID = RpcId
                         /\ reply.xml.rpc.name = call.rpc
                         /\ ArraysAreCounted(reply.xml.rpc)

\* A response settles an RPC only if it carries the RPC's id and every list in it
\* is what its arrayType says, every number a number; and no such response is
\* refused.  Children may be missing, as the parsers have it.
OnlyGoodResponsesSettle ==
    /\ stage = "settled" => /\ WellFormed(incoming.name, incoming.kids)
                            /\ LastText(Tree("Header", incoming.header), "ID", "") = RpcId
    /\ stage = "refused" => ~WellFormed(incoming.name, incoming.kids)

\* The parameters of an Inform, their names and values by the end of the name.
ParametersIn(kids) ==
    {p \in UNION {{kids[i].kids[j] : j \in DOMAIN kids[i].kids} : i \in DOMAIN kids} :
        p.name = "ParameterValueStruct"}
NameOf(p) == LastText(p, "Name", NoName)
ValuesOf(kids, suffix) ==
    {LastText(p, "Value", "") : p \in {q \in ParametersIn(kids) : HasSuffix(NameOf(q), suffix)}}

\* isValidInform asks for suffixes of names, processInformRequest looks for them
\* after a dot: if the names have a root, an accepted Inform leaves a device
\* with the ConnectionRequestURL and the other values it brought.
AcceptedInformIsUsable ==
    stage = "informed" /\ (\A p \in ParametersIn(incoming.kids) : Rooted(NameOf(p))) =>
        /\ device.connection_request_url \in
               ValuesOf(incoming.kids, "ManagementServer.ConnectionRequestURL")
        /\ device.parameter_key \in ValuesOf(incoming.kids, "ManagementServer.ParameterKey")
        /\ device.provisioning_code \in
               ValuesOf(incoming.kids, "DeviceInfo.ProvisioningCode")

HyphenFree(id) == Len(id.OUI) = 1 /\ Len(id.ProductClass) <= 1 /\ Len(id.SerialNumber) = 1

\* Two devices share a row only if a field of a DeviceId has a hyphen or if they
\* differ in the manufacturer alone.
DeviceIdsDistinct ==
    stage = "informed" =>
        LET id == ParsedInform(incoming.kids).fields.DeviceId
        IN  HyphenFree(id) =>
                \A other \in DeviceIds :
                    /\ HyphenFree(other)
                    /\ generateDeviceIdString(other) = device.device_id
                    => [other EXCEPT !.Manufacturer = ""] = [id EXCEPT !.Manufacturer = ""]

\* The parsers understand what the generators write, where there are both.
OwnParserReadsBack ==
    reply.kind = "xml" /\ reply.message.name \in CwmpMessageParsers =>
        LET message == reply.message
            parsed == parseCwmpMessageViaMap(version, message.name, reply.xml.rpc)
        IN  CASE message.name = "Fault" -> parsed = Message("Fault", message.fields)
              [] message.name = "GetRPCMethods" -> parsed = Message("GetRPCMethods", NoFields)
              [] message.name = "GetRPCMethodsResponse" ->
                    parsed = Message(message.name, [List |-> message.fields.MethodList])
=============================================================================
